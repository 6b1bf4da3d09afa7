------------------------------ MODULE PduHeader ------------------------------
(***************************************************************************)
(* What layer 2 writes in front of a program's packets (general_work,      *)
(* write_control_word, write_locator and write_hef of                      *)
(* lib/l2_encoder_impl.cc): the control word, the locators, which say      *)
(* where each packet ends, and the header expansion fields.  Everything is *)
(* packed into bits, locators of 12 bits two to three bytes, and nothing   *)
(* checks that a number fits its bits.                                     *)
(*                                                                         *)
(* The first byte of header is the one after the parity bytes.             *)
(***************************************************************************)
EXTENDS Integers, Sequences, SequencesExt

ControlLen == 6      \* CONTROL_WORD_LEN
HefLen == 3          \* HEF_LEN
ParityLen == 8       \* RS_PARITY_LEN

\* section is what is to be written: number is the program's, nop the number of packets,
\* len the length of each but the first, if first is not 0; split, whether the last
\* goes on in the next PDU; lc_bits says in which kind of PDU.
VARIABLES section,
          header,   \* its first bytes
          end,      \* la_loc, then the end of the last packet
          located   \* locators written; -1 before the control word, nop + 1 after all

psd_bytes(s) == IF s.lc_bits = 16 THEN 128 ELSE 8
codec_mode(s) == IF s.lc_bits = 16 THEN 0 ELSE 13
len_locators(s) == (s.lc_bits * s.nop + 4) \div 8
la_loc(s) == ParityLen + ControlLen + len_locators(s) + HefLen + psd_bytes(s) - 1

\* out_buf is cleared before.
Init(sections) ==
    /\ section \in sections
    /\ header = [i \in 1 .. ControlLen + len_locators(section) + HefLen |-> 0]
    /\ end = 0
    /\ located = -1

Put(at, bytes) ==
    header' = [i \in DOMAIN header |-> IF i - at \in DOMAIN bytes THEN bytes[i - at] % 256 ELSE header[i]]

Latency == 4
Flag(b) == IF b THEN 1 ELSE 0
Main(s, n) == IF s.number = 0 THEN n ELSE 0

WriteControlWord ==
    /\ located = -1
    /\ LET s == section
       IN Put(0, <<((s.pdu_seq_no % 4) * 64) + codec_mode(s),
                   (Main(s, s.blend) * 2) + (s.pdu_seq_no \div 4),
                   ((Latency % 4) * 64) + Main(s, 24),
                   ((s.start_seq_no % 32) * 8) + (Flag(s.split) * 4) + (Flag(s.first > 0) * 2) + (Latency \div 4),
                   128 + (s.nop * 2) + ((s.start_seq_no \div 32) % 2),
                   la_loc(s)>>)
    /\ end' = la_loc(section)
    /\ located' = 0
    /\ UNCHANGED section

\* Mutant: the upper half of the byte that two locators share replaces the lower one.
SharedByteAlone(old, high) == high

SharedByte(old, high) == old + high

WriteLocator ==
    LET i == located
        e == end + (IF i = 0 /\ section.first > 0 THEN section.first ELSE section.len) + 1
        at == ControlLen + (i \div 2) * 3
    IN  /\ located \in 0 .. section.nop - 1
        /\ end' = e
        /\ CASE section.lc_bits = 16 -> Put(ControlLen + 2 * i, <<e % 256, e \div 256>>)
             [] section.lc_bits = 12 /\ i % 2 = 0 -> Put(at, <<e % 256, e \div 256>>)
             [] section.lc_bits = 12 /\ i % 2 = 1 ->
                    Put(at + 1, <<SharedByte(header[at + 2], (e % 16) * 16), e \div 16>>)
        /\ located' = located + 1
        /\ UNCHANGED section

WriteHef ==
    /\ located = section.nop
    /\ Put(ControlLen + len_locators(section),
           <<144 + section.number * 2, 160 + (section.type \div 128), section.type % 128>>)
    /\ located' = located + 1
    /\ UNCHANGED <<section, end>>

Complete == located > section.nop
------------------------------------------------------------------------------
\* External: how a receiver takes the header apart.
ReadNop == (header[5] \div 2) % 64
ReadSeqNo == (header[4] \div 8) + 32 * (header[5] % 2)
ReadPduSeqNo == (header[1] \div 64) + 4 * (header[2] % 2)
ReadLocator(i) ==
    LET at == ControlLen + (i \div 2) * 3
    IN  CASE section.lc_bits = 16 -> header[ControlLen + 2 * i + 1] + 256 * header[ControlLen + 2 * i + 2]
          [] section.lc_bits = 12 /\ i % 2 = 0 -> header[at + 1] + 256 * (header[at + 2] % 16)
          [] section.lc_bits = 12 /\ i % 2 = 1 -> (header[at + 2] \div 16) + 16 * header[at + 3]

ReadHef == LET at == ControlLen + (section.lc_bits * ReadNop + 4) \div 8
           IN  [number |-> (header[at + 1] \div 2) % 8, type |-> (header[at + 2] % 2) * 128 + header[at + 3]]

\* Where the packets begin, counted from the parity bytes, and then each of them ends.
PacketEnd(i) == LET first == IF section.first > 0 THEN section.first ELSE section.len
                IN  la_loc(section) + (i + 1) * (section.len + 1) + first - section.len

(***************************************************************************)
(* A receiver reads back from the finished header all that went into it:   *)
(* how many packets there are, where they begin and where each ends, with  *)
(* which number they begin and whether the first and the last are split,   *)
(* and the program's number and type behind as many locators.              *)
(***************************************************************************)
HeaderRead ==
    Complete =>
        /\ ReadNop = section.nop
        /\ ReadSeqNo = section.start_seq_no % 64
        /\ ReadPduSeqNo = section.pdu_seq_no
        /\ header[1] % 64 = codec_mode(section)
        /\ (header[4] \div 2) % 2 = Flag(section.first > 0) /\ (header[4] \div 4) % 2 = Flag(section.split)
        /\ header[6] + 1 = ParityLen + Len(header) + psd_bytes(section)
        /\ \A i \in 0 .. section.nop - 1 : ReadLocator(i) = PacketEnd(i)
        /\ ReadHef = [number |-> section.number, type |-> section.type]
==============================================================================
