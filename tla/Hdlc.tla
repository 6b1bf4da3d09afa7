--------------------------------- MODULE Hdlc ---------------------------------
(***************************************************************************)
(* hdlc_encode of lib/hdlc.cc: a PDU and its frame check sequence are sent *)
(* byte by byte, those that would be taken for a flag or an escape changed *)
(* and escaped, and a flag at the end.  Layer 2 finds the end of a PDU by  *)
(* its flag, and so does the receiver, which undoes the escapes.           *)
(*                                                                         *)
(* The FCS is abstracted to two bytes of any value.                        *)
(***************************************************************************)
EXTENDS Integers, Sequences, SequencesExt

CONSTANTS Bytes,   \* bytes a PDU is made of
          MaxLen   \* bound: bytes of a PDU

Flag == 126        \* 0x7e
Escape == 125      \* 0x7d

VARIABLES in,      \* the PDU with its FCS
          coded,   \* bytes of it encoded
          out

\* c ^ 0x20
Flipped(c) == IF (c \div 32) % 2 = 0 THEN c + 32 ELSE c - 32

\* Mutant: an escape in the data is sent as it is.
SpecialFlag(c) == c = Flag

Special(c) == c \in {Escape, Flag}

Stuffed(c) == IF Special(c) THEN <<Escape, Flipped(c)>> ELSE <<c>>

Init == /\ in \in {pdu \o fcs : pdu \in BoundedSeq(Bytes, MaxLen), fcs \in Bytes \X Bytes}
        /\ coded = 0
        /\ out = << >>

EncodeByte ==
    /\ coded < Len(in)
    /\ coded' = coded + 1
    /\ out' = out \o Stuffed(in[coded + 1])
    /\ UNCHANGED in

EncodeFlag ==
    /\ coded = Len(in)
    /\ coded' = coded + 1
    /\ out' = Append(out, Flag)
    /\ UNCHANGED in

\* External: a receiver takes one more byte, and what it makes of those before a flag.
Received(r, c) ==
    IF ~ r.escaped /\ c = Escape
    THEN [escaped |-> TRUE, pdu |-> r.pdu]
    ELSE [escaped |-> FALSE, pdu |-> Append(r.pdu, IF r.escaped THEN Flipped(c) ELSE c)]

Unstuffed(s) ==
    LET after[n \in 0 .. Len(s)] == IF n = 0 THEN [escaped |-> FALSE, pdu |-> << >>]
                                            ELSE Received(after[n - 1], s[n])
    IN  after[Len(s)].pdu

(***************************************************************************)
(* A flag ends the PDU and is nowhere else, whatever its bytes and its FCS *)
(* are, and the receiver gets back exactly what went in: layer 2 passes    *)
(* the turn to another port at a flag, and would splice PDUs.              *)
(***************************************************************************)
FramedWhole ==
    /\ \A n \in DOMAIN out : out[n] = Flag => coded > Len(in) /\ n = Len(out)
    /\ coded > Len(in) => Last(out) = Flag /\ Unstuffed(Front(out)) = in
===============================================================================
