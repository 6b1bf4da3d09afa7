-------------------------------- MODULE Layer2 --------------------------------
(***************************************************************************)
(* The parts of layer 2 that share no state: the audio transport, which    *)
(* fills a PDU; the header in front of each program's packets;             *)
(* header_spread, which lays the PDU out; hdlc_encode, which frames the    *)
(* PDUs of the fixed data; and decode_sig, which reads one of them.  A     *)
(* behaviour is of one of them; the others stay at one of their initial    *)
(* states.                                                                 *)
(***************************************************************************)
EXTENDS AudioTransport

CONSTANTS Sizes,          \* of HeaderSpread
          Bytes, MaxLen,  \* of Hdlc
          Sections,       \* of PduHeader
          Names, SigTypes, MaxSigPrograms   \* of SigCodec

\* A PDU has room for 24 header bits, and bytes have eight bits.
ASSUME SizesAssumption == \A s \in Sizes : s \in Nat /\ s > 128
ASSUME BytesAssumption == Bytes \subseteq 0 .. 255 /\ MaxLen \in Nat

\* The sizes of a section; 6 bits for the packets is what KeepsUp leaves room for.
ASSUME SectionsAssumption ==
    /\ Sections # {}
    /\ \A s \in Sections :
          /\ s.lc_bits \in {12, 16} /\ s.nop \in 0 .. 63 /\ s.len \in Nat /\ s.first \in Nat
          /\ s.split \in BOOLEAN /\ ((s.split \/ s.first > 0) => s.nop > 0)
          /\ s.pdu_seq_no \in 0 .. 7 /\ s.start_seq_no \in Nat /\ s.number \in 0 .. 7
          /\ s.blend \in 0 .. 2 /\ s.type \in 0 .. 127

\* A name's length is sent in a byte, with two added; types are those of program_type.
ASSUME NamesAssumption ==
    /\ \A n \in Names : n \in Seq(0 .. 255) /\ Len(n) <= 253
    /\ SigTypes \subseteq 0 .. 127 /\ MaxSigPrograms \in 0 .. 8

VARIABLES part, size, i, out_off, pci_off, in, coded, out,
          section, header, end, located,
          programs, sig_offset, program_types

Spread == INSTANCE HeaderSpread
Framing == INSTANCE Hdlc
Header == INSTANCE PduHeader
Guide == INSTANCE SigCodec

spreadvars == <<size, i, out_off, pci_off>>
hdlcvars == <<in, coded, out>>
headervars == <<section, header, end, located>>
sigvars == <<programs, sig_offset, program_types>>
allvars == <<part, vars, spreadvars, hdlcvars, headervars, sigvars>>

Layer2Init ==
    /\ part \in {"audio", "spread", "hdlc", "header", "sig"}
    /\ Init
    /\ Spread!Init /\ (part # "spread" => \A s \in Sizes : size <= s)
    /\ Framing!Init /\ (part # "hdlc" => Len(in) = 2 /\ \A b \in Bytes : in[1] <= b /\ in[2] <= b)
    /\ Header!Init(IF part = "header" THEN Sections ELSE {CHOOSE s \in Sections : TRUE})
    /\ Guide!Init(IF part = "sig" THEN MaxSigPrograms ELSE 0)

Audio == part = "audio" /\ Next /\ UNCHANGED <<part, spreadvars, hdlcvars, headervars, sigvars>>
SpreadByte == part = "spread" /\ Spread!SpreadByte /\ UNCHANGED <<part, vars, hdlcvars, headervars, sigvars>>

\* A step of hdlc_encode, of the writing of a header, of decode_sig.
Hdlc(A) == part = "hdlc" /\ A /\ UNCHANGED <<part, vars, spreadvars, headervars, sigvars>>
Written(A) == part = "header" /\ A /\ UNCHANGED <<part, vars, spreadvars, hdlcvars, sigvars>>
ReadRecord == part = "sig" /\ Guide!ReadRecord /\ UNCHANGED <<part, vars, spreadvars, hdlcvars, headervars>>

\* header_spread, hdlc_encode and decode_sig return, and a header is complete.
Returned == /\ \/ part = "spread" /\ i = Spread!payload_bytes
               \/ part = "hdlc" /\ coded > Len(in)
               \/ part = "header" /\ Header!Complete
               \/ part = "sig" /\ Guide!AtEnd
            /\ UNCHANGED allvars

Layer2Next == \/ Audio
              \/ SpreadByte
              \/ Hdlc(Framing!EncodeByte) \/ Hdlc(Framing!EncodeFlag)
              \/ Written(Header!WriteControlWord) \/ Written(Header!WriteLocator)
              \/ Written(Header!WriteHef)
              \/ ReadRecord
              \/ Returned

Layer2Spec == Layer2Init /\ [][Layer2Next]_allvars
-------------------------------------------------------------------------------
\* The properties of the parts: see HeaderSpread, Hdlc, PduHeader and SigCodec.

(* A PDU of every size is full to the bit, with the whole header in it.      *)
PduFilled == Spread!PduFilled

(* Every framed PDU has one flag, at its end, and can be unframed.           *)
FramedWhole == Framing!FramedWhole

(* A receiver reads from a program's header what was written into it.        *)
HeaderRead == Header!HeaderRead

(* Layer 2 learns the type of each program from the station's guide.         *)
SigRead == Guide!SigRead
===============================================================================
