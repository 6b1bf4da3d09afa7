------------------------------- MODULE SigCodec -------------------------------
(***************************************************************************)
(* The station information guide: generate_sig of lib/sis_encoder_impl.cc  *)
(* writes it, record after record, and decode_sig of                       *)
(* lib/l2_encoder_impl.cc goes through it to learn the programs' types,    *)
(* which layer 2 puts in its PDUs.  The two agree on the records' lengths  *)
(* only by their numbers: a step too far, and a name or a port is taken    *)
(* for a record.                                                           *)
(*                                                                         *)
(* A step is a record read.  The hashes of MIME types are any four bytes;  *)
(* here they look like records.                                            *)
(***************************************************************************)
EXTENDS Integers, Sequences, SequencesExt

CONSTANTS Names,        \* names of programs, as bytes
          SigTypes      \* program types

VARIABLES programs,      \* [name, type] of each
          sig_offset,    \* offset in decode_sig
          program_types  \* program_type of layer 2, by program number

\* Records: their tags, see enum sig_tag, and what follows.
Hash == <<102, 102, 102, 102>>
Word16(n) == <<n % 256, n \div 256>>

Service(number, name) == <<64, number, 0, 2, 105, (Len(name) + 2) % 256, 0>> \o name

AudioComponent(component, id, type) ==
    <<102, 12, component, id, type, 0, 0, 0, 0>> \o Hash

DataComponent(component, port, vendor) ==
    <<103, 13, component>> \o Word16(port) \o Word16(265) \o <<3, 0, 0>> \o Hash
    \o <<96, 9, 83, 69, 76, 70, vendor, 0, 0, 0>>

\* Album art has the first port of a program, the station's logo the second one.
Ports(id) == <<4096 + 2 * id, 4097 + 2 * id>>

Program(id, p) ==
    Service(id + 1, p.name) \o AudioComponent(0, id, p.type)
    \o DataComponent(1, Ports(id)[1], 40 + id) \o DataComponent(2, Ports(id)[2], 50 + id)

Header == <<33>> \o Word16(32) \o Word16(0)

Sig == Header \o FlattenSeq([i \in DOMAIN programs |-> Program(i - 1, programs[i])])

Init(max_programs) ==
    /\ programs \in BoundedSeq([name : Names, type : SigTypes], max_programs)
    /\ sig_offset = Len(Header)
    /\ program_types = [id \in 0 .. 7 |-> 0]

AtEnd == sig_offset >= Len(Sig)

\* sig_offset counts bytes from zero.
Byte(i) == Sig[i + 1]

\* Mutant: the length does not count its own byte.
RecordSizeLong(length) == 2 + length

\* From its tag on; the length counts itself.
RecordSize(length) == 1 + length

ReadRecord ==
    /\ ~ AtEnd
    /\ LET tag == Byte(sig_offset)
           id == Byte(sig_offset + 3)
       IN  /\ sig_offset' = sig_offset + (CASE tag \div 16 = 4 -> 4
                                            [] tag \div 16 = 6 -> RecordSize(Byte(sig_offset + 1))
                                            [] OTHER -> 1)
           /\ program_types' = IF tag = 102 /\ id \in DOMAIN program_types
                               THEN [program_types EXCEPT ![id] = Byte(sig_offset + 4)]
                               ELSE program_types
    /\ UNCHANGED programs

(***************************************************************************)
(* decode_sig stays in the guide and ends where it ends, and then layer 2  *)
(* has the type of every program as the SIS encoder was given it, and of   *)
(* no other, whatever the programs' names are.                             *)
(***************************************************************************)
SigRead ==
    /\ sig_offset <= Len(Sig)
    /\ sig_offset = Len(Sig) =>
           program_types = [id \in 0 .. 7 |-> IF id + 1 \in DOMAIN programs
                                              THEN programs[id + 1].type ELSE 0]
===============================================================================
