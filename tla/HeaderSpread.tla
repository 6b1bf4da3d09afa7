----------------------------- MODULE HeaderSpread -----------------------------
(***************************************************************************)
(* header_spread of lib/l2_encoder_impl.cc lays the bits of a finished PDU *)
(* out: the PCI header's bits are put between the payload's, one every     *)
(* n_offset bits from n_start on, so that the whole has the size that      *)
(* layer 1 takes.  How many there are, and where they begin, depends on    *)
(* the size; nothing checks that the payload lasts until the header is     *)
(* placed, or that the two together make up the size.                      *)
(*                                                                         *)
(* A step is the inner loop of one payload byte, at the sizes of the code. *)
(***************************************************************************)
EXTENDS Integers, SequencesExt

CONSTANT Sizes      \* the sizes of PDUs, of all service modes

VARIABLES size,
          i,        \* payload bytes laid out
          out_off,  \* bits written
          pci_off   \* header bits among them

payload_bytes == (size - 22) \div 8

\* Mutant: a header of 24 bits in every PDU.
header_bits_24 == 24

header_bits == CASE size % 8 = 0 -> 24 [] size % 8 = 7 -> 23 [] OTHER -> 22

Long == size >= 72000

n_start == IF Long THEN 8 * ((size - 30000 + 7) \div 8) ELSE 120

n_offset == CASE ~ Long -> 8 * (((size - 120 + 7) \div 8) \div header_bits) - 1
              [] Long /\ size % 8 = 0 -> 1247
              [] Long /\ size % 8 = 7 -> 1303
              [] OTHER -> 1359

\* Before this payload bit comes a header bit.
HeaderDue(at) == /\ at.out >= n_start /\ at.pci < header_bits
                 /\ (at.out - n_start) % (n_offset + 1) = 0

PayloadBit(at) == IF HeaderDue(at) THEN [out |-> at.out + 2, pci |-> at.pci + 1]
                                   ELSE [at EXCEPT !.out = @ + 1]

Init == size \in Sizes /\ i = 0 /\ out_off = 0 /\ pci_off = 0

SpreadByte ==
    LET at == FoldLeft(LAMBDA a, j : PayloadBit(a), [out |-> out_off, pci |-> pci_off],
                       [j \in 1 .. 8 |-> j])
    IN /\ i < payload_bytes
       /\ i' = i + 1
       /\ out_off' = at.out
       /\ pci_off' = at.pci
       /\ UNCHANGED size

(***************************************************************************)
(* The PDU is full to the bit and the whole header is in it: out_off never *)
(* passes size, and arrives there, with no header bit left, when the       *)
(* payload is used up.                                                     *)
(***************************************************************************)
PduFilled ==
    /\ out_off <= size
    /\ i = payload_bytes => out_off = size /\ pci_off = header_bits
===============================================================================
