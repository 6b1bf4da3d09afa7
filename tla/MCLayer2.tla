------------------------------- MODULE MCLayer2 -------------------------------
(* A first program that leaves the second one room, and one that must split;  *)
(* every size of PDU; flags, escapes, and what they are changed to, anywhere; *)
(* headers of up to eight packets more than are due; three programs of any    *)
(* kind of name.                                                              *)
EXTENDS Layer2
TwoPrograms == << {1, 2}, {1, 7} >>
TwoAverages == << 2, 3 >>
MCSizes == {146176, 109312, 72448, 30000, 24000, 9216, 4608, 3750, 2304}
MCBytes == {0, 93, 94, 125, 126}

\* Sections of any fields, and the fields of the control word go with the lengths.
Fields(bits, len, n, first, pdus) ==
    [lc_bits |-> bits, len |-> len, nop |-> n, first |-> IF n > 0 THEN first ELSE 0,
     split |-> n > 0 /\ (len + n) % 2 = 0, pdu_seq_no |-> len % pdus,
     start_seq_no |-> (5 * len) + n, number |-> len % 8, blend |-> len % 3,
     type |-> ((7 * len) + n) % 128]
MCSections == {Fields(12, l, n, f, 8) : l \in 1 .. 90, n \in 0 .. 12, f \in {0, 5}}
              \cup {Fields(16, l, n, f, 2) : l \in {1, 2, 62, 63, 127, 255, 256, 300, 449},
                                             n \in {0, 1, 2, 3, 31, 32, 39, 40}, f \in {0, 300}}

\* "HD1", none, one that looks like records, and the longest.
MCNames == {<< >>, <<72, 68, 49>>, <<102, 64, 111>>, [j \in 1 .. 253 |-> 103]}
MCSigTypes == {1, 76}
===============================================================================
