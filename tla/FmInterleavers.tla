---------------------------- MODULE FmInterleavers ----------------------------
(***************************************************************************)
(* Where the interleavers of the FM layer 1 encoder                        *)
(* (lib/l1_fm_encoder_impl.cc) put each coded bit.  The matrices are kept  *)
(* from frame to frame and never cleared: a place that no bit of a frame   *)
(* is written to would send a bit of an old frame, and two bits on one     *)
(* place would lose one of them.                                           *)
(*                                                                         *)
(* A job is the filling of one part of a matrix: of one block of one       *)
(* partition by interleavers I and II, which must be whole after a frame,  *)
(* or of one partition of interleaver IV's memory, after two frames.       *)
(***************************************************************************)
EXTENDS Integers, Sequences, FiniteSets

Rows == 32      \* symbols in a block
C == 36         \* bits of one symbol in a partition

V_PM == <<10, 2, 18, 6, 14, 8, 16, 0, 12, 4, 11, 3, 19, 7, 15, 9, 17, 1, 13, 5>>
V_PX2_MP5 == <<0, 1, 2, 3>>
V_PX2_MP6 == <<0, 1, 3, 2, 4, 5, 7, 6>>

\* The calls of interleaver_i: partitions, blocks, M, partition order and bits.
PM      == [J |-> 20, B |-> 16, M |-> 1, V |-> V_PM, N |-> 365440]
PX2_MP5 == [J |-> 4, B |-> 2, M |-> 2, V |-> V_PX2_MP5, N |-> 9216]
PX2_MP6 == [J |-> 8, B |-> 2, M |-> 1, V |-> V_PX2_MP6, N |-> 18432]

\* interleaver_ii puts the PIDS bits after PM's: b to a block, N in all.
Pids == [J |-> 20, B |-> 16, b |-> 200, I0 |-> 365440, V |-> V_PM, N |-> 3200]

\* interleaver_iv in mode 2, and in modes 3, 5 and 11.
PX1_MP2 == [J |-> 2, M |-> 4, N |-> 73728]
PX1_MP3 == [J |-> 4, M |-> 2, N |-> 147456]
B4 == 32

Row(k) == (k * 11) % Rows

Col(k) == ((k * 11) + (k \div (32 * 9))) % C

\* The place of row and col in partition p and block b of a matrix.
At(J, b, row, p, col) == ((b * Rows) + row) * (J * C) + (p * C) + col

\* interleaver_i
PartitionI(m, i) == m.V[(((i + 2 * (m.M \div 4)) \div m.M) % m.J) + 1]
BlockI(m, i) == IF m.M = 1
                THEN ((i \div m.J) + (PartitionI(m, i) * 7)) % m.B
                ELSE (i + (i \div (m.J * m.B))) % m.B
PlaceI(m, i) == LET k == i \div (m.J * m.B)
                IN  At(m.J, BlockI(m, i), Row(k), PartitionI(m, i), Col(k))

\* Mutant: the PIDS bits start where PM's do.
IndexIIFromStart(m, i) == (i \div m.J) % (m.b \div m.J)

IndexII(m, i) == ((i \div m.J) % (m.b \div m.J)) + (m.I0 \div (m.J * m.B))

\* interleaver_ii
PlaceII(m, i) == LET k == IndexII(m, i)
                 IN  At(m.J, i \div m.b, Row(k), m.V[(i % m.J) + 1], Col(k))

\* interleaver_iv: the partition of bit i, and the place of bit n of partition p.
\* (The subtraction is of unsigned numbers, but B4 divides 2^32.)
PartitionIV(m, i) == ((i + 2 * (m.M \div 4)) \div m.M) % m.J
BlockBits == Rows * C

BlockIV(p, n) == (n + (p * 7) - ((BlockBits - 1) * (n \div BlockBits))) % B4
PlaceIV(m, p, n) == At(m.J, BlockIV(p, n), ((11 * n) % BlockBits) \div C, p, (n * 11) % C)

VARIABLES job,      \* the part of a matrix being filled
          written,  \* the places written so far
          bits,     \* the number of bits written so far
          frames    \* the number of frames that wrote them

JobsI == UNION {[of : {m}, part : 0 .. m.J - 1, block : 0 .. m.B - 1] : m \in {PM, PX2_MP5, PX2_MP6}}
JobsIV == UNION {[of : {m}, part : 0 .. m.J - 1, block : {B4}] : m \in {PX1_MP2, PX1_MP3}}

Jobs == JobsI \cup JobsIV

\* PartitionI has the period J * M, which makes the bits of job.part few to try.
MyBitsI == LET period == job.of.J * job.of.M
               mine == {r \in 0 .. period - 1 : PartitionI(job.of, r) = job.part}
           IN  {i \in {a * period + r : a \in 0 .. (job.of.N \div period) - 1, r \in mine} :
                  BlockI(job.of, i) = job.block}
MyBitsII == {i \in Pids.b * job.block .. Pids.b * (job.block + 1) - 1 :
               Pids.V[(i % Pids.J) + 1] = job.part}

InterleaveI ==
    LET pids == IF job.of = PM THEN MyBitsII ELSE {}
    IN /\ job \in JobsI /\ frames = 0
       /\ written' = {PlaceI(job.of, i) : i \in MyBitsI} \cup {PlaceII(Pids, i) : i \in pids}
       /\ bits' = Cardinality(MyBitsI) + Cardinality(pids)
       /\ frames' = 1
       /\ UNCHANGED job

\* pt[] at the beginning of a frame.
FirstOfHalf(half) == (half * (job.of.N \div 2)) \div job.of.J

\* A frame fills its half's share of each partition, the next the other.
InterleaveIV ==
    LET share == Cardinality({i \in 0 .. (job.of.N \div 2) - 1 : PartitionIV(job.of, i) = job.part})
    IN /\ job \in JobsIV /\ frames < 2
       /\ written' = written \cup {PlaceIV(job.of, job.part, FirstOfHalf(frames) + n) : n \in 0 .. share - 1}
       /\ bits' = bits + share
       /\ frames' = frames + 1
       /\ UNCHANGED job

\* The places of the job's part of its matrix, and when all of it is written.
Places == IF job \in JobsI
          THEN {At(job.of.J, job.block, row, job.part, col) : row \in 0 .. Rows - 1, col \in 0 .. C - 1}
          ELSE {At(job.of.J, 0, row, job.part, col) : row \in 0 .. (B4 * Rows) - 1, col \in 0 .. C - 1}

Ready == frames = IF job \in JobsI THEN 1 ELSE 2
==============================================================================
