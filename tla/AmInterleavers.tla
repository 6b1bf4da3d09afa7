---------------------------- MODULE AmInterleavers ----------------------------
(***************************************************************************)
(* Where the interleavers of the AM layer 1 encoder                        *)
(* (lib/l1_am_encoder_impl.cc) put each coded bit.  The coded bits of a    *)
(* frame are dealt out to lines (bl, ml, ...), and each line's bits are    *)
(* ORed, shifted to their bit of a symbol, into cleared matrices of 25     *)
(* carriers.  Two bits ORed into one place would spoil each other.         *)
(*                                                                         *)
(* A behaviour is the filling of one block of one matrix by its lines and  *)
(* the training symbols, line by line.                                     *)
(***************************************************************************)
EXTENDS Integers, Sequences, FiniteSets

Cols == 25      \* carriers of a matrix
Rows == 32      \* symbols of a block
Blocks == 8

\* A line: its length, and the block, the cell and the bit of its n-th bit.
\* (A line is its name; the numbers are interleaver_ma1's and _ma3's.)
Length(line) == CASE line \in {"bl", "ml", "bu", "mu", "ebl", "eml", "ebu", "emu"} -> 18000
                  [] line = "el" -> 12000
                  [] line = "eu" -> 24000

B(line, n) == CASE line \in {"bl", "bu"} -> n \div 2250
                [] line \in {"ml", "ebl", "eml"} -> (3 * n + 3) % 8
                [] line \in {"mu", "ebu", "emu"} -> (3 * n) % 8
                [] line = "el" -> (3 * n + n \div 3000) % 8
                [] line = "eu" -> (3 * n + n \div 3000 + 2 * (n \div 12000)) % 8

K(line, n) == CASE line = "bl" -> (n + n \div 750 + 1) % 750
                [] line = "bu" -> (n + n \div 750) % 750
                [] line \in {"ml", "ebl", "eml"} -> (n + n \div 3000 + 3) % 750
                [] line \in {"mu", "ebu", "emu"} -> (n + n \div 3000 + 2) % 750
                [] line \in {"el", "eu"} -> (n + n \div 6000) % 750

P(line, n) == CASE line \in {"bl", "bu", "ebl", "ebu"} -> n % 3
                [] line \in {"ml", "mu", "eml", "emu"} -> 3 + (n % 3)
                [] line = "el" -> n % 2
                [] line = "eu" -> n % 4

\* bit_map: the place of a bit of cell k within its block.
Place(k, p) == LET col == (9 * k) % 25
               IN  <<col, (11 * col + 16 * (k \div 25) + 11 * (k \div 50)) % 32, p>>

\* The matrices of MA1 and MA3 (name, bits of a symbol, lines).
MA1 == {[name |-> "pl", depth |-> 6, lines |-> <<"bl", "ml">>],
        [name |-> "pu", depth |-> 6, lines |-> <<"bu", "mu">>],
        [name |-> "t", depth |-> 2, lines |-> <<"el">>],
        [name |-> "s", depth |-> 4, lines |-> <<"eu">>]}
MA3 == {[name |-> "t3", depth |-> 6, lines |-> <<"ebl", "eml">>],
        [name |-> "s3", depth |-> 6, lines |-> <<"ebu", "emu">>]}

(***************************************************************************)
(* The coded bits each line takes: of every `of` bits, the `taps` in turn. *)
(***************************************************************************)
Taps(line) == CASE line \in {"bl", "ebl"} -> <<2, 1, 5>>
                [] line \in {"ml", "eml"} -> <<11, 6, 7>>
                [] line \in {"bu", "ebu"} -> <<10, 8, 9>>
                [] line \in {"mu", "emu"} -> <<4, 3, 0>>
                [] line = "el" -> <<0, 1>>
                [] line = "eu" -> <<2, 3, 5, 4>>

\* interleaver_pids: the cells and places of a block of PIDS.
PidsTaps(line) == CASE line = "il" -> <<0, 1, 12, 13, 6, 5, 18, 17, 11, 7, 23, 19>>
                    [] line = "iu" -> <<2, 4, 14, 16, 3, 8, 15, 20, 9, 10, 21, 22>>
PidsK(line, n) == (n + n \div 60 + (IF line = "il" THEN 11 ELSE 0)) % 30

PidsRow(k) == (11 * (k + k \div 15) + 3) % 32
Pids == {[name |-> line, depth |-> 4, lines |-> <<line>>] : line \in {"il", "iu"}}

VARIABLES job,      \* the matrix and the block being filled
          written,  \* the places written so far
          bits,     \* the number of bits written so far
          done      \* lines written so far; the training symbols come last

Matrices == MA1 \cup MA3 \cup Pids
Jobs == [matrix : Matrices, block : 0 .. Blocks - 1]

Lines == job.matrix.lines

\* One of the loops over n, as far as it concerns the block.
WriteLine ==
    LET line == Lines[done + 1]
        mine == {n \in 0 .. Length(line) - 1 : B(line, n) = job.block}
    IN /\ job.matrix \notin Pids /\ done < Len(Lines)
       /\ written' = written \cup {Place(K(line, n), P(line, n)) : n \in mine}
       /\ bits' = bits + Cardinality(mine)
       /\ done' = done + 1
       /\ UNCHANGED job

WritePidsLine ==
    /\ job.matrix \in Pids /\ done < 1
    /\ written' = {<<0, PidsRow(PidsK(Lines[1], n)), n % 4>> : n \in 0 .. 119}
    /\ bits' = 120
    /\ done' = 1
    /\ UNCHANGED job

TrainingCells == 750 .. 799

TrainingPlaces ==
    IF job.matrix \in Pids
    THEN {<<0, row, p>> : row \in {8, 24}, p \in 0 .. 3}
    ELSE {Place(k, p) : k \in TrainingCells, p \in 0 .. job.matrix.depth - 1}

WriteTraining ==
    /\ done = Len(Lines)
    /\ written' = written \cup TrainingPlaces
    /\ bits' = bits + Cardinality(TrainingPlaces)
    /\ done' = done + 1
    /\ UNCHANGED job

\* Every bit of every symbol of the block, and when all of them are written.
Places == {<<col, row, p>> : col \in IF job.matrix \in Pids THEN {0} ELSE 0 .. Cols - 1,
                             row \in 0 .. Rows - 1, p \in 0 .. job.matrix.depth - 1}

Ready == done = Len(Lines) + 1

\* The coded bits of the job's channel, and what each of its lines takes of them.
Of(matrix) == CASE matrix \in Pids -> 24
                [] matrix.name \in {"t", "s"} -> 6
                [] OTHER -> 12

Shares(matrix) == CASE matrix \in Pids -> <<PidsTaps("il"), PidsTaps("iu")>>
                    [] matrix.name \in {"t", "s"} -> <<Taps("el"), Taps("eu")>>
                    [] OTHER -> <<Taps("bl"), Taps("ml"), Taps("bu"), Taps("mu")>>
==============================================================================
