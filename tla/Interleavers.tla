---------------------------- MODULE Interleavers ----------------------------
(***************************************************************************)
(* The interleavers of both layer 1 encoders fill matrices one bit at a    *)
(* time: FmInterleavers and AmInterleavers say where each bit goes.  A     *)
(* behaviour is the filling of one part of one matrix, by the actions of   *)
(* the encoder it belongs to.                                              *)
(***************************************************************************)
EXTENDS Integers, Sequences, FiniteSets, SequencesExt

VARIABLES job,      \* the part of a matrix being filled
          written,  \* the places written so far
          bits,     \* the number of bits written so far
          steps     \* frames (FM) or lines (AM) written so far

vars == <<job, written, bits, steps>>

Fm == INSTANCE FmInterleavers WITH frames <- steps
Am == INSTANCE AmInterleavers WITH done <- steps

IsFm == "of" \in DOMAIN job

Init == /\ job \in Fm!Jobs \/ job \in Am!Jobs
        /\ written = {} /\ bits = 0 /\ steps = 0

FmInterleaveI == IsFm /\ Fm!InterleaveI
FmInterleaveIV == IsFm /\ Fm!InterleaveIV
AmWriteLine == ~ IsFm /\ Am!WriteLine
AmWritePidsLine == ~ IsFm /\ Am!WritePidsLine
AmWriteTraining == ~ IsFm /\ Am!WriteTraining

Next == \/ FmInterleaveI
        \/ FmInterleaveIV
        \/ AmWriteLine
        \/ AmWritePidsLine
        \/ AmWriteTraining

Spec == Init /\ [][Next]_vars

AnyJob == CHOOSE j \in Am!Jobs : TRUE

Full == IF IsFm THEN Fm!Ready ELSE Am!Ready
------------------------------------------------------------------------------
Places == IF IsFm THEN Fm!Places ELSE Am!Places

(***************************************************************************)
(* Every bit goes to a place of its part of the matrix, and no two go to   *)
(* one place: in the FM matrices the second would overwrite the first, in  *)
(* the AM ones the two would be ORed together, whether they belong to one  *)
(* line, two lines or a training symbol.                                   *)
(***************************************************************************)
BitsApart == written \subseteq Places /\ Cardinality(written) = bits

(***************************************************************************)
(* Every place is written.  The FM matrices are kept from frame to frame   *)
(* and never cleared: a place left out would send a bit of an old frame.   *)
(* PM's bits and the PIDS bits fill a matrix together, and interleaver IV  *)
(* fills its memory in two frames.                                         *)
(***************************************************************************)
NothingStale == Full => written = Places

(***************************************************************************)
(* The lines of an AM channel share out its coded bits: each goes to       *)
(* exactly one place of one line, and the lines are as long as that makes  *)
(* them.                                                                   *)
(***************************************************************************)
CodedBitsShared ==
    ~ IsFm =>
        LET all == FlattenSeq(Am!Shares(job.matrix))
        IN  /\ Len(all) = Am!Of(job.matrix)
            /\ ToSet(all) = 0 .. Am!Of(job.matrix) - 1
            /\ job.matrix \notin Am!Pids =>
                   \A line \in ToSet(job.matrix.lines) :
                       Am!Length(line) = 6000 * Len(Am!Taps(line))
==============================================================================
