------------------------------- MODULE Layer1 -------------------------------
(***************************************************************************)
(* A station transmits FM or AM: its flowgraph has one of the two layer 1  *)
(* encoders, in one service mode.  The other one's variables stay at one   *)
(* of their initial values.                                                *)
(*                                                                         *)
(* Within a frame the encoders fill matrices with coded bits.  That is a   *)
(* matter of its own, for each matrix and each part of it: the behaviours  *)
(* in which band is "matrix" are of one of them, see Interleavers.         *)
(***************************************************************************)
EXTENDS L1Fm

CONSTANTS AmFrames, AmMaxFrames  \* the AM encoder's bounds

ASSUME AmBoundsAssumption == /\ AmFrames \in Nat /\ AmFrames > 3
                             /\ AmMaxFrames \in Nat \ {0}

VARIABLES band, sm, rdb, am_base, p1_off, p3_off, pids_off, am_left, p1_g, b, eb,
          am_sent, am_air,
          job, written, bits, steps

Am == INSTANCE L1Am WITH Frames <- AmFrames, MaxFrames <- AmMaxFrames,
                         base <- am_base, left <- am_left, sent <- am_sent, air <- am_air

Matrix == INSTANCE Interleavers

matrixvars == <<job, written, bits, steps>>
amvars == <<sm, rdb, am_base, p1_off, p3_off, pids_off, am_left, p1_g, b, eb, am_sent, am_air>>

Layer1Init ==
    /\ Init /\ Am!Init /\ Matrix!Init
    /\ band \in {"FM", "AM", "matrix"}
    /\ band # "FM" => psm = 1
    /\ band # "AM" => sm = 1 /\ rdb
    /\ band # "matrix" => job = Matrix!AnyJob

FmStart == band = "FM" /\ (\E n \in 1 .. MaxFrames : StartCall(n)) /\ UNCHANGED <<band, amvars, matrixvars>>
FmFrame == band = "FM" /\ EncodeFrame /\ UNCHANGED <<band, amvars, matrixvars>>
FmEnd == band = "FM" /\ EndCall /\ UNCHANGED <<band, amvars, matrixvars>>
AmStart == band = "AM" /\ (\E n \in 1 .. AmMaxFrames : Am!StartCall(n)) /\ UNCHANGED <<band, vars, matrixvars>>
AmFrame == band = "AM" /\ Am!EncodeFrame /\ UNCHANGED <<band, vars, matrixvars>>
AmEnd == band = "AM" /\ Am!EndCall /\ UNCHANGED <<band, vars, matrixvars>>

\* A part of a matrix is filled step by step, until it is full.
FillMatrix == band = "matrix" /\ Matrix!Next /\ UNCHANGED <<band, vars, amvars>>
Filled == band = "matrix" /\ Matrix!Full /\ UNCHANGED <<band, vars, amvars, matrixvars>>

Layer1Next == FmStart \/ FmFrame \/ FmEnd \/ AmStart \/ AmFrame \/ AmEnd \/ FillMatrix \/ Filled

Layer1Spec == Layer1Init /\ [][Layer1Next]_<<band, vars, amvars, matrixvars>>
------------------------------------------------------------------------------
(***************************************************************************)
(* The channels keep in step: in FM the PDUs that a frame carries on every *)
(* port are those of one and the same frame; in AM P3 goes with PIDS and,  *)
(* where P1 is backed up three frames later, so is P3.                     *)
(***************************************************************************)
ChannelsInStep == InStep /\ Am!P3InStep

(***************************************************************************)
(* The AM encoder's general_work implements FrameStream: P1 goes out in    *)
(* order, and again exactly three frames later.                            *)
(***************************************************************************)
AmImplementsStream == Am!ImplementsStream

(***************************************************************************)
(* The interleavers lose no bit, keep none of an old frame and mix none:   *)
(* no two bits go to one place of a matrix, every place is written, and    *)
(* the lines of an AM matrix take every coded bit once.                    *)
(***************************************************************************)
EveryBitPlaced == Matrix!BitsApart /\ Matrix!NothingStale /\ Matrix!CodedBitsShared
==============================================================================
