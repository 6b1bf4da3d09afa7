----------------------------- MODULE PacketPipe -----------------------------
(***************************************************************************)
(* What the audio transport promises for each program: a first in first    *)
(* out pipe of audio packets.  Every L2 PDU completes some number of the   *)
(* oldest packets at the receiver, whole, in order, each exactly once.     *)
(***************************************************************************)
EXTENDS Naturals, Sequences

CONSTANTS Programs,  \* audio programs
          Packets    \* what a packet is told apart by

VARIABLES pipe,  \* pipe[p]: packets handed over and not yet wholly received
          got    \* got[p]: packets the receiver completed with the last PDU

vars == <<pipe, got>>

Init == /\ pipe = [p \in Programs |-> << >>]
        /\ got = [p \in Programs |-> << >>]

Enter(p, d) == /\ pipe' = [pipe EXCEPT ![p] = Append(@, d)]
               /\ UNCHANGED got

\* A PDU completes the k oldest packets of p.
Deliver(p, k) == /\ pipe' = [pipe EXCEPT ![p] = SubSeq(@, k + 1, Len(@))]
                 /\ got' = [got EXCEPT ![p] = SubSeq(pipe[p], 1, k)]

Next == \E p \in Programs : \/ \E d \in Packets : Enter(p, d)
                            \/ \E k \in 0 .. Len(pipe[p]) : Deliver(p, k)

Spec == Init /\ [][Next]_vars
=============================================================================
