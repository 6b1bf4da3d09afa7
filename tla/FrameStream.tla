----------------------------- MODULE FrameStream -----------------------------
(***************************************************************************)
(* What a layer 1 encoder promises about its main channel: every frame     *)
(* carries the next PDUs of its input, in order, and, where the service    *)
(* mode has a diversity channel, a backup of the PDUs sent Lag frames      *)
(* before.  Until Lag frames were sent the backup is of no use.            *)
(* Nothing in it says how many frames one call of general_work encodes.    *)
(***************************************************************************)
EXTENDS Integers

CONSTANTS Frames,  \* PDUs are numbered modulo the number of PDUs in Frames > Lag frames
          Lag      \* frames from a PDU to its backup

VARIABLES rate,    \* PDUs in a frame
          backed,  \* has the service mode a backup?
          next,    \* number of the next PDU
          sent,    \* frames sent, counted up to Lag
          main,    \* PDUs in the last frame
          backup   \* PDUs in its diversity channel

vars == <<rate, backed, next, sent, main, backup>>

Pdu(n) == n % (rate * Frames)

Init == /\ rate \in Nat \ {0} /\ backed \in BOOLEAN
        /\ next = 0 /\ sent = 0
        /\ main = << >> /\ backup = << >>

SendFrame ==
    /\ main' = [i \in 0 .. rate - 1 |-> Pdu(next + i)]
    /\ next' = Pdu(next + rate)
    /\ sent' = IF sent < Lag THEN sent + 1 ELSE Lag
    /\ (backed /\ sent = Lag) =>
           backup' = [i \in 0 .. rate - 1 |-> Pdu(next + i - Lag * rate)]
    /\ UNCHANGED <<rate, backed>>

Next == SendFrame

Spec == Init /\ [][Next]_vars
==============================================================================
