------------------------------ MODULE FixedData ------------------------------
(***************************************************************************)
(* The fixed data subchannel of the L2 encoder (lib/l2_encoder_impl.cc).   *)
(*                                                                         *)
(* handle_aas_pdu appends HDLC-encoded PDUs to one byte queue per AAS      *)
(* port.  general_work fills data_bytes bytes of every L2 PDU: four bytes  *)
(* of block boundary marker in each 259, filler flags while every queue is *)
(* empty, and otherwise the queues' bytes, one whole PDU of one port at a  *)
(* time, port after port in ascending order.  When a closing flag leaves   *)
(* its queue empty the port is published on "ready".                       *)
(*                                                                         *)
(* GNU Radio runs a block's message handlers between its calls of work,    *)
(* never inside one: slot is 0 there, and otherwise numbers the byte being *)
(* written.  A PDU is abstracted to its encoded length, closing flag       *)
(* included; the bytes left in queue p are those of the PDUs               *)
(* aas_queues[p] less the sent[p] already popped from the first.           *)
(* aas_queue_bytes, the sum of the queues' sizes, is only compared with 0. *)
(***************************************************************************)
EXTENDS Integers, Sequences, FiniteSets

CONSTANTS Ports,       \* the AAS ports in use
          SigPort,     \* SIG_PORT, 0x20
          ProgTypes,   \* program types a SIG PDU may announce
          PduLens,     \* encoded lengths of the PDUs
          DataBytes,   \* data_bytes, size of the subchannel in one L2 PDU
          BbmLen,      \* 4, length of the block boundary marker
          BlockLen,    \* 255, data bytes between two markers
          MaxQueue     \* bound: PDUs waiting in one queue

ASSUME PortsAssumption == Ports \subseteq Nat
ASSUME PduLensAssumption == PduLens \subseteq Nat \ {0, 1}
ASSUME SizesAssumption ==
    DataBytes \in Nat \ {0} /\ BbmLen \in Nat /\ BlockLen \in Nat \ {0} /\ MaxQueue \in Nat

NoPort == -1

VARIABLES aas_queues,        \* PDU lengths waiting at each port
          sent,              \* bytes already popped from the first PDU of a port
          known,             \* keys of the map aas_queues: ports ever heard of
          aas_current_port,  \* whose turn it is, NoPort before any PDU came
          aas_block_offset,  \* position in the current block of 259 bytes
          slot,              \* byte of the subchannel being filled, 0 between PDUs
          program_type,      \* last program type read from a SIG PDU
          bypass             \* history: PDUs of p completed while q waited

muxvars == <<aas_queues, sent, known, aas_current_port>>
vars == <<muxvars, aas_block_offset, slot, program_type, bypass>>

Waiting == {p \in Ports : aas_queues[p] # << >>}

\* Going round the ports in ascending order from c, x is met before y.
MetBefore(c, x, y) == \/ c <= x /\ x < y
                      \/ c <= x /\ y < c
                      \/ x < y /\ y < c

\* p is the first member of S met from c on.
FirstFrom(S, c, p) == p \in S /\ \A x \in S \ {p} : MetBefore(c, p, x)

Init == /\ aas_queues = [p \in Ports |-> << >>]
        /\ sent = [p \in Ports |-> 0]
        /\ known = {}
        /\ aas_current_port = NoPort
        /\ aas_block_offset = 0
        /\ slot = 0
        /\ program_type = 0
        /\ bypass = [q \in Ports |-> [p \in Ports |-> 0]]

(***************************************************************************)
(* handle_aas_pdu: a PDU of port p arrives, n bytes once encoded; one on   *)
(* SigPort also carries the program type t.                                *)
(***************************************************************************)
HandleAasPdu(p, n, t) ==
    /\ slot = 0
    /\ Len(aas_queues[p]) < MaxQueue
    /\ aas_queues' = [aas_queues EXCEPT ![p] = Append(@, n)]
    /\ known' = known \cup {p}
    /\ program_type' = IF p = SigPort THEN t ELSE program_type
    /\ UNCHANGED <<sent, aas_current_port, aas_block_offset, slot, bypass>>

\* The first port ever heard of gets the first turn.
ResumeTurn == IF aas_current_port = NoPort /\ known # {}
              THEN aas_current_port' \in {p \in known : FirstFrom(known, 0, p)}
              ELSE UNCHANGED aas_current_port

\* general_work takes the list of ports and starts on the subchannel.
StartPdu ==
    /\ slot = 0
    /\ slot' = 1
    /\ ResumeTurn
    /\ UNCHANGED <<aas_queues, sent, known, aas_block_offset, program_type, bypass>>

NextOffset == (aas_block_offset + 1) % (BlockLen + BbmLen)

\* One byte of the subchannel has been written.
Advance ==
    /\ slot # 0
    /\ slot' = IF slot = DataBytes THEN 0 ELSE slot + 1
    /\ aas_block_offset' = NextOffset
    /\ UNCHANGED program_type

InMarker == aas_block_offset < BbmLen

SendMarker ==
    /\ Advance
    /\ InMarker
    /\ UNCHANGED <<muxvars, bypass>>

SendFiller ==
    /\ Advance
    /\ ~InMarker
    /\ Waiting = {}
    /\ UNCHANGED <<muxvars, bypass>>

\* Mutants of NextTurn: the turn stays, or goes back to the lowest port.
NextTurnStays(p) == {p}
NextTurnLowest(p) == {n \in known : FirstFrom(known, 0, n)}

\* The port after p, going round the known ones.
NextTurn(p) == {n \in known : FirstFrom(known, p + 1, n)}

\* Mutant: the turn passes after every byte.
TurnInPduPasses(p) == NextTurn(p)

TurnInPdu(p) == {p}

\* A byte of the PDU of port p that is not its closing flag.
SendByte(p) ==
    /\ Advance
    /\ ~InMarker
    /\ FirstFrom(Waiting, aas_current_port, p)
    /\ sent[p] + 1 < Head(aas_queues[p])
    /\ sent' = [sent EXCEPT ![p] = @ + 1]
    /\ aas_current_port' \in TurnInPdu(p)
    /\ bypass' = IF sent[p] = 0 THEN [bypass EXCEPT ![p] = [x \in Ports |-> 0]]
                                ELSE bypass
    /\ UNCHANGED <<aas_queues, known>>

\* The closing flag of the PDU of port p: the turn passes to the next port.
SendFlag(p) ==
    /\ Advance
    /\ ~InMarker
    /\ FirstFrom(Waiting, aas_current_port, p)
    /\ sent[p] + 1 = Head(aas_queues[p])
    /\ aas_queues' = [aas_queues EXCEPT ![p] = Tail(@)]
    /\ sent' = [sent EXCEPT ![p] = 0]
    /\ aas_current_port' \in NextTurn(p)
    /\ bypass' = [q \in Ports |-> IF q # p /\ q \in Waiting
                                  THEN [bypass[q] EXCEPT ![p] = @ + 1]
                                  ELSE bypass[q]]
    /\ UNCHANGED known

Work == \/ StartPdu
        \/ SendMarker
        \/ SendFiller
        \/ \E p \in Ports : SendByte(p) \/ SendFlag(p)

Next == \/ \E p \in Ports, n \in PduLens, t \in ProgTypes : HandleAasPdu(p, n, t)
        \/ Work

Spec == Init /\ [][Next]_vars

\* The scheduler keeps calling work as long as the sample sink takes output.
FairSpec == Spec /\ WF_vars(Work)
------------------------------------------------------------------------------
TypeOK ==
    /\ aas_queues \in [Ports -> Seq(PduLens)]
    /\ sent \in [Ports -> Nat]
    /\ known \subseteq Ports
    /\ aas_current_port \in known \cup {NoPort}
    /\ aas_block_offset \in 0 .. BlockLen + BbmLen - 1
    /\ slot \in 0 .. DataBytes
    /\ program_type \in ProgTypes \cup {0}
    /\ bypass \in [Ports -> [Ports -> Nat]]

(***************************************************************************)
(* Only the port whose turn it is can be in the middle of a PDU, and its   *)
(* queue then still holds the rest: no byte of another port, and no filler *)
(* flag, ever gets between two bytes of a PDU, although markers, the end   *)
(* of an L2 PDU and newly arrived PDUs do.                                 *)
(***************************************************************************)
PduContiguous ==
    \A p \in Ports : sent[p] > 0 => /\ p = aas_current_port
                                    /\ p \in Waiting
                                    /\ sent[p] < Head(aas_queues[p])

(***************************************************************************)
(* Round robin: between two PDUs of a port that always has one waiting,    *)
(* each other port completes at most one.                                  *)
(***************************************************************************)
BoundedBypass == \A q, p \in Ports : bypass[q][p] <= 1

(***************************************************************************)
(* The strengthening that makes BoundedBypass inductive: a port overtaken  *)
(* by p while it waits is reached before p from the current port on.       *)
(***************************************************************************)
KeysCover == Waiting \subseteq known
TurnKnown == slot # 0 /\ known # {} => aas_current_port \in known
BypassOrder ==
    \A q, p \in Ports :
        bypass[q][p] # 0 => /\ q \in Waiting
                            /\ bypass[q][p] = 1
                            /\ MetBefore(aas_current_port, q, p)
ServedClear == \A q, p \in Ports : sent[q] > 0 => bypass[q][p] = 0

IInv == /\ TypeOK
        /\ PduContiguous
        /\ KeysCover
        /\ TurnKnown
        /\ BypassOrder
        /\ ServedClear

(***************************************************************************)
(* Every step of the byte loop is a step of the abstract multiplexer: a    *)
(* port is being served while its first PDU is partly sent.  No port       *)
(* starves, then: the multiplexer goes on as long as one has something to  *)
(* send, and lets none be passed over twice.                               *)
(***************************************************************************)
Serving == IF aas_current_port # NoPort /\ sent[aas_current_port] > 0
           THEN aas_current_port
           ELSE NoPort

Mux == INSTANCE AasMux WITH pending <- aas_queues, serving <- Serving,
                            Pdus <- PduLens, None <- NoPort

ImplementsMux == Mux!Spec
ImplementsFairMux == Mux!FairSpec
=============================================================================
