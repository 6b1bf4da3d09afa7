------------------------------- MODULE AasLoop -------------------------------
(***************************************************************************)
(* The closed loop between the L2 encoder and the blocks that feed its     *)
(* fixed data subchannel: LOT encoders (python/lot_encoder.py), one port   *)
(* each, and the SIS encoder (lib/sis_encoder_impl.cc), which sends the    *)
(* station information guide on SigPort.                                   *)
(*                                                                         *)
(* A sender publishes its whole file, parts[p] PDUs, when it starts and    *)
(* then once for every "ready" message that names its port; the L2 encoder *)
(* publishes "ready" when a closing flag empties the port's queue.  The    *)
(* only thing that keeps a port on the air is therefore the one message or *)
(* PDU in flight.  GNU Radio gives every block a thread and every message  *)
(* port a queue: each publication, handler and byte is a step of its own.  *)
(***************************************************************************)
EXTENDS FixedData

CONSTANTS FileParts,   \* parts a file may have: prepare_file makes one per 256 bytes
          MaxReady,    \* bound: "ready" messages counted for one sender
          MaxInbox     \* bound: PDUs published but not yet handled by the L2 encoder

ASSUME FilePartsAssumption == FileParts \subseteq Nat
ASSUME BoundsAssumption == MaxReady \in Nat \ {0} /\ MaxInbox \in Nat \ {0}

VARIABLES parts,    \* len(self.parts) of the sender of p
          sending,  \* parts the sender has yet to publish in its current send()
          ready,    \* "ready" messages naming p not yet handled by its sender
          inbox,    \* PDUs of p in the message queue of the L2 encoder's "aas" input
          unsent    \* history: no part of the sender's current file went out yet

loopvars == <<parts, sending, ready, inbox, unsent>>
allvars == <<vars, loopvars>>

\* send_sig publishes a single PDU; a LOT encoder one for each part.
PartCounts(p) == IF p = SigPort THEN {1} ELSE FileParts

\* Every block's start() has called send() or send_sig().
LoopInit == /\ Init
            /\ parts \in {f \in [Ports -> FileParts \cup {1}] :
                            \A p \in Ports : f[p] \in PartCounts(p)}
            /\ sending = parts
            /\ ready = [p \in Ports |-> 0]
            /\ inbox = [p \in Ports |-> << >>]
            /\ unsent = [p \in Ports |-> TRUE]

Unpublished(p) == sending[p] > 0

\* One message_port_pub of send(): the next part, n bytes once encoded.
Publish(p, n) ==
    /\ Unpublished(p)
    /\ Len(inbox[p]) < MaxInbox
    /\ sending' = [sending EXCEPT ![p] = @ - 1]
    /\ inbox' = [inbox EXCEPT ![p] = Append(@, n)]
    /\ unsent' = [unsent EXCEPT ![p] = FALSE]
    /\ UNCHANGED <<vars, parts, ready>>

\* handle_notify: a "ready" for the sender's own port starts a send().
HandleNotify(p) ==
    /\ sending[p] = 0
    /\ ready[p] > 0
    /\ ready' = [ready EXCEPT ![p] = @ - 1]
    /\ sending' = [sending EXCEPT ![p] = parts[p]]
    /\ UNCHANGED <<vars, parts, inbox, unsent>>

\* Mutant: a new file makes the sender forget that it was asked for more.
HandleNewFileForgets(p, k) ==
    /\ p # SigPort
    /\ sending[p] = 0
    /\ parts' = [parts EXCEPT ![p] = k]
    /\ unsent' = [unsent EXCEPT ![p] = TRUE]
    /\ ready' = [ready EXCEPT ![p] = 0]
    /\ UNCHANGED <<vars, sending, inbox>>

\* handle_new_file: prepare_file replaces the parts; nothing is sent.
HandleNewFile(p, k) ==
    /\ p # SigPort
    /\ sending[p] = 0
    /\ parts' = [parts EXCEPT ![p] = k]
    /\ unsent' = [unsent EXCEPT ![p] = TRUE]
    /\ UNCHANGED <<vars, sending, ready, inbox>>

\* The L2 encoder's dispatcher hands the oldest PDU of p to handle_aas_pdu.
HandleAas(p) ==
    /\ inbox[p] # << >>
    /\ \E t \in ProgTypes : HandleAasPdu(p, Head(inbox[p]), t)
    /\ inbox' = [inbox EXCEPT ![p] = Tail(@)]
    /\ UNCHANGED <<parts, sending, ready, unsent>>

\* Mutants of Asked: "ready" only once every queue is empty, or for the port
\* the turn has passed to.
AskedWhenIdle(p) == {x \in Ports : x = p /\ Waiting' = {}}
AskedNextTurn(p) == {x \in Ports : x = aas_current_port' /\ aas_queues'[x] = << >>}

\* The ports "ready" is published for once the closing flag of p is out.
Asked(p) == {x \in Ports : x = p /\ aas_queues'[p] = << >>}

\* A closing flag that empties the queue of p asks its sender for more.
FlagAndNotify(p) ==
    /\ SendFlag(p)
    /\ ready' = [x \in Ports |-> IF x \in Asked(p) /\ ready[x] < MaxReady
                                 THEN ready[x] + 1
                                 ELSE ready[x]]
    /\ UNCHANGED <<parts, sending, inbox, unsent>>

LoopWork == \/ (StartPdu \/ SendMarker \/ SendFiller) /\ UNCHANGED loopvars
            \/ \E p \in Ports : \/ SendByte(p) /\ UNCHANGED loopvars
                                \/ FlagAndNotify(p)

SenderStep(p) == HandleNotify(p) \/ \E n \in PduLens : Publish(p, n)

LoopNext == \/ LoopWork
            \/ \E p \in Ports : \/ SenderStep(p)
                                \/ HandleAas(p)
                                \/ \E k \in FileParts : HandleNewFile(p, k)

LoopSpec == LoopInit /\ [][LoopNext]_allvars

(***************************************************************************)
(* Fairness: the scheduler keeps calling work, a sender's thread runs      *)
(* while it has messages, and the L2 encoder's "aas" queue is one FIFO     *)
(* that is emptied between calls of work, so every port's oldest PDU gets  *)
(* its turn even though its handler is disabled inside work (strong).      *)
(***************************************************************************)
LoopFairSpec == /\ LoopSpec
                /\ WF_allvars(LoopWork)
                /\ \A p \in Ports : /\ WF_allvars(SenderStep(p))
                                    /\ SF_allvars(HandleAas(p))
------------------------------------------------------------------------------
LoopTypeOK ==
    /\ TypeOK
    /\ parts \in [Ports -> FileParts \cup {1}]
    /\ \A p \in Ports : parts[p] \in PartCounts(p)
    /\ sending \in [Ports -> Nat]
    /\ ready \in [Ports -> Nat]
    /\ inbox \in [Ports -> Seq(PduLens)]
    /\ unsent \in [Ports -> BOOLEAN]

\* Everything that will in time lead to another send() of p.
InFlight(p) == ready[p] + sending[p] + Len(inbox[p]) + Len(aas_queues[p])

(***************************************************************************)
(* The wake-up of a sender is never lost: as long as its files have parts, *)
(* something of p is always in flight, so the loop cannot fall silent.     *)
(***************************************************************************)
NeverSilent == (0 \notin FileParts) => \A p \in Ports : InFlight(p) > 0

(***************************************************************************)
(* A sender whose files have a single part (SIG always) has exactly one    *)
(* message or PDU in flight: its queue never grows and no PDU is doubled.  *)
(***************************************************************************)
OneInFlight ==
    \A p \in Ports : (PartCounts(p) = {1}) => InFlight(p) = 1

(***************************************************************************)
(* A file given to the sender at runtime is eventually put on the air.     *)
(***************************************************************************)
NewFileSent == \A p \in Ports : (unsent[p] /\ parts[p] > 0) ~> ~unsent[p]

(***************************************************************************)
(* Carousel: every sender transmits again and again.                       *)
(***************************************************************************)
Carousel == \A p \in Ports : []<>(sent[p] > 0)
==============================================================================
