---------------------------- MODULE AasLoop_proofs ----------------------------
(***************************************************************************)
(* Proofs about the fixed data subchannel, for any set of ports and any    *)
(* sizes: its inductive invariant, what follows from it, the refinement of *)
(* the abstract multiplexer.  Then about the loop of senders and encoder:  *)
(* no wake-up is lost, a sender of single-part files has one PDU in        *)
(* flight.                                                                 *)
(***************************************************************************)
EXTENDS AasLoop, TLAPS

(***************************************************************************)
(* What a sequence is after a PDU has been appended or removed.            *)
(***************************************************************************)
LEMMA AppendFacts ==
    ASSUME NEW S, NEW s \in Seq(S), NEW d \in S
    PROVE  /\ Append(s, d) \in Seq(S)
           /\ Append(s, d) # << >>
           /\ s # << >> => Head(Append(s, d)) = Head(s)
           /\ s = << >> => Head(Append(s, d)) = d
OBVIOUS

LEMMA TailFacts ==
    ASSUME NEW S, NEW s \in Seq(S), s # << >>
    PROVE  /\ Tail(s) \in Seq(S)
           /\ Head(s) \in S
OBVIOUS

(***************************************************************************)
(* Advancing the byte counters keeps them in range.                        *)
(***************************************************************************)
LEMMA AdvanceInRange ==
    ASSUME slot \in 0 .. DataBytes, aas_block_offset \in 0 .. BlockLen + BbmLen - 1, Advance
    PROVE  /\ slot' \in 0 .. DataBytes
           /\ aas_block_offset' \in 0 .. BlockLen + BbmLen - 1
BY SizesAssumption DEF Advance, NextOffset

(***************************************************************************)
(* The initial state satisfies the inductive invariant.                    *)
(***************************************************************************)
LEMMA InitIInv == Init => IInv
<1> SUFFICES ASSUME Init PROVE IInv
    OBVIOUS
<1> USE DEF Init
<1>1. TypeOK
    BY SizesAssumption DEF TypeOK
<1>2. PduContiguous /\ BypassOrder /\ ServedClear
    BY DEF PduContiguous, BypassOrder, ServedClear
<1>3. KeysCover /\ TurnKnown
    BY DEF KeysCover, TurnKnown, Waiting
<1> QED
    BY <1>1, <1>2, <1>3 DEF IInv

(***************************************************************************)
(* The invariant survives a PDU arriving from a sender.                    *)
(***************************************************************************)
LEMMA HandleAasPduIInv ==
    ASSUME IInv, NEW p \in Ports, NEW n \in PduLens, NEW t \in ProgTypes, HandleAasPdu(p, n, t)
    PROVE  IInv'
<1> USE DEF HandleAasPdu
<1> DEFINE q0 == aas_queues[p]
<1>0. aas_queues[p] \in Seq(PduLens)
    BY DEF IInv, TypeOK
<1>1. /\ Append(q0, n) \in Seq(PduLens)
      /\ Append(q0, n) # << >>
      /\ q0 # << >> => Head(Append(q0, n)) = Head(q0)
    BY <1>0, AppendFacts
<1>2. \A x \in Ports : aas_queues'[x] = IF x = p THEN Append(q0, n) ELSE aas_queues[x]
    BY DEF IInv, TypeOK
<1>3. TypeOK'
    BY <1>1, <1>2 DEF IInv, TypeOK
<1>4. Waiting' = Waiting \cup {p}
    BY <1>1, <1>2 DEF Waiting
<1>5. PduContiguous'
    BY <1>1, <1>2, <1>4 DEF IInv, PduContiguous, Waiting
<1>6. KeysCover' /\ TurnKnown'
    BY <1>4 DEF IInv, KeysCover, TurnKnown
<1>7. BypassOrder' /\ ServedClear'
    BY <1>4 DEF IInv, BypassOrder, ServedClear
<1> QED
    BY <1>3, <1>5, <1>6, <1>7 DEF IInv

(***************************************************************************)
(* The invariant survives the start of an L2 PDU.                          *)
(***************************************************************************)
LEMMA StartPduIInv == IInv /\ StartPdu => IInv'
<1> SUFFICES ASSUME IInv, StartPdu PROVE IInv'
    OBVIOUS
<1>1. /\ slot' \in 0 .. 1
      /\ UNCHANGED <<aas_queues, sent, known, aas_block_offset, program_type, bypass>>
      /\ Waiting' = Waiting
    BY DEF StartPdu, Waiting
<1>2. CASE aas_current_port = NoPort /\ known # {}
    <2>1. aas_current_port' \in known /\ FirstFrom(known, 0, aas_current_port')
        BY <1>2 DEF StartPdu, ResumeTurn
    <2>2. sent = [x \in Ports |-> 0]
        BY <1>2, PortsAssumption DEF IInv, TypeOK, PduContiguous, NoPort
    <2>3. BypassOrder'
        <3> SUFFICES ASSUME NEW q \in Ports, NEW p \in Ports, bypass[q][p] # 0
                     PROVE  MetBefore(aas_current_port', q, p)
            BY <1>1 DEF IInv, BypassOrder
        <3>1. q \in known /\ MetBefore(NoPort, q, p)
            BY <1>2 DEF IInv, BypassOrder, KeysCover
        <3>2. q \in Nat /\ p \in Nat /\ aas_current_port' \in Nat
            BY <2>1, PortsAssumption DEF IInv, TypeOK
        <3>3. q < p
            BY <3>1, <3>2 DEF MetBefore, NoPort
        <3>4. q = aas_current_port' \/ aas_current_port' < q
            BY <2>1, <3>1, <3>2 DEF FirstFrom, MetBefore
        <3> QED
            BY <3>2, <3>3, <3>4 DEF MetBefore
    <2>4. TypeOK'
        BY <1>1, <2>1, SizesAssumption DEF IInv, TypeOK
    <2>5. PduContiguous'
        BY <1>1, <2>2 DEF PduContiguous
    <2> QED
        BY <1>1, <2>1, <2>3, <2>4, <2>5 DEF IInv, KeysCover, TurnKnown, ServedClear
<1>3. CASE ~(aas_current_port = NoPort /\ known # {})
    BY <1>1, <1>3, SizesAssumption DEF StartPdu, ResumeTurn, IInv, TypeOK, PduContiguous, KeysCover, TurnKnown, BypassOrder,
                                            ServedClear
<1> QED
    BY <1>2, <1>3

(***************************************************************************)
(* Markers and fillers touch none of the queues.                           *)
(***************************************************************************)
LEMMA NoDataIInv == IInv /\ (SendMarker \/ SendFiller) => IInv'
<1> SUFFICES ASSUME IInv, SendMarker \/ SendFiller PROVE IInv'
    OBVIOUS
<1>1. Advance /\ UNCHANGED <<muxvars, bypass>>
    BY DEF SendMarker, SendFiller
<1>2. slot' \in 0 .. DataBytes /\ aas_block_offset' \in 0 .. BlockLen + BbmLen - 1
    BY <1>1, AdvanceInRange DEF IInv, TypeOK
<1>3. TypeOK'
    BY <1>1, <1>2 DEF IInv, TypeOK, muxvars, Advance
<1>4. Waiting' = Waiting
    BY <1>1 DEF Waiting, muxvars
<1> QED
    BY <1>1, <1>3, <1>4
    DEF IInv, PduContiguous, KeysCover, TurnKnown, BypassOrder, ServedClear, muxvars, Advance

(***************************************************************************)
(* When it is the turn of port p, no other port is in the middle of a PDU  *)
(* and no port that p has overtaken is waiting.                            *)
(***************************************************************************)
LEMMA TurnFacts ==
    ASSUME IInv, slot # 0, NEW p \in Ports, FirstFrom(Waiting, aas_current_port, p)
    PROVE  /\ p \in Waiting /\ p \in known
           /\ aas_current_port \in known
           /\ \A x \in Ports : sent[x] > 0 => x = p /\ aas_current_port = p
           /\ \A q \in Waiting : bypass[q][p] = 0
<1>1. p \in Waiting /\ p \in known /\ aas_current_port \in known
    BY DEF FirstFrom, IInv, KeysCover, TurnKnown
<1>2. ASSUME NEW x \in Ports, sent[x] > 0
      PROVE  x = p /\ aas_current_port = p
    <2>1. x = aas_current_port /\ x \in Waiting
        BY <1>2 DEF IInv, PduContiguous
    <2>2. x # p => MetBefore(aas_current_port, p, x)
        BY <2>1 DEF FirstFrom
    <2> QED
        BY <2>1, <2>2, PortsAssumption DEF MetBefore
<1>3. ASSUME NEW q \in Waiting, bypass[q][p] # 0
      PROVE  FALSE
    <2>1. q \in Ports
        BY DEF Waiting
    <2>2. MetBefore(aas_current_port, q, p)
        BY <1>3, <2>1 DEF IInv, BypassOrder
    <2>3. q # p => MetBefore(aas_current_port, p, q)
        BY DEF FirstFrom
    <2>4. p \in Nat /\ q \in Nat /\ aas_current_port \in Nat
        BY <1>1, <2>1, PortsAssumption DEF IInv, TypeOK
    <2>5. q = p
        BY <2>2, <2>3, <2>4 DEF MetBefore
    <2> QED
        BY <2>2, <2>4, <2>5 DEF MetBefore
<1> QED
    BY <1>1, <1>2, <1>3

(***************************************************************************)
(* The invariant survives a byte inside a PDU.                             *)
(***************************************************************************)
LEMMA SendByteIInv ==
    ASSUME IInv, NEW p \in Ports, SendByte(p)
    PROVE  IInv'
<1>1. /\ Advance
      /\ slot # 0
      /\ FirstFrom(Waiting, aas_current_port, p)
      /\ sent[p] + 1 < Head(aas_queues[p])
      /\ sent' = [sent EXCEPT ![p] = @ + 1]
      /\ aas_current_port' = p
      /\ UNCHANGED <<aas_queues, known>>
    BY DEF SendByte, Advance, TurnInPdu
<1>2. /\ p \in Waiting /\ p \in known
      /\ aas_current_port \in known
      /\ \A x \in Ports : sent[x] > 0 => x = p /\ aas_current_port = p
    BY <1>1, TurnFacts
<1>3. Waiting' = Waiting
    BY <1>1 DEF Waiting
<1>4. \A q, x \in Ports : bypass'[q][x] = bypass[q][x] \/ (q = p /\ bypass'[q][x] = 0)
    BY DEF SendByte, IInv, TypeOK
<1>5. TypeOK'
    <2>1. slot' \in 0 .. DataBytes /\ aas_block_offset' \in 0 .. BlockLen + BbmLen - 1
        BY <1>1, AdvanceInRange DEF IInv, TypeOK
    <2>2. sent' \in [Ports -> Nat]
        BY <1>1 DEF IInv, TypeOK
    <2>3. bypass' \in [Ports -> [Ports -> Nat]]
        BY DEF SendByte, IInv, TypeOK
    <2> QED
        BY <1>1, <1>2, <2>1, <2>2, <2>3 DEF IInv, TypeOK, Advance
<1>6. PduContiguous'
    BY <1>1, <1>2, <1>3 DEF PduContiguous, IInv, TypeOK
<1>7. KeysCover' /\ TurnKnown'
    BY <1>1, <1>2, <1>3 DEF IInv, KeysCover, TurnKnown
<1>9. ServedClear'
    <2> SUFFICES ASSUME NEW q \in Ports, NEW x \in Ports, sent'[q] > 0
                 PROVE  bypass'[q][x] = 0
        BY DEF ServedClear
    <2>1. CASE q = p /\ sent[p] = 0
        BY <2>1 DEF SendByte, IInv, TypeOK
    <2>2. CASE ~(q = p /\ sent[p] = 0)
        <3>1. sent[q] > 0
            BY <1>1, <2>2 DEF IInv, TypeOK
        <3> QED
            BY <1>4, <3>1 DEF IInv, ServedClear
    <2> QED
        BY <2>1, <2>2
<1>8. BypassOrder'
    <2> SUFFICES ASSUME NEW q \in Ports, NEW x \in Ports, bypass'[q][x] # 0
                 PROVE  q \in Waiting /\ bypass'[q][x] = 1 /\ MetBefore(p, q, x)
        BY <1>1, <1>3 DEF BypassOrder
    <2>1. /\ bypass'[q][x] = bypass[q][x]
          /\ q \in Waiting /\ bypass[q][x] = 1
          /\ MetBefore(aas_current_port, q, x)
        BY <1>4 DEF IInv, BypassOrder
    <2>2. q = p \/ MetBefore(aas_current_port, p, q)
        BY <1>1, <2>1 DEF FirstFrom
    <2>3. x # p
        BY <1>1, <2>1, TurnFacts
    <2>4. q \in Nat /\ x \in Nat /\ p \in Nat /\ aas_current_port \in Nat
        BY <1>2, PortsAssumption DEF IInv, TypeOK
    <2> QED
        BY <2>1, <2>2, <2>3, <2>4 DEF MetBefore
<1> QED
    BY <1>5, <1>6, <1>7, <1>8, <1>9 DEF IInv

(***************************************************************************)
(* The invariant survives the closing flag of a PDU.                       *)
(***************************************************************************)
LEMMA SendFlagIInv ==
    ASSUME IInv, NEW p \in Ports, SendFlag(p)
    PROVE  IInv'
<1>1. /\ Advance
      /\ slot # 0
      /\ FirstFrom(Waiting, aas_current_port, p)
      /\ sent[p] + 1 = Head(aas_queues[p])
      /\ aas_queues' = [aas_queues EXCEPT ![p] = Tail(@)]
      /\ sent' = [sent EXCEPT ![p] = 0]
      /\ aas_current_port' \in known
      /\ FirstFrom(known, p + 1, aas_current_port')
      /\ known' = known
    BY DEF SendFlag, Advance, NextTurn
<1>2. /\ p \in Waiting /\ p \in known
      /\ \A x \in Ports : sent[x] > 0 => x = p
      /\ \A q \in Waiting : bypass[q][p] = 0
    BY <1>1, TurnFacts
<1>3. Tail(aas_queues[p]) \in Seq(PduLens)
    BY <1>2, TailFacts DEF Waiting, IInv, TypeOK
<1>4. Waiting' \subseteq Waiting /\ \A q \in Waiting : q # p => q \in Waiting'
    BY <1>1, <1>2 DEF Waiting, IInv, TypeOK
<1>5. \A q, x \in Ports :
         bypass'[q][x] = IF q # p /\ q \in Waiting /\ x = p THEN bypass[q][x] + 1
                                                           ELSE bypass[q][x]
    BY DEF SendFlag, IInv, TypeOK
<1>6. TypeOK'
    <2>1. slot' \in 0 .. DataBytes /\ aas_block_offset' \in 0 .. BlockLen + BbmLen - 1
        BY <1>1, AdvanceInRange DEF IInv, TypeOK
    <2>2. aas_queues' \in [Ports -> Seq(PduLens)] /\ sent' \in [Ports -> Nat]
        BY <1>1, <1>3 DEF IInv, TypeOK
    <2>3. bypass' \in [Ports -> [Ports -> Nat]]
        BY DEF SendFlag, IInv, TypeOK
    <2> QED
        BY <1>1, <2>1, <2>2, <2>3 DEF IInv, TypeOK, Advance
<1>7. PduContiguous'
    BY <1>1, <1>2 DEF PduContiguous, IInv, TypeOK
<1>8. KeysCover' /\ TurnKnown'
    BY <1>1, <1>4 DEF IInv, KeysCover, TurnKnown
<1>9. BypassOrder'
    <2> SUFFICES ASSUME NEW q \in Ports, NEW x \in Ports, bypass'[q][x] # 0
                 PROVE  /\ q \in Waiting'
                        /\ bypass'[q][x] = 1
                        /\ MetBefore(aas_current_port', q, x)
        BY DEF BypassOrder
    <2> DEFINE n == aas_current_port'
    <2>1. sent[p] > 0
        <3>1. Head(aas_queues[p]) \in PduLens
            BY <1>2, TailFacts DEF Waiting, IInv, TypeOK
        <3>2. sent[p] \in Nat /\ sent[p] + 1 \in PduLens
            BY <1>1, <3>1 DEF IInv, TypeOK
        <3> QED
            BY <3>2, PduLensAssumption
    <2>2. q # p
        <3>1. bypass'[p][x] = bypass[p][x]
            BY <1>5
        <3> QED
            BY <2>1, <3>1 DEF IInv, ServedClear
    <2>3. CASE x = p
        <3>1. q \in Waiting /\ bypass'[q][x] = 1
            BY <1>2, <1>5, <2>2, <2>3 DEF IInv, BypassOrder
        <3>2. q = n \/ MetBefore(p + 1, n, q)
            BY <1>1, <3>1 DEF FirstFrom, IInv, KeysCover
        <3>3. q \in Nat /\ p \in Nat /\ n \in Nat
            BY <1>1, PortsAssumption DEF IInv, TypeOK
        <3> QED
            BY <1>4, <2>2, <2>3, <3>1, <3>2, <3>3 DEF MetBefore
    <2>4. CASE x # p
        <3>1. q \in Waiting /\ bypass'[q][x] = 1 /\ MetBefore(aas_current_port, q, x)
            BY <1>5, <2>4 DEF IInv, BypassOrder
        <3>2. q = n \/ MetBefore(p + 1, n, q)
            BY <1>1, <3>1 DEF FirstFrom, IInv, KeysCover
        <3>3. MetBefore(aas_current_port, p, q)
            BY <1>1, <2>2, <3>1 DEF FirstFrom
        <3>4. /\ q \in Nat /\ p \in Nat /\ n \in Nat /\ x \in Nat
              /\ aas_current_port \in Nat
            BY <1>1, TurnFacts, PortsAssumption DEF IInv, TypeOK
        <3> QED
            BY <1>4, <2>2, <2>4, <3>1, <3>2, <3>3, <3>4 DEF MetBefore
    <2> QED
        BY <2>3, <2>4
<1>10. ServedClear'
    BY <1>1, <1>2 DEF ServedClear, IInv, TypeOK
<1> QED
    BY <1>6, <1>7, <1>8, <1>9, <1>10 DEF IInv

(***************************************************************************)
(* The invariant is inductive.                                             *)
(***************************************************************************)
LEMMA StepIInv == IInv /\ [Next]_vars => IInv'
<1> SUFFICES ASSUME IInv, [Next]_vars PROVE IInv'
    OBVIOUS
<1>1. ASSUME NEW p \in Ports, NEW n \in PduLens, NEW t \in ProgTypes, HandleAasPdu(p, n, t)
      PROVE  IInv'
    BY <1>1, HandleAasPduIInv
<1>2. CASE StartPdu
    BY <1>2, StartPduIInv
<1>3. CASE SendMarker \/ SendFiller
    BY <1>3, NoDataIInv
<1>4. ASSUME NEW p \in Ports, SendByte(p)
      PROVE  IInv'
    BY <1>4, SendByteIInv
<1>5. ASSUME NEW p \in Ports, SendFlag(p)
      PROVE  IInv'
    BY <1>5, SendFlagIInv
<1>6. CASE UNCHANGED vars
    BY <1>6 DEF IInv, TypeOK, PduContiguous, KeysCover, TurnKnown, BypassOrder, ServedClear,
                Waiting, vars, muxvars
<1> QED
    BY <1>1, <1>2, <1>3, <1>4, <1>5, <1>6 DEF Next, Work

(***************************************************************************)
(* The inductive invariant holds in every reachable state of the fixed     *)
(* data subchannel.                                                        *)
(***************************************************************************)
THEOREM Invariance == Spec => []IInv
BY InitIInv, StepIInv, PTL DEF Spec

(***************************************************************************)
(* The variables of general_work and handle_aas_pdu keep their types.      *)
(***************************************************************************)
THEOREM TypeCorrect == Spec => []TypeOK
<1>1. IInv => TypeOK
    BY DEF IInv
<1> QED
    BY <1>1, Invariance, PTL

(***************************************************************************)
(* No byte of another port and no filler ever splits a PDU, for any number *)
(* of ports, any PDU lengths and any subchannel size.                      *)
(***************************************************************************)
THEOREM Contiguous == Spec => []PduContiguous
<1>1. IInv => PduContiguous
    BY DEF IInv
<1> QED
    BY <1>1, Invariance, PTL

(***************************************************************************)
(* The round robin of general_work is fair: while a port waits, each other *)
(* one completes at most one PDU.                                          *)
(***************************************************************************)
THEOREM FairRoundRobin == Spec => []BoundedBypass
<1>1. IInv => BoundedBypass
    BY DEF IInv, BypassOrder, BoundedBypass
<1> QED
    BY <1>1, Invariance, PTL

(***************************************************************************)
(* Every step of the subchannel is a step of the abstract multiplexer, or  *)
(* leaves it unchanged.                                                    *)
(***************************************************************************)
LEMMA StepSimulation == IInv /\ IInv' /\ [Next]_vars => [Mux!Next]_(Mux!vars)
<1> SUFFICES ASSUME IInv, IInv', [Next]_vars PROVE [Mux!Next]_(Mux!vars)
    OBVIOUS
<1> USE DEF Mux!vars, Mux!Waiting, Waiting
<1>1. ASSUME NEW p \in Ports, NEW n \in PduLens, NEW t \in ProgTypes, HandleAasPdu(p, n, t)
      PROVE  Mux!Submit(p, n)
    BY <1>1 DEF HandleAasPdu, Mux!Submit, Serving
<1>2. ASSUME StartPdu \/ SendMarker \/ SendFiller \/ UNCHANGED vars
      PROVE  UNCHANGED Mux!vars
    <2>1. CASE StartPdu
        <3>1. UNCHANGED <<aas_queues, sent, bypass>>
            BY <2>1 DEF StartPdu
        <3>2. CASE aas_current_port = NoPort
            <4>1. \A x \in Ports : ~(sent[x] > 0)
                BY <3>2, PortsAssumption DEF IInv, PduContiguous, NoPort
            <4> QED
                BY <3>1, <3>2, <4>1 DEF Serving, IInv, TypeOK
        <3>3. CASE aas_current_port # NoPort
            BY <3>1, <3>3, <2>1 DEF StartPdu, ResumeTurn, Serving
        <3> QED
            BY <3>2, <3>3
    <2> QED
        BY <1>2, <2>1 DEF SendMarker, SendFiller, Serving, vars, muxvars
<1>3. ASSUME NEW p \in Ports, SendByte(p)
      PROVE  Mux!Begin(p) \/ UNCHANGED Mux!vars
    <2>1. /\ p \in Waiting /\ aas_current_port \in known
          /\ \A x \in Ports : sent[x] > 0 => x = p /\ aas_current_port = p
          /\ \A q \in Waiting : bypass[q][p] = 0
        BY <1>3, TurnFacts DEF SendByte, Advance
    <2>2. Serving' = p
        BY <1>3, PortsAssumption DEF SendByte, TurnInPdu, Serving, NoPort, IInv, TypeOK
    <2>3. CASE sent[p] = 0
        <3>1. Serving = NoPort
            BY <2>1, <2>3 DEF Serving, IInv, TypeOK
        <3> QED
            BY <1>3, <2>1, <2>2, <2>3, <3>1 DEF SendByte, Mux!Begin
    <2>4. CASE sent[p] # 0
        <3>1. sent[p] > 0
            BY <2>4 DEF IInv, TypeOK
        <3>2. Serving = p
            BY <2>1, <3>1, PortsAssumption DEF Serving, NoPort
        <3> QED
            BY <1>3, <2>2, <2>4, <3>2 DEF SendByte, TurnInPdu
    <2> QED
        BY <2>3, <2>4
<1>4. ASSUME NEW p \in Ports, SendFlag(p)
      PROVE  Mux!Finish(p)
    <2>1. /\ p \in Waiting
          /\ \A x \in Ports : sent[x] > 0 => x = p /\ aas_current_port = p
        BY <1>4, TurnFacts DEF SendFlag, Advance
    <2>2. sent[p] > 0
        <3>1. Head(aas_queues[p]) \in PduLens
            BY <2>1, TailFacts DEF IInv, TypeOK
        <3> QED
            BY <1>4, <3>1, PduLensAssumption DEF SendFlag, IInv, TypeOK
    <2>3. Serving = p
        BY <2>1, <2>2, PortsAssumption DEF Serving, NoPort
    <2>4. Serving' = NoPort
        <3>1. \A x \in Ports : ~(sent'[x] > 0)
            BY <1>4, <2>1 DEF SendFlag, IInv, TypeOK
        <3> QED
            BY <3>1 DEF Serving, IInv, TypeOK
    <2> QED
        BY <1>4, <2>1, <2>3, <2>4 DEF SendFlag, Mux!Finish
<1> QED
    BY <1>1, <1>2, <1>3, <1>4 DEF Next, Work, Mux!Next

(***************************************************************************)
(* general_work and handle_aas_pdu implement the abstract multiplexer: one *)
(* PDU at a time, each port first in first out, no port overtaken twice.   *)
(***************************************************************************)
THEOREM Refinement == Spec => ImplementsMux
<1>1. Init => Mux!Init
    BY DEF Init, Mux!Init, Serving
<1> QED
    BY <1>1, Invariance, StepSimulation, PTL DEF Spec, ImplementsMux, Mux!Spec
-------------------------------------------------------------------------------

LoopIInv == LoopTypeOK /\ IInv /\ NeverSilent /\ OneInFlight

(***************************************************************************)
(* The length of a queue after a PDU has been appended or removed.         *)
(***************************************************************************)
LEMMA QueueLengths ==
    ASSUME NEW s \in Seq(PduLens)
    PROVE  /\ Len(s) \in Nat
           /\ \A d \in PduLens : Len(Append(s, d)) = Len(s) + 1
           /\ s # << >> => Len(Tail(s)) = Len(s) - 1 /\ Len(s) > 0
OBVIOUS

(***************************************************************************)
(* The numbers InFlight adds up.                                           *)
(***************************************************************************)
LEMMA Counts ==
    ASSUME LoopTypeOK, NEW p \in Ports
    PROVE  /\ ready[p] \in Nat /\ sending[p] \in Nat /\ parts[p] \in Nat
           /\ Len(inbox[p]) \in Nat /\ Len(aas_queues[p]) \in Nat
           /\ 0 \notin FileParts => parts[p] > 0
           /\ PartCounts(p) = {1} => parts[p] = 1
<1>1. inbox[p] \in Seq(PduLens) /\ aas_queues[p] \in Seq(PduLens)
    BY DEF LoopTypeOK, TypeOK
<1>2. parts[p] \in PartCounts(p) /\ parts[p] \in FileParts \cup {1}
    BY DEF LoopTypeOK
<1>3. parts[p] \in Nat /\ (0 \notin FileParts => parts[p] > 0)
    <2>1. \A k \in FileParts \cup {1} : k \in Nat /\ (k = 0 => 0 \in FileParts)
        BY FilePartsAssumption
    <2> QED
        BY <1>2, <2>1
<1> QED
    BY <1>1, <1>2, <1>3, QueueLengths DEF LoopTypeOK

(***************************************************************************)
(* What each step must do to every port to keep both counting properties.  *)
(***************************************************************************)
LEMMA CountsSuffice ==
    ASSUME NeverSilent, OneInFlight,
           \A p \in Ports : 0 \notin FileParts /\ InFlight(p) > 0 => InFlight(p)' > 0,
           \A p \in Ports : PartCounts(p) = {1} /\ InFlight(p) = 1 => InFlight(p)' = 1
    PROVE  NeverSilent' /\ OneInFlight'
BY DEF NeverSilent, OneInFlight, PartCounts

LEMMA InitLoop == LoopInit => LoopIInv
<1> SUFFICES ASSUME LoopInit PROVE LoopIInv
    OBVIOUS
<1>1. IInv
    BY InitIInv DEF LoopInit
<1>2. LoopTypeOK
    <2>1. /\ parts \in [Ports -> FileParts \cup {1}]
          /\ \A p \in Ports : parts[p] \in PartCounts(p)
        BY DEF LoopInit
    <2>2. sending \in [Ports -> Nat]
        <3>1. FileParts \cup {1} \subseteq Nat
            BY FilePartsAssumption
        <3> QED
            BY <2>1, <3>1 DEF LoopInit
    <2> QED
        BY <1>1, <2>1, <2>2 DEF LoopInit, LoopTypeOK, IInv
<1>3. \A p \in Ports : InFlight(p) = parts[p]
    <2> SUFFICES ASSUME NEW p \in Ports PROVE InFlight(p) = parts[p]
        OBVIOUS
    <2>1. /\ ready[p] = 0 /\ sending[p] = parts[p]
          /\ inbox[p] = << >> /\ aas_queues[p] = << >>
        BY DEF LoopInit, Init
    <2> QED
        BY <1>2, <2>1, Counts DEF InFlight
<1>4. NeverSilent /\ OneInFlight
    BY <1>2, <1>3, Counts DEF NeverSilent, OneInFlight
<1> QED
    BY <1>1, <1>2, <1>4 DEF LoopIInv

(***************************************************************************)
(* Every step of the loop is a step of the subchannel or leaves it alone.  *)
(***************************************************************************)
LEMMA LoopStepIsStep == LoopTypeOK /\ [LoopNext]_allvars => [Next]_vars
<1> SUFFICES ASSUME LoopTypeOK, [LoopNext]_allvars PROVE [Next]_vars
    OBVIOUS
<1>1. ASSUME NEW p \in Ports, HandleAas(p) PROVE Next
    <2>1. Head(inbox[p]) \in PduLens
        BY <1>1, TailFacts DEF HandleAas, LoopTypeOK
    <2> QED
        BY <1>1, <2>1 DEF HandleAas, Next
<1>2. ASSUME NEW p \in Ports, SenderStep(p) PROVE UNCHANGED vars
    BY <1>2 DEF SenderStep, HandleNotify, Publish
<1>3. ASSUME NEW p \in Ports, NEW k \in FileParts, HandleNewFile(p, k) PROVE UNCHANGED vars
    BY <1>3 DEF HandleNewFile
<1>4. CASE LoopWork
    BY <1>4 DEF LoopWork, FlagAndNotify, Next, Work
<1>5. CASE UNCHANGED allvars
    BY <1>5 DEF allvars
<1> QED
    BY <1>1, <1>2, <1>3, <1>4, <1>5 DEF LoopNext

LEMMA LoopTypeStep == LoopTypeOK /\ TypeOK' /\ [LoopNext]_allvars => LoopTypeOK'
<1> SUFFICES ASSUME LoopTypeOK, TypeOK', [LoopNext]_allvars PROVE LoopTypeOK'
    OBVIOUS
<1> USE DEF LoopTypeOK, PartCounts
<1>1. ASSUME NEW p \in Ports, HandleNotify(p) PROVE LoopTypeOK'
    BY <1>1, Counts DEF HandleNotify
<1>2. ASSUME NEW p \in Ports, NEW n \in PduLens, Publish(p, n) PROVE LoopTypeOK'
    <2>1. Append(inbox[p], n) \in Seq(PduLens)
        BY AppendFacts
    <2> QED
        BY <1>2, <2>1, Counts DEF Publish, Unpublished
<1>3. ASSUME NEW p \in Ports, NEW k \in FileParts, HandleNewFile(p, k) PROVE LoopTypeOK'
    BY <1>3 DEF HandleNewFile
<1>4. ASSUME NEW p \in Ports, HandleAas(p) PROVE LoopTypeOK'
    <2>1. Tail(inbox[p]) \in Seq(PduLens)
        BY <1>4, TailFacts DEF HandleAas
    <2> QED
        BY <1>4, <2>1 DEF HandleAas
<1>5. CASE LoopWork
    <2>1. UNCHANGED <<parts, sending, inbox, unsent>>
        BY <1>5 DEF LoopWork, FlagAndNotify, loopvars
    <2>2. ready' \in [Ports -> Nat]
        <3>1. CASE ready' = ready
            BY <3>1
        <3>2. ASSUME NEW p \in Ports, FlagAndNotify(p) PROVE ready' \in [Ports -> Nat]
            <4>1. \A x \in Ports : ready[x] \in Nat /\ ready[x] + 1 \in Nat
                OBVIOUS
            <4> QED
                BY <3>2, <4>1 DEF FlagAndNotify
        <3> QED
            BY <1>5, <3>1, <3>2 DEF LoopWork, loopvars
    <2> QED
        BY <2>1, <2>2
<1>6. CASE UNCHANGED allvars
    BY <1>6 DEF allvars, loopvars
<1> QED
    BY <1>1, <1>2, <1>3, <1>4, <1>5, <1>6 DEF LoopNext, SenderStep

(***************************************************************************)
(* The messages and PDUs of a port after each step: a publication and a    *)
(* handled PDU move one, a handled "ready" trades itself for a file, and a *)
(* closing flag trades a PDU for a "ready" when it was the last.           *)
(***************************************************************************)
LEMMA PublishCounts ==
    ASSUME LoopTypeOK, NEW p \in Ports, NEW n \in PduLens, Publish(p, n), NEW q \in Ports
    PROVE  InFlight(q)' = InFlight(q)
<1> DEFINE r == ready[q]
           s == sending[q]
           i == Len(inbox[q])
           a == Len(aas_queues[q])
<1>1. r' = r /\ a' = a /\ s' = IF q = p THEN s - 1 ELSE s
    BY DEF Publish, vars, muxvars, LoopTypeOK
<1>2. i' = IF q = p THEN i + 1 ELSE i
    <2>1. inbox' = [inbox EXCEPT ![p] = Append(@, n)] /\ inbox \in [Ports -> Seq(PduLens)]
        BY DEF Publish, LoopTypeOK
    <2>2. inbox'[q] = IF q = p THEN Append(inbox[q], n) ELSE inbox[q]
        BY <2>1
    <2> QED
        BY <2>1, <2>2, QueueLengths
<1>4. r \in Nat /\ s \in Nat /\ i \in Nat /\ a \in Nat
    BY Counts
<1>5. InFlight(q) = r + s + i + a /\ InFlight(q)' = r' + s' + i' + a'
    BY DEF InFlight
<1> HIDE DEF r, s, i, a
<1> QED
    BY <1>1, <1>2, <1>4, <1>5

LEMMA HandleNotifyCounts ==
    ASSUME LoopTypeOK, NEW p \in Ports, HandleNotify(p), NEW q \in Ports
    PROVE  InFlight(q)' = IF q = p THEN InFlight(q) - 1 + parts[q] ELSE InFlight(q)
<1> DEFINE r == ready[q]
           s == sending[q]
           i == Len(inbox[q])
           a == Len(aas_queues[q])
<1>1. i' = i /\ a' = a
    BY DEF HandleNotify, vars, muxvars
<1>2. IF q = p THEN s = 0 /\ s' = parts[q] /\ r' = r - 1 ELSE s' = s /\ r' = r
    BY DEF HandleNotify, LoopTypeOK
<1>3. parts[q] \in Nat
    BY Counts
<1>4. r \in Nat /\ s \in Nat /\ i \in Nat /\ a \in Nat
    BY Counts
<1>5. InFlight(q) = r + s + i + a /\ InFlight(q)' = r' + s' + i' + a'
    BY DEF InFlight
<1> HIDE DEF r, s, i, a
<1> QED
    BY <1>1, <1>2, <1>3, <1>4, <1>5

LEMMA HandleAasCounts ==
    ASSUME LoopTypeOK, NEW p \in Ports, HandleAas(p), NEW q \in Ports
    PROVE  InFlight(q)' = InFlight(q)
<1> DEFINE r == ready[q]
           s == sending[q]
           i == Len(inbox[q])
           a == Len(aas_queues[q])
<1>1. r' = r /\ s' = s
    BY DEF HandleAas
<1>2. i' = IF q = p THEN i - 1 ELSE i
    <2>1. inbox' = [inbox EXCEPT ![p] = Tail(@)] /\ inbox \in [Ports -> Seq(PduLens)]
        BY DEF HandleAas, LoopTypeOK
    <2>2. inbox'[q] = IF q = p THEN Tail(inbox[q]) ELSE inbox[q]
        BY <2>1
    <2> QED
        BY <2>1, <2>2, QueueLengths DEF HandleAas
<1>3. a' = IF q = p THEN a + 1 ELSE a
    <2>1. /\ aas_queues' = [aas_queues EXCEPT ![p] = Append(@, Head(inbox[p]))]
          /\ aas_queues \in [Ports -> Seq(PduLens)]
        BY DEF HandleAas, HandleAasPdu, LoopTypeOK, TypeOK
    <2>2. Head(inbox[p]) \in PduLens
        BY TailFacts DEF HandleAas, LoopTypeOK
    <2>3. aas_queues'[q] = IF q = p THEN Append(aas_queues[q], Head(inbox[p]))
                                    ELSE aas_queues[q]
        BY <2>1
    <2> QED
        BY <2>1, <2>2, <2>3, QueueLengths
<1>4. r \in Nat /\ s \in Nat /\ i \in Nat /\ a \in Nat
    BY Counts
<1>5. InFlight(q) = r + s + i + a /\ InFlight(q)' = r' + s' + i' + a'
    BY DEF InFlight
<1> HIDE DEF r, s, i, a
<1> QED
    BY <1>1, <1>2, <1>3, <1>4, <1>5

LEMMA FlagAndNotifyCounts ==
    ASSUME LoopTypeOK, NEW p \in Ports, FlagAndNotify(p), NEW q \in Ports
    PROVE  /\ InFlight(q)' > 0 \/ InFlight(q) = InFlight(q)'
           /\ InFlight(q) = 1 => InFlight(q)' = 1
<1> DEFINE r == ready[q]
           s == sending[q]
           i == Len(inbox[q])
           a == Len(aas_queues[q])
<1>1. i' = i /\ s' = s
    BY DEF FlagAndNotify
<1>2. IF q = p THEN a > 0 /\ a' = a - 1 ELSE a' = a
    <2>1. /\ aas_queues' = [aas_queues EXCEPT ![p] = Tail(@)]
          /\ aas_queues \in [Ports -> Seq(PduLens)]
          /\ aas_queues[p] # << >>
        BY DEF FlagAndNotify, SendFlag, FirstFrom, Waiting, LoopTypeOK, TypeOK
    <2>2. aas_queues'[q] = IF q = p THEN Tail(aas_queues[q]) ELSE aas_queues[q]
        BY <2>1
    <2> QED
        BY <2>1, <2>2, QueueLengths
<1>3. IF q = p /\ a' = 0 /\ r < MaxReady THEN r' = r + 1 ELSE r' = r
    <2>1. aas_queues' \in [Ports -> Seq(PduLens)]
        <3>1. aas_queues[p] \in Seq(PduLens) /\ aas_queues[p] # << >>
            BY DEF FlagAndNotify, SendFlag, FirstFrom, Waiting, LoopTypeOK, TypeOK
        <3>2. Tail(aas_queues[p]) \in Seq(PduLens)
            BY <3>1, TailFacts
        <3> QED
            BY <3>2 DEF FlagAndNotify, SendFlag, LoopTypeOK, TypeOK
    <2>2. \A s0 \in Seq(PduLens) : (s0 = << >>) <=> (Len(s0) = 0)
        OBVIOUS
    <2>3. (aas_queues'[p] = << >>) <=> (Len(aas_queues'[p]) = 0)
        BY <2>1, <2>2
    <2> QED
        BY <2>3 DEF FlagAndNotify, Asked, LoopTypeOK
<1>6. MaxReady \in Nat /\ MaxReady > 0
    BY BoundsAssumption
<1>4. r \in Nat /\ s \in Nat /\ i \in Nat /\ a \in Nat
    BY Counts
<1>5. InFlight(q) = r + s + i + a /\ InFlight(q)' = r' + s' + i' + a'
    BY DEF InFlight
<1> HIDE DEF r, s, i, a
<1> QED
    BY <1>1, <1>2, <1>3, <1>4, <1>5, <1>6

(***************************************************************************)
(* No step of the loop loses the last message or PDU of a port, or adds    *)
(* one to a port whose files have a single part.                           *)
(***************************************************************************)
LEMMA LoopCountsStep == LoopIInv /\ [LoopNext]_allvars => NeverSilent' /\ OneInFlight'
<1> SUFFICES ASSUME LoopIInv, [LoopNext]_allvars,
                    NEW q \in Ports
             PROVE  /\ 0 \notin FileParts /\ InFlight(q) > 0 => InFlight(q)' > 0
                    /\ PartCounts(q) = {1} /\ InFlight(q) = 1 => InFlight(q)' = 1
    BY CountsSuffice DEF LoopIInv
<1>0. LoopTypeOK
    BY DEF LoopIInv
<1>1. ASSUME NEW p \in Ports, NEW n \in PduLens, Publish(p, n)
      PROVE  InFlight(q)' = InFlight(q)
    BY <1>0, <1>1, PublishCounts
<1>2. ASSUME NEW p \in Ports, HandleNotify(p)
      PROVE  InFlight(q)' = IF q = p THEN InFlight(q) - 1 + parts[q] ELSE InFlight(q)
    BY <1>0, <1>2, HandleNotifyCounts
<1>3. ASSUME NEW p \in Ports, HandleAas(p)
      PROVE  InFlight(q)' = InFlight(q)
    BY <1>0, <1>3, HandleAasCounts
<1>4. ASSUME NEW p \in Ports, FlagAndNotify(p)
      PROVE  /\ InFlight(q)' > 0 \/ InFlight(q) = InFlight(q)'
             /\ InFlight(q) = 1 => InFlight(q)' = 1
    BY <1>0, <1>4, FlagAndNotifyCounts
<1>5. ASSUME UNCHANGED loopvars, UNCHANGED aas_queues
      PROVE  InFlight(q)' = InFlight(q)
    BY <1>5 DEF loopvars, InFlight
<1>6. ASSUME NEW p \in Ports, NEW k \in FileParts, HandleNewFile(p, k)
      PROVE  InFlight(q)' = InFlight(q)
    BY <1>6 DEF HandleNewFile, vars, muxvars, InFlight
<1>7. CASE LoopWork
    <2>1. CASE \E p \in Ports : FlagAndNotify(p)
        BY <1>4, <2>1
    <2>2. CASE ~ \E p \in Ports : FlagAndNotify(p)
        <3>1. UNCHANGED loopvars /\ UNCHANGED aas_queues
            BY <1>7, <2>2 DEF LoopWork, StartPdu, SendMarker, SendFiller, SendByte, muxvars
        <3> QED
            BY <1>5, <3>1
    <2> QED
        BY <2>1, <2>2
<1>8. CASE UNCHANGED allvars
    BY <1>5, <1>8 DEF allvars, vars, muxvars
<1>9. CASE \E p \in Ports : HandleNotify(p)
    <2>1. /\ InFlight(q) \in Nat /\ parts[q] \in Nat
          /\ 0 \notin FileParts => parts[q] > 0
          /\ PartCounts(q) = {1} => parts[q] = 1
        BY <1>0, Counts DEF InFlight
    <2> QED
        BY <1>2, <1>9, <2>1
<1> QED
    BY <1>1, <1>3, <1>6, <1>7, <1>8, <1>9 DEF LoopNext, SenderStep

(***************************************************************************)
(* The loop's invariant, the subchannel's included, holds throughout.      *)
(***************************************************************************)
THEOREM LoopInvariance == LoopSpec => []LoopIInv
<1>1. LoopIInv /\ [LoopNext]_allvars => LoopIInv'
    <2> SUFFICES ASSUME LoopIInv, [LoopNext]_allvars PROVE LoopIInv'
        OBVIOUS
    <2>1. IInv'
        BY LoopStepIsStep, StepIInv DEF LoopIInv
    <2>2. LoopTypeOK'
        BY <2>1, LoopTypeStep DEF LoopIInv, IInv
    <2> QED
        BY <2>1, <2>2, LoopCountsStep DEF LoopIInv
<1> QED
    BY <1>1, InitLoop, PTL DEF LoopSpec

(***************************************************************************)
(* The composed system runs the subchannel as FixedData specifies it.      *)
(***************************************************************************)
THEOREM LoopImplementsFixedData == LoopSpec => Spec
<1>1. LoopInit => Init
    BY DEF LoopInit
<1>2. LoopIInv /\ [LoopNext]_allvars => [Next]_vars
    BY LoopStepIsStep DEF LoopIInv
<1> QED
    BY <1>1, <1>2, LoopInvariance, PTL DEF LoopSpec, Spec

(***************************************************************************)
(* The wake-up of a sender whose files are not empty is never lost.        *)
(***************************************************************************)
THEOREM WakeupNeverLost == LoopSpec => []NeverSilent
<1>1. LoopIInv => NeverSilent
    BY DEF LoopIInv
<1> QED
    BY <1>1, LoopInvariance, PTL

(***************************************************************************)
(* A sender of single-part files, the SIS encoder among them, always has   *)
(* exactly one message or PDU in flight.                                   *)
(***************************************************************************)
THEOREM SingleTicket == LoopSpec => []OneInFlight
<1>1. LoopIInv => OneInFlight
    BY DEF LoopIInv
<1> QED
    BY <1>1, LoopInvariance, PTL
===============================================================================
