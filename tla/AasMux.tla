------------------------------- MODULE AasMux -------------------------------
(***************************************************************************)
(* What the fixed data subchannel of the L2 encoder promises to the blocks *)
(* that send it AAS PDUs: every port has a queue, the subchannel carries   *)
(* one PDU at a time and from its first byte to its closing flag, the PDUs *)
(* of a port leave in the order they came, and a port with something to    *)
(* send is passed over at most once by each of the others.                 *)
(***************************************************************************)
EXTENDS Naturals, Sequences

CONSTANTS Ports,  \* AAS ports, the keys of aas_queues
          Pdus,   \* what a PDU is told apart by
          None    \* no port is being served; not a member of Ports

VARIABLES pending,  \* pending[p]: PDUs of port p not yet fully sent, oldest first
          serving,  \* the port whose PDU is on the air, or None
          bypass    \* bypass[q][p]: PDUs of p completed while q was kept waiting

vars == <<pending, serving, bypass>>

Waiting == {p \in Ports : pending[p] # << >>}

Init == /\ pending = [p \in Ports |-> << >>]
        /\ serving = None
        /\ bypass = [q \in Ports |-> [p \in Ports |-> 0]]

Submit(p, d) == /\ pending' = [pending EXCEPT ![p] = Append(@, d)]
                /\ UNCHANGED <<serving, bypass>>

\* Port p gets the subchannel, if no port it has already overtaken waits.
Begin(p) == /\ serving = None
            /\ p \in Waiting
            /\ \A q \in Waiting \ {p} : bypass[q][p] = 0
            /\ serving' = p
            /\ bypass' = [bypass EXCEPT ![p] = [x \in Ports |-> 0]]
            /\ UNCHANGED pending

\* The closing flag of the PDU of p has been sent.
Finish(p) == /\ serving = p
             /\ p \in Waiting
             /\ serving' = None
             /\ pending' = [pending EXCEPT ![p] = Tail(@)]
             /\ bypass' = [q \in Ports |->
                             IF q # p /\ q \in Waiting
                             THEN [bypass[q] EXCEPT ![p] = @ + 1]
                             ELSE bypass[q]]

Next == \E p \in Ports : \/ \E d \in Pdus : Submit(p, d)
                         \/ Begin(p)
                         \/ Finish(p)

Spec == Init /\ [][Next]_vars

Fairness == WF_vars(\E p \in Ports : Begin(p) \/ Finish(p))

FairSpec == Spec /\ Fairness
=============================================================================
