----------------------------- MODULE Transmitter -----------------------------
(***************************************************************************)
(* The clock loop of each transmitter of apps/: ClockLoop's stations are   *)
(* read off the flowgraphs.                                                *)
(***************************************************************************)
EXTENDS ClockLoop, Flowgraphs

\* What the constructors of the encoders make of a flowgraph's parameters.
PsdBytesOf(t) == IF t.l2[t.p1].size >= 24000 THEN 128 ELSE 8
BlocksOf(t) == IF t.mode = "FM" THEN 16 ELSE 8
P1ModOf(t) == IF t.mode = "FM" THEN 1 ELSE 8
P3ModOf(t) == IF t.mode = "FM" THEN 0 ELSE 1

\* PSD bytes are counted in grains.
StationOf(t, grain) ==
    [of |-> t, messages |-> t.messages,
     blocks |-> BlocksOf(t), p1_mod |-> P1ModOf(t), p3_mod |-> P3ModOf(t),
     psd_bytes |-> PsdBytesOf(t) \div grain,
     bytes_per_frame |-> t.bytes_per_frame \div grain]
------------------------------------------------------------------------------
(***************************************************************************)
(* No sender of AAS PDUs is left without an answer or takes another's: the *)
(* layer 2 encoder a LOT or SIG sender publishes to is the one, and the    *)
(* only one, that says ready to it, has an AAS channel at all, and no two  *)
(* senders of one layer 2 encoder have the same port.  What a LOT encoder  *)
(* sends is where the SIG says that files are; and a layer 2 encoder that  *)
(* has programs is sent the SIG, which holds their types.                  *)
(***************************************************************************)
AasAnswered ==
    LET t == station.of
        From(s) == {w[2] : w \in {w \in t.messages : w[1] = s /\ w[3] = "aas"}}
        To(s) == {w[1] : w \in {w \in t.messages : w[2] = s /\ w[3] = "ready"}}
    IN  /\ \A s \in DOMAIN t.lots \cup {"sis"} :
              /\ Cardinality(From(s)) = 1 /\ From(s) = To(s)
              /\ s # "sis" => PortOf(t, s) \in AnnouncedPorts(t)
              /\ \A l2 \in From(s) :
                    /\ t.l2[l2].data_bytes > 0
                    /\ \A r \in SendersOf(t, l2) \ {s} : PortOf(t, r) # PortOf(t, s)
        /\ \A l2 \in DOMAIN t.l2 : t.l2[l2].num_progs > 0 => From("sis") = {l2}

(***************************************************************************)
(* Analog and digital sound keep pace: every chain delivers, for each      *)
(* audio sample at 44100 Hz, the samples its sink takes in the same time.  *)
(***************************************************************************)
OnePace == \A chain \in station.of.signals : Ratio(chain) = Reduced(<<station.of.rate, 44100>>)
==============================================================================
