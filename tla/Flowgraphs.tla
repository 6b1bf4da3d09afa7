------------------------------ MODULE Flowgraphs ------------------------------
(***************************************************************************)
(* The six transmitters of apps/, as far as the blocks of this repository  *)
(* can tell them apart: what their encoders are constructed with, how they *)
(* are wired, and the ratios at which their signals are resampled on the   *)
(* way to the transmitter.  A wire is <<from, to, port>>.                  *)
(***************************************************************************)
EXTENDS Integers, Sequences, FiniteSets, SequencesExt

\* Mutant: one resampler decimates by 20.
AnalogFmFast == << <<4, 1>>, <<50, 20>>, <<100, 21>> >>

\* Analog FM is modulated at four times the audio rate; then to 2 MS/s.
AnalogFm == << <<4, 1>>, <<50, 21>>, <<100, 21>> >>

\* A symbol of 2048 points is repeated, cut to 2160 samples of 4096, resampled.
Symbols(n, samples) == <<n * samples, 65536>>
FmSymbols == Symbols(512, 2160)
AmSymbols == Symbols(256, 270)
DigitalFm == << FmSymbols, <<125, 49>>, <<256, 243>> >>
DigitalAm == << AmSymbols, <<125, 49>>, <<4096, 243>> >>

AnalogAm == << <<100, 21>>, <<200, 21>> >>

ClockWires == {<<"l1", "psd", "clock">>, <<"l1", "sis", "clock">>}

\* A sender of AAS PDUs and the layer 2 encoder that says ready to it.
AasWires(sender, l2) == {<<l2, sender, "ready">>, <<sender, l2, "aas">>}

\* Mutant: ready comes from the other layer 2 encoder.
LotWiresCrossed == {<<"l2_0", "lot_0", "ready">>, <<"lot_0", "l2_1", "aas">>}

AmLotWires == AasWires("lot_0", "l2_1")

\* The clients' sockets.
Sockets == {<<"tcp_52000", "sis", "command">>, <<"tcp_52002", "psd", "set_meta">>}

Lot(name, lot_id, port) == [name |-> name, lot_id |-> lot_id, port |-> port]

L2(progs, size, data_bytes, ccc_width) ==
    [num_progs |-> progs, size |-> size, data_bytes |-> data_bytes, ccc_width |-> ccc_width]

\* FM service mode 1: one layer 2 encoder, for P1.
FmStation == [mode |-> "FM", sm |-> 1, bytes_per_frame |-> 128,
              p1 |-> "l2_0", l2 |-> [l2_0 |-> L2(1, 146176, 2000, 24)]]

\* AM: P1 carries the program and SIG, P3 the LOT files.
AmStation(sm, p3_bits) ==
    [mode |-> "AM", sm |-> sm, bytes_per_frame |-> 64,
     p1 |-> "l2_0", l2 |-> [l2_0 |-> L2(1, 3750, 4, 1), l2_1 |-> L2(0, p3_bits, 2048, 24)]]

AmMessages == ClockWires \cup AasWires("sis", "l2_0") \cup AmLotWires \cup Sockets

Wired(station, lots, messages, rate, signals) ==
    [mode |-> station.mode, sm |-> station.sm, bytes_per_frame |-> station.bytes_per_frame,
     p1 |-> station.p1, l2 |-> station.l2,
     lots |-> lots, messages |-> messages, rate |-> rate, signals |-> signals,
     program_names |-> <<"HD1">>]

FmFilesMessages == ClockWires \cup AasWires("sis", "l2_0") \cup AasWires("lot_0", "l2_0")
                   \cup AasWires("lot_0_0", "l2_0") \cup Sockets
                   \cup {<<"tcp_52004", "lot_0_0", "file">>}

hd_tx_usrp == Wired(FmStation,
    [lot_0_0 |-> Lot("album_art.jpg", 1337, 4096), lot_0 |-> Lot("SLABCD$$010000.png", 42, 4097)],
    FmFilesMessages, 2000000, {DigitalFm, AnalogFm})

hd_tx_hackrf == Wired(FmStation,
    [lot_0_0 |-> Lot("album_art.jpg", 1337, 4096), lot_0 |-> Lot("SLABCD$$010000.png", 42, 4097)],
    FmFilesMessages, 2000000, {DigitalFm, AnalogFm})

hd_tx_rtl_file == Wired(FmStation,
    [lot_0 |-> Lot("SLABCD$$010000.png", 0, 4097)],
    ClockWires \cup AasWires("sis", "l2_0") \cup AasWires("lot_0", "l2_0"),
    1488375, {<<FmSymbols, <<2, 1>>>>, << <<4, 1>>, <<135, 16>> >>})

hd_tx_am_hackrf == Wired(AmStation(1, 24000),
    [lot_0 |-> Lot("SLABCD$$010000.png", 42, 4097)],
    AmMessages, 2000000, {DigitalAm, AnalogAm})

hd_tx_am_ma3_hackrf == Wired(AmStation(3, 30000),
    [lot_0 |-> Lot("SLABCD$$010000.png", 42, 4097)],
    AmMessages, 2000000, {DigitalAm})

hd_tx_am_soundcard == Wired(AmStation(1, 24000),
    [lot_0 |-> Lot("SLABCD$$010000.png", 42, 4097)],
    AmMessages, 44100, {<<AmSymbols, <<128, 135>>>>, <<>>})

Transmitters == {hd_tx_usrp, hd_tx_hackrf, hd_tx_rtl_file,
                 hd_tx_am_hackrf, hd_tx_am_ma3_hackrf, hd_tx_am_soundcard}
------------------------------------------------------------------------------
\* The port on which a sender sends: SIG, and the LOT encoders.
SendersOf(t, l2) == {w[1] : w \in {w \in t.messages : w[2] = l2 /\ w[3] = "aas"}}
PortOf(t, sender) == IF sender = "sis" THEN 32 ELSE t.lots[sender].port

\* The ports that the SIG of a transmitter tells receivers of, two for a program.
AnnouncedPorts(t) == 4096 .. 4095 + 2 * Len(t.program_names)

Gcd[n \in Nat \X Nat] == IF n[2] = 0 THEN n[1] ELSE Gcd[<<n[2], n[1] % n[2]>>]
Reduced(r) == <<r[1] \div Gcd[r], r[2] \div Gcd[r]>>

\* Samples that leave a chain for every audio sample that went in.
Ratio(chain) == FoldLeft(LAMBDA r, s : Reduced(<<r[1] * s[1], r[2] * s[2]>>), <<1, 1>>, chain)
==============================================================================
