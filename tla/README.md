# TLA+ models of gr-nrsc5

gr-nrsc5 is a set of GNU Radio blocks that transmit HD Radio (NRSC-5). Audio, station
information, metadata and files go in at one end; OFDM symbols come out at the other. This
directory models the blocks' own logic in TLA+: how they queue, share, cut up, repeat and
pace what passes through them. TLC checks the models on small instances, and TLAPS proves
the central results for every value of the parameters.

Contents

1. The system: components, state, interactions
2. What is hard about it
3. The modules and how they correspond to the code
4. The runs, their bounds and what they show
5. Fairness
6. What is proved, and how
7. What the code does that its documentation does not say
8. What is not modelled
9. The plan

To run: `tlc -config FixedData.cfg FixedData.tla`, and in the same way for each line of the
table of section 4; `tlapm AasLoop_proofs.tla`, and in the same way for each `_proofs` module.


## 1. The system

Every block is a C++ or Python object in a thread of its own. Its stream side is `work`,
`general_work` and `forecast`: the scheduler calls them when the input that `forecast` asks
for and the room in the output are there. Its message side is a set of handlers; the thread
runs them between two calls of work, never inside one. Streams are bounded buffers, message
queues are not bounded for our purposes.

```
 audio --> HDC encoder --(ADTS packets)--+
                                         v
 set_meta --> PSD encoder --(bytes)--> Layer 2 encoder --(P1..P4 PDUs)--> Layer 1 encoder --> symbols
                 ^                       ^      |                            ^        |
                 |                   aas |      | ready                      |        |
                 |              SIG, LOT encoders                            |        |
                 |                  ^                                        |        |
 command ------> | ---------> SIS encoder ----------------(PIDS blocks)------+        |
                 +--------------------+------------------------ clock ----------------+
```

| Component | Source | State it keeps | Operations | Correct if |
|---|---|---|---|---|
| Layer 2, fixed data | `lib/l2_encoder_impl.cc` 273-330, 469-506 | a byte queue per AAS port, whose turn it is, place in the block of 4 + 255 bytes, program types | `handle_aas_pdu`; the byte loop of `general_work`; publishes `ready` | PDUs leave whole and in order, ports take turns, none starves |
| Layer 2, audio | same, 117-252 | per program: rest of a split packet, sequence numbers | `forecast`, `general_work` | every packet arrives whole and once, sections do not run into each other, the transport keeps up |
| Layer 2, layout | same, 184-230, 254-271, 332-345, 356-460 | CCC place, PDU number | control word, locators, HEF, `header_spread` | a PDU is full to the bit, with the whole header; a receiver can take the header apart |
| SIG records | `lib/sis_encoder_impl.cc` 735-860, `lib/l2_encoder_impl.cc` 485-506 | program types | `generate_sig`, `decode_sig` | layer 2 has each program's type |
| SIG sender | `lib/sis_encoder_impl.cc` 873-960 | sequence number | `send_sig`, `handle_notify` | is asked again and again |
| LOT encoder | `python/lot_encoder.py` | the parts of its file, sequence number, command buffer | `start`, `send`, `handle_notify`, `handle_new_file` | its file goes round; a new file is sent |
| PSD encoder | `lib/psd_encoder_impl.cc` | title, artist, LOT number, line buffer, packet being sent, credit | `set_meta`, `handle_clock`, `work` | fields are stored as sent and get on the air; no more than the credit is written |
| SIS encoder | `lib/sis_encoder_impl.cc` | current frame of each text, alert with its number, credit, command buffer | `work`, `handle_clock`, `handle_command` | texts go out whole, items go round, alerts are never mixed |
| Layer 1 FM | `lib/l1_fm_encoder_impl.cc` | ring of P1 PDUs for P1', interleaver IV's memories and half | `forecast`, `general_work`; publishes `clock` | channels in step, backups three frames later, no bit lost |
| Layer 1 AM | `lib/l1_am_encoder_impl.cc` | coded bits, diversity delay lines | same | same |
| HDC encoder | `lib/hdc_encoder_impl.cc` | encoded bytes that found no room | `forecast`, `general_work` | a byte stream without gaps, no call in vain |
| HDLC | `lib/hdlc.cc` | none | `hdlc_encode` | no flag inside a frame, the PDU comes back |
| AM pulse shaper | `lib/am_pulse_shaper_impl.cc` | filter tail | `work` | 270 samples for 256 points |
| Client scripts | `apps/send_alert.py`, `apps/send_album_art.py` | none | build and send a command | the encoder accepts and a receiver can read what they send |
| Flowgraphs | `apps/hd_tx_*` | none | wiring | senders are answered, rates agree, nothing waits for ever |
| Docstring extraction | `docs/doxygen/` | the trees of the index and of a compound's XML | `build`, `retrieve_data`, scrape, `export` | each docstring has its own texts, once |
| GRC blocks, bindings, tests | `grc/`, `python/bindings/`, `python/qa_*` | none | | |

Interactions worth naming:

* **aas and ready.** A sender publishes the PDUs of its whole file and then stays silent until
  layer 2 says `ready` for its port, which it does when a closing flag empties the port's
  queue. Nothing times out: the loop lives on what is in flight.
* **clock.** Layer 1 publishes one `clock` for each frame encoded. SIS and PSD turn it into
  credit and write nothing without credit. Layer 1 waits for SIS and layer 2, layer 2 for PSD:
  a cycle that runs on the credit it starts with, two frames.
* **set_meta, command, file.** Lines that arrive by TCP, in messages cut anywhere. All clients of a
  socket share one buffer.


## 2. What is hard about it

Few of these are within reach of the unit tests, which compare output bytes of one block
called alone.

* *Interleavings:* PDUs and commands that arrive between any two calls of work, while a PDU, a
  packet or an alert is half sent.
* *Silence:* every wake-up (`ready`, `clock`) is sent once. Lost, it stops a port or the
  station for good.
* *State across calls:* a split packet, the place in a block, a ring offset, a memory half. One
  wrong value is repeated for ever, and only a receiver would notice.
* *Arithmetic at the edge:* how many frames a text has against where they cut it, two-bit
  sequence numbers, modular interleavers that never clear their matrix.
* *Several frames in a call:* the scheduler decides how many frames layer 1 encodes at once.
* *Failure halfway:* a command that raises an exception, a file that is not there yet, a client that
  breaks off in the middle of a line.
* *Tables and wires:* the numbers in `header_spread`, resampler ratios, message wires between a dozen
  blocks, and the generated classes of the documentation's XML reader. An error in one of them is
  no error at run time; something is just missing.

`PROJECT.json` lists these hazards line by line, with the properties aimed at each. There is no
persistence and no network between the blocks, so crashes and lost messages do not occur there; TCP
connections to clients do break, and `LotEncoder` has them break.


## 3. The modules

| Module | Models | Uses |
|---|---|---|
| `AasMux` | abstract: one PDU at a time, each port first in first out, nobody passed over twice | |
| `FixedData` | `handle_aas_pdu` and the byte loop of `general_work` | refines `AasMux` |
| `AasLoop` | LOT and SIG senders around `FixedData` | EXTENDS `FixedData` |
| `LotEncoder` | `handle_new_file` with its buffer, clients, connections, files | |
| `PacketPipe` | abstract: packets arrive whole, once, in order | |
| `AudioTransport` | the packet loop of `general_work` | refines `PacketPipe` |
| `HeaderSpread` | the layout of a PDU | |
| `Hdlc` | `hdlc_encode` and a receiver that undoes it | |
| `PduHeader` | control word, locators and HEF of a program, and a receiver that reads them | |
| `SigCodec` | the records of `generate_sig`, read by `decode_sig` | |
| `Layer2` | one of the last five | EXTENDS `AudioTransport`, INSTANCEs the others |
| `PsdEncoder` | the PSD encoder | |
| `HdcEncoder` | the HDC encoder's buffer and `forecast` | |
| `Programs` | one of the two inputs of a program | EXTENDS `PsdEncoder`, INSTANCEs `HdcEncoder` |
| `SisFrames` | operators: how each text is cut into frames | |
| `SisText` | one text going round | EXTENDS `SisFrames` |
| `SisEncoder` | schedules, item counters, alerts, clock | EXTENDS `SisFrames` |
| `SendAlert` | control data of `send_alert.py` | |
| `Sis` | one of the last three | EXTENDS the encoder and the text, INSTANCEs `SendAlert` |
| `FrameStream` | abstract: PDUs in order, backup three frames later | |
| `L1Fm`, `L1Am` | the frame loops of layer 1 | refine `FrameStream` |
| `FmInterleavers`, `AmInterleavers` | where each bit goes, and the filling of a matrix | |
| `Interleavers` | both of them as one state machine | INSTANCEs both |
| `Layer1` | one of the two encoders, or one matrix | EXTENDS `L1Fm`, INSTANCEs the others |
| `ClockLoop` | SIS, PSD, HDC, both layer 2 encoders, layer 1 and the clock at the scale of frames | |
| `Flowgraphs` | the six transmitters of `apps/`: parameters, message wires, signal chains | |
| `Transmitter` | the clock loop of each of them | EXTENDS `ClockLoop`, `Flowgraphs` |
| `DoxyClasses` | operators: the classes that doxygen's XML is read into | |
| `DoxyXml` | reading a document, making docstrings of its compound, writing it again | EXTENDS `DoxyClasses` |

`MC<Module>` gives constants their values where a .cfg alone cannot. `<Module>_proofs` holds theorems. The
operators whose comment says *Mutant* are wrong variants of the definition that follows them; they are not
used, and are there to try that the properties notice.

`Layer2`, `Programs`, `Sis` and `Layer1` put parts side by side that share no state in the code either. A
behaviour of theirs is of one part, named by a variable (`part`, `input`, `band`); the others stay
at one initial state. So their state spaces add up instead of multiplying, and no interleaving is
lost, because there is none. The parts that do interact are composed for real: senders and
subchannel in `AasLoop`, everything that the clock connects in `ClockLoop`.

**FixedData.** `slot = 0` is the time between two calls of `general_work`, when handlers run;
otherwise `slot` numbers the byte being written. `StartPdu` is the setup of lines 273-291,
`SendMarker`, `SendFiller`, `SendByte` and `SendFlag` are the branches of lines 296-327, and each
includes the advance of `aas_block_offset` (line 328). A PDU is its encoded length. That no flag
occurs inside a PDU is what `hdlc_encode` is for; `Hdlc` shows it. `bypass` is a history variable.

**AasLoop** adds the senders. `Publish` is one `message_port_pub` of `send`, so that layer 2 may
already take the first part of a file while the second is not yet published, and `ready` may
come early: a file is then sent twice in a row, which the model contains. `FlagAndNotify` is
`SendFlag` with line 317. `HandleNewFile` has the effect of a command that `handle_new_file` carries out
(`prepare_file`), which is `Take` in `LotEncoder`; the command buffer in front of it is left to that module.

**LotEncoder.** A command is a sequence of units: its text, its newline and, if a file is streamed, two units
of data, of which the first may be a newline. `Deliver` is a
message of `socket_pdu` with the whole of `handle_new_file`. `Raise` is an exception in it, out of
`open`, `prepare_file` or `int`, for a streamed file (`barred`) as for one named: `command_buffer` keeps what came, because it is cut only afterwards. Whether
the thread survives depends on the version of GNU Radio, so `alive'` is free. A line mixed of two clients'
units is no command, or raises; that it should name a file by chance is left out. Texts are not
cut within, as a text that comes in halves is the same as one that comes late.

**AudioTransport.** One pass of the scan loop (lines 155-182) is a step, and so is the writing of
a section (184-251). Packets are lengths; `due` is `target_seq_no - start_seq_no`. `rx` and `got`
are what a receiver makes of the sections, by the control word's first and last flags. `saved`
limits the encoder to a constant mean rate with a reservoir.

**HeaderSpread, Hdlc.** The first lays out one payload byte in a step, at the sizes of the code, and
counts the bits. The second encodes one byte in a step; the FCS is two bytes of any value.

**PduHeader.** A section is what `general_work` knows when it writes one: how many packets, how long the first is and
how long the others are, program, type, numbers. Steps are the control word, one locator each, and the HEF, in
the code's order, into bytes that are truncated as an `unsigned char` is. What a receiver makes of
the bytes is external.

**SigCodec.** `Sig` is the whole SIG as bytes, for any names; the hashes of MIME types, which
`decode_sig` must step over, are bytes that look like records. A step is a record read by `decode_sig`.

**PsdEncoder.** A command is a field and a length. `SetMeta(n)` is a message of `n` bytes, which may
end several lines and leave the start of another in `meta_buffer`. `Stored` is the `substr` of
lines 200-205. `SendByte` is one byte of `work`; a new packet takes the fields as they then are.

**HdcEncoder.** A call of `general_work` is `Call`, in which the scheduler chooses the number of bytes it asks
for, bound by what `forecast` says and the samples there are, then a `CopyPart`, `CopyLast` or
`CopyAndEncode` for each pass of the loop, and `Full`. Bytes are numbered in the order the codec makes
them; a frame has any length of `FrameBytes`, above or below the mean that `forecast` assumes.

**SisFrames, SisText.** Number of frames, first character and number of characters of each frame,
for the five kinds of text, and the widths of the header fields. `SisText` sends a text round
and collects what was sent.

**SisEncoder.** The eight schedules of `sis_encoder_impl.h` as sequences. `block` is the block that
`work` writes next; commands and the clock are handled while it is 0. `WriteBlock` advances the
counter of each payload. The receiver (`heard`) collects alert frames and starts again when the
sequence number changes; it is external. `unseen` counts alerts set since a block of an alert
was last sent.

**SendAlert.** A location is the digits of its code that matter to the script: first, middle and last.
`AddLocation` is a pass of the loop, which shortens a location whose middle digits are its
predecessor's, and `Expanded` is the receiver's way back, which is external.

**L1Fm, L1Am.** A PDU is its number, modulo the numbers of `Frames` frames. `StartCall` chooses how
many frames the call encodes, `EncodeFrame` is one pass of the loop, `EndCall` consumes. In `L1Fm`
`px1_internal` holds what interleaver IV's memory holds of which frame: bits ahead of the reader
in the current half are sent at once, bits in the other half in the next frame, bits behind the
reader two frames later. Memory from `malloc` holds `Uninit`. In `L1Am` `p1_g` is twice as long as
the code's, because the code writes past its own end when a call has two frames (section 7).

**Interleavers.** A job is one block of one partition (FM I and II), one partition of the memory
(FM IV) or one block of one matrix (AM). Its actions compute the places of all of its bits, by
the code's formulas.

**ClockLoop, Flowgraphs, Transmitter.** Counts only: credit, PIDS blocks, HDC frames, PSD bytes, PDUs and
clock messages in each queue. A step is a call of work, one byte of PSD, one frame of layer 1, or one handled
message. `Flowgraphs` is what the six scripts say, transmitter by transmitter: what
their encoders are constructed with, who sends messages to whom, and by which ratios each signal is
resampled. `Transmitter` derives from that the station that `ClockLoop` runs.

**DoxyClasses, DoxyXml.** Each generated class that can be reached from the root of a compound's document (41),
or of the index (3), has three definitions: what its constructor leaves, what `build` makes of attributes,
child elements and text, and what `export` writes. A behaviour of `DoxyXml` builds a document, node after node
in its order (`BuildChild`, `BuildText`, and `RetrieveData` from the index to a compound), runs the
scrape of `update_pydoc.py` on it (`Scrape`), and has both roots written (`Export`). The document is a
tree, because what the code makes of an element depends on its siblings: `process_memberdefs` keeps the first
member of each name, `set_parameters` looks for lists in the paragraphs of the detailed description only,
`DoxyParameterItem` takes the first of an item's names, and `DoxyFunction` shows declared parameters only if
none is described. `TextShownOnce` says so too, in terms of the document and
without the classes' fields: which prose, in sections of any depth, belongs to whose docstring, in which order.
Texts are told apart by their place; names and kinds of members are labels of a node.


## 4. The runs

| Run | Module, configuration | Shows | States |
|---|---|---|---|
| `fixed_data` | `FixedData` | three ports: PDUs unbroken, fair turns, refinement of `AasMux` with its fairness | 145 625 |
| `aas_loop` | `MCAasLoop` | a LOT and the SIG sender: never silent, one ticket for single-part files, carousel, a new file is sent | 34 716 |
| `layer2` | `MCLayer2` | two programs: no overrun, every packet whole and once, the transport keeps up; PDUs of all sizes are full; framed PDUs come back; a header can be read by a receiver, the SIG by layer 2 | 262 423 |
| `programs` | `MCPrograms` | metadata stored as sent and on the air; HDC frames in order, no call in vain | 96 155 |
| `psd_split_line` | `MCPrograms`, `MCPrograms_split.cfg` | a line cut by TCP is stored short: violated, section 7 | |
| `sis` | `MCSis` | alerts set, replaced and cleared in all schedules: in range, never mixed, received; all items go round; each text of each length is sent whole, once, with headers that fit; locations can be read back | 168 001 |
| `alert_locations` | `MCSendAlert` | 31 locations do not fit an alert: violated, section 7 | |
| `layer1` | `MCLayer1` | six FM service modes with one to three frames a call, MA1 and MA3 with and without P3: channels in step, spreading, backups; every matrix at its real size: each place written exactly once | 2 246 |
| `l1_am_two_frames` | `L1Am`, `L1Am_two.cfg` | two frames a call: violated, section 7 | |
| `clock_loop` | `MCClockLoop` | six transmitters: never more than two frames ahead, no deadlock, frames for ever; senders answered, on ports that the SIG announces; one pace | 249 536 |
| `lot` | `LotEncoder` | two clients, messages cut anywhere, missing and refused files, broken connections: in order, nothing lost | 5 491 347 |
| `docs` | `DoxyXml` | each docstring has its own texts, once and in order; `export` writes what `build` keeps, but for what section 7 names | 350 100 |

Bounds, and why they are enough:

* `fixed_data`: a block of one marker byte and two data bytes, two subchannel bytes in an L2 PDU,
  PDUs of two and three bytes. The lengths are prime to each other, so that markers and
  boundaries of work fall at every place of a PDU. Three ports are the fewest that tell round
  robin from taking turns with one other. `MaxQueue` = 2 lets a queue be emptied or not by a flag.
* `aas_loop`: two ports, files of one and two parts, PDUs of two bytes. At most two `ready` messages
  and two PDUs wait for one sender. Files have at least one part (see section 7).
* `layer2`, audio: sizes scaled down, with locators of 12 bits, so that `len_locators` still
  alternates. Packets from 1 to 7 bytes in a section of 30; the second program has to split
  when the first leaves it little. `due` saturates at 6, above the limit of 2 (8 in the code). Layout: the nine
  sizes of PDUs that the encoder knows, real. HDLC: PDUs of up to three bytes and two of FCS, each a flag, an
  escape, what one of these is changed to, or none of them. Headers: locators of 12 bits with packets of any
length up to 90, and of 16 bits around the powers of two, with none to eight packets more than are due in a PDU
(4 or 32): more would contradict `KeepsUp`. SIG: up to three programs, with names that are empty, ordinary,
made of record tags, or 253 bytes long.
* `programs`: packets of three bytes and a credit of two bytes a frame, so that packets end inside
  frames; two commands on the wire at a time. HDC: frames of one and four bytes, for a mean of three,
  and rooms for five, so that a call may take none, a part or several of them.
* `sis`, encoder: texts of two frames each, two services, three of the thirteen parameters, so that
  the counters differ in period; alerts of two and three frames, and two that must be refused. `MaxUnseen`
  = 3 is a real limit of the two-bit number, not a convenience: with four alerts between two
  alert blocks `AlertUnmixed` fails. Texts: lengths 0 to 192 cover each boundary of each text, the
  longest being 190; alerts with 0 to 65 control bytes and messages around 0, 318 and 374, where the
  total reaches 381. Client: digits at both ends of their ranges, any number of locations up to 31.
* `layer1`: PDUs numbered modulo five (FM) and eleven (AM) frames, more than any PDU
  stays in the encoder; up to three frames in a call for FM, one for AM (see section 7). Matrices have
  their real sizes, without a bound.
* `clock_loop`: frames of 16 blocks and eight PDUs in FM and of eight blocks in AM, four grains of PSD to a
  PDU, which scales the credit in proportion; a buffer of 15 PDUs between layer 2 and layer 1 (16 items less
  one, as GNU Radio's buffers hold), and the smallest ones elsewhere.
* `lot`: three commands of six kinds by two clients, who are symmetric, one connection that breaks. Three are enough for one that
  is stuck, one behind it, and one between.
* `docs`: documents without branches have up to 14 nodes, ten of them below a class's `compounddef`, and any
  element of any class: a text linked in a parameter's name, or in the fourth of nested sections of a
  function, is that deep; what can nest without end does so in ways that repeat. Branches grow by up to five
  nodes from several beginnings (an empty compound of each kind, a paragraph, a named parameter in a
  class, a block, a named parameter of a block's `make`), out of the elements named in `Words`. That is
  enough for two overloads of which one has a text, two parameters with a name, a second name with a text,
  a declared parameter beside a described one, a parameter without a name, and text around a link.

`lot` and `docs` end when all commands are sent and when a text is exported, and `send_alert.py` ends, so
deadlock is not checked in these three runs.


## 5. Fairness

GNU Radio runs each block's thread as long as it has work, so weak fairness of work, of a sender's
steps and of each thread of `ClockLoop` is what the scheduler gives.

`HandleAas` in `AasLoop` and `HandleClock` in `SisEncoder` have strong fairness: handlers are disabled inside
work, again and again, but the thread empties its message queues between any two calls. In
`SisEncoder` the clock's fairness is an assumption on layer 1; `ClockLoop` shows it, from weak fairness
only, for the loop as a whole. In `PsdEncoder`, whose `work` is stepped byte by byte, nothing but
its bound disables `HandleClock`, and weak fairness is enough. `Programs` and `Sis` take the fairness of their
parts over; the parts that a behaviour is not of owe nothing.
Clients are under no obligation: `SendCommand`, `SetAlert`, `ClearAlert` and `HandleNewFile` have none.


## 6. What is proved

All for arbitrary constants that satisfy the named assumptions of the modules. A condition beyond those is
part of the theorem and named in the table.

| Theorem | States |
|---|---|
| `AasLoop_proofs!Invariance`, `Contiguous`, `FairRoundRobin` | `FixedData`: the inductive invariant; PDUs unbroken; nobody passed over twice |
| `AasLoop_proofs!Refinement` | the byte loop implements `AasMux` (safety part) |
| `AasLoop_proofs!WakeupNeverLost`, `SingleTicket` | no port falls silent; single-part senders have one message in flight |
| `AasLoop_proofs!LoopImplementsFixedData` | composing the senders adds no behaviour to `FixedData` |
| `LotEncoder_proofs!CommandsInOrder` | commands that come one after another are acted on in that order, each once and with its own data, or are held: for any commands, cuts and exceptions |
| `LotEncoder_proofs!WaitsOnlyBehind` | unless a command raises, no whole command waits but those that came in one message with others |
| `LotEncoder_proofs!LossesBounded` | clients that talk at the same time or break off cost no more commands than there were joins, as long as no file is streamed |
| `Layer2_proofs!SectionsImplementPipe` | the audio transport implements `PacketPipe`, for any programs, packets and capacity |
| `Layer2_proofs!RoomSuffices`, `OneProgramStays` | no section runs out of its PDU: if each starts with room for its overhead and the rest of a packet (`RoomForRest`); with one program, if a PDU has room for one packet |
| `Layer2_proofs!OneProgramKeepsUp` | one program never falls behind by more than `LagLimit` packets, whatever their lengths and wherever they are split, if its mean bit rate fits (`RateFits`) |
| `Layer2_proofs!AlwaysFramedWhole` | `hdlc_encode` can be undone and has one flag, for any bytes and length |
| `Layer2_proofs!HeaderAlwaysRead` | a receiver reads from every header what went in, if the packets end where a locator can say (`Fits`) |
| `Layer2_proofs!GuideAlwaysRead` | layer 2 reads from the SIG the type of each program, for any names and types of up to eight programs |
| `Layer2_proofs!PduAlwaysFilled` | `header_spread` fills a PDU to the bit with the whole header in it, at every size that is 0, 6 or 7 modulo 8 and at least 312 (`SizesFit`) |
| `Programs_proofs!MetaAlwaysAsSent` | fields as the last command for each said, if messages end with a line (`SplitLines = FALSE`) |
| `Programs_proofs!BytesAlwaysInOrder`, `CallsAlwaysWork` | the HDC encoder's bytes in order and whole; a call that `forecast` admits does something; for frames of any length and any buffers |
| `Sis_proofs!TextsWhole`, `EachOnce`, `WholeAndOnce`, `HeadersAlwaysFit` | for texts of any length |
| `Sis_proofs!TypeCorrect`, `AlwaysInRange`, `NeverMixed` | for any texts, alerts and numbers of services |
| `Sis_proofs!LocationsAlwaysRecovered` | for any locations, in any number |
| `Layer1_proofs!Layer1InStep`, `Layer1Spread` | channels in step; PX1 and PX2 over three frames; for any frames in a call |
| `Layer1_proofs!FmImplementsStream`, `AmImplementsStreamIfOne` | P1 in order and again three frames later; in AM, if a call encodes one frame (`AmMaxFrames = 1`) |
| `ClockLoop_proofs!LatencyBounded`, `NoDeadlock` | for any frame sizes, PSD sizes, buffers of at least a frame, frames per call |

How the arguments go:

* **FixedData.** Being passed over at most once is not inductive: nothing in it says when a port's
  turn will come. `BypassOrder` adds where the turn is: a port `q` that `p` has overtaken while it
  waited is met before `p`, going up from the current port and round. Then `p` cannot get the
  subchannel before `q`, which resets the count. `MetBefore` is that circular order, and the lemmas
  about it are the core of the proof. `ServedClear` and `PduContiguous` carry it across the bytes of
  a PDU. The refinement maps a PDU's first byte to `Begin` and its flag to `Finish`; all other
  steps of the loop stutter.
* **AasLoop.** The invariant counts tickets: `ready` messages, parts to be published, PDUs in the
  message queue and in the byte queue. A `ready` that is used up turns into as many parts as the file has,
  which is why files must have one; the flag that takes the last PDU makes a `ready`.
* **Layer 2, audio.** `AudioIInv` says what the scan knows of the queues (`ScanInv`: the packets it
  counted are there, and only the last may be split), what a split leaves (`RestInv`: what the receiver
  has and what is still to be sent are the packet), and that the bytes it counted are those the write
  loop will write (`RoomInv`). The last one is what makes the code's two loops agree; it is an equation of
  sums over the section's packets, `len_locators` included, which jumps by one byte or two. From it a section
  that starts with `RoomForRest` ends in the PDU. Whether it starts so depends on the other programs' bit
  rates; TLC finds that it does for the two of `MCLayer2`, and for one program it is proved.
  In the refinement, `WriteSection` delivers as many packets as end in the section.
* **Layer 2, keeping up.** `due` alone is no measure of how far the transport is behind: a reservoir lets long
  packets come in a row. `Behind` adds up the packets due at their mean, the rest of a split one, and what the
  encoder had saved before the first packet in the buffer, which those behind it may be longer by. `Levels` is that
  saving along the buffer: it falls by as much as a packet is longer than the mean. Between PDUs `Behind` is at most
  one packet and a reservoir, whatever the lengths (`KeepIInv`). A PDU adds `TargetNop` packets to it and takes what its
  section carries (`Taken`), and the scan stops for one of three reasons (`Stopped`): no packet is
  due, and `due` itself is low; the PDU is full, and carries more than was added, by the second condition of
  `RateFits`; or the buffer is empty, and carries as much as `forecast` asked for, which is the third. Sizes are in
  eighths of a byte, as a locator may be of one byte and a half.
* **LOT encoder.** `OrderIInv` says what `command_buffer` is: the units of the commands that have arrived and not been
  acted on, one after another, up to the place `last` in the last of them (`Held`). A message appends to it; a cut takes
  exactly the first command, for its first newline is its own, and its length says how many bytes of data
  follow, newlines or not. `WaitsOnlyBehind` follows as each message acts on one command of those it completes.
  For `LossesBounded`, `WireIInv` says that each command on a wire begins there or has arrived in part, and that only
  a broken one lacks its newline; `LossIInv` counts the gaps in the buffer, where a unit does not go with the one
  before, and the whole commands of which nothing is left: together they are never more than the joins. A cut
  at a newline acts on a command whose two units stand together, or it takes a gap away for the command that it loses.
* **HDLC.** What a receiver has made of `out` is the bytes of `in` encoded so far. `Unstuffed` is a
  recursive function; that it exists and is unique is `ReceiverUnique`, and that it goes over what
  is appended, `ReceiverStep`.
* **PduHeader.** `HeaderIInv` has one conjunct for each field already written, and `Locators12` says
  of the byte that two locators share that its upper half is clear as long as only the first is there:
  `write_locator` adds to it. No field reaches into another's bytes (`PutFacts`), for any number of
  packets. `Fits` bounds the ends to 12 or 16 bits; `SectionsAssumption` leaves 6 bits for their number.
* **SigCodec.** `SigIInv` says where `decode_sig` is: at a record of a program `k`, of which `AtRecord` lists the places, with
  the types of the programs before. `FlattenAt` finds program `k` in the SIG from the lengths of those before
  it, so the byte at each place is known without writing the SIG out, and a hash is stepped over for its length
  in the record before it.
* **HeaderSpread.** `Laid` says of every bit written that each header bit stands where it is due, that none was
  put earlier and none is overdue. `SizeFacts` then shows that the last one is due before the payload ends, because
  the distance is what is left behind bit 120 divided by the number of header bits, or at large sizes the header
  begins 30000 bits before the end; and that both together make up the size.
* **PsdEncoder.** `PsdIInv` adds to `MetaAsSent` that nothing is left in the line buffer between two
  messages, as each ends with a line. So a message is whole commands, and `set_meta` stores each as it was sent.
  `WireLen`, a fold, is the sum of the lines' lengths.
* **HdcEncoder.** `BytesFollow` says that the bytes in layer 2's buffer, in `out` and in `outbuf` and of the
  frame in the codec are consecutive; `CallIInv`, that a call finds room or samples. The numbers are modulo
  `Window`, which holds more than can be under way.
* **SisText.** `SentSoFar` says that what has been sent is exactly the characters before the next
  frame's first. The lemmas about `SisFrames`: chunks continue each other, stay in
  the text, and the last one ends it.
* **SendAlert.** The location the receiver expanded last is the client's last one, and every field has bits
  enough for the digits it takes (`FieldsSuffice`); so a location that shares its middle digits with the one
  before comes back.
* **SisEncoder.** `IInv` says that each counter is below its period, which depends on the alert, and that
  a standing alert was accepted. For `NeverMixed`, `HeardInv` ties the receiver to the encoder: the
  encoder's number is the receiver's plus `unseen`, modulo four, and if `unseen` is 0 then what the
  receiver has is of the standing alert. It needs `MaxUnseen` to be at most 3.
* **Layer 1.** `FmIInv` says of the ring which of the last three frames' PDUs each place holds, and of
  interleaver IV's memory which frames its two halves are of, both as a function of the frame's number; and
  that every port has read as far as its rate times that number. A frame moves all of it by one, and where calls
  begin and end does not matter. In `AmIInv` the same for the delay lines. Frames are numbered modulo `Frames`, which must exceed the delay (`BoundsAssumption`,
  `AmBoundsAssumption`), so that numbers that are equal are equal frames.
* **ClockLoop.** Two conservation laws, `PidsConserved` and `PsdConserved`: credit, clocks
  under way, and what was written and not consumed always add up to two frames. So layer 1 is
  never further than that behind; and if nobody could work, all of it would be in front of
  layer 1, which then could. `NoDeadlock` needs `LimitAssumption` (the limit README.md gives for the PSD encoder) and
  `CapacityAssumption` (what `set_min_output_buffer(0, 16)` is there for).

* **Where the theorems are checked.** Each of them names a property of a run, except the
  invariants, which are there to be built on, `Refinement` and `LoopImplementsFixedData`. `Sis` and `Transmitter` extend the
  modules the theorems are about; `AasLoop`'s own theorem carries `FixedData`'s over to the loop.
  `NumberTheorems` has what several proofs need: numbers modulo `m`, sums over sequences, and sequences put
  end to end (`FlattenSeq`): how long they are, and which part a place is in.
* **Induction.** The provers cannot instantiate induction over an operator, but `SetInduction` is about a set:
  the numbers for which something holds. Sums are `FoldLeft`, which is shown to be the function that its
  definition chooses (`IterExists`, `SumUnique`), and other recursion is by functions.

Only model-checked:

* all liveness (`Carousel`, `NewFileSent`, `NewMetaOnAir`, `AlertReceived`, `EncoderGoesRound`, `FramesForEver`)
  and the fair half of the refinement of `AasMux`, because the prover handles neither fairness nor ENABLED;
* `KeepsUp` with several programs, where one program's reservoir takes room from the next, and `NoOverrun` with
  several, as far as `RoomForRest` does;
* `EveryBitPlaced`, `OnePace` and `AasAnswered`, which are about tables of the code and have no parameter to
  generalise: the runs go through all there is;
* `TextShownOnce` and `NothingDropped`, for ways of up to 13 elements.


## 7. What the code does that its documentation does not say

* **A metadata line cut by TCP is stored short** (`psd_encoder_impl.cc` 200-205, run `psd_split_line`).
  The text is cut to the length of the last message, not of the line.
* **Layer 1 AM with two frames in a call** (`l1_am_encoder_impl.cc` 146, run `l1_am_two_frames`). `p1_off` counts
  the call's PDUs but also addresses `p1_g`, which has room for one frame. With GNU Radio's default
  output buffer, twice the output multiple, a call has one frame, and run `layer1` is about that.
* **31 locations are too many for an alert** (`send_alert.py` 53, run `alert_locations`). The script takes up to
  31, but the SIS encoder takes 63 bytes of control data, which 22 full SAME codes already exceed. The
  encoder logs the refusal; the script has closed its connection and reports nothing.
* **A second command in a message waits** (`lot_encoder.py` 53): one is carried out, the next stays in
  `command_buffer` until another message comes. `NothingWaits` says that nothing else waits.
* **A missing LOT file blocks the queue** (`lot_encoder.py` 69), and so does a streamed one of no known type
  (118) or with a lot_id or size that is no number (59, 60). The exception leaves the command in
  `command_buffer`, and each message tries it again. `NothingLost`, a part of `InOrder`, says that what is behind it is kept.
* **`export` of the documentation's classes** writes the title of a class as the name of its object and drops what
  a paragraph has beside its text (`NothingDropped` excepts both); it also formats encoded
  bytes, which under Python 3 is no XML. No code calls it.
* **Docstrings that are never made**: a parameter item without a name (`doxyindex.py` 152) ends the whole
  program, and so does a header or namespace whose XML cannot be read, because `DoxyFile` and `DoxyNamespace` ask for its
  descriptions before they look at `_error` (197, 220). A class that cannot be read costs only its own docstrings.
  A second name of an item and overloads but the first of a name are not shown. `TextShownOnce` says all of this.
* **An empty LOT file** (`lot_encoder.py` 134) publishes nothing, so that its port is never asked again.
  `aas_loop` leaves empty files out; with 0 among `FileParts`, `NewFileSent` fails.
* **Without a limit the PSD encoder stops** (`psd_encoder_impl.cc` 54, 184) after 2^31 - 1 bytes. With
  `BytesPerFrame` = 0, `NewMetaOnAir` fails; run `programs` has a limit.
* **Without a clock the SIS encoder stops after two frames** (`sis_encoder_impl.cc` 113, 177), and
  `python/qa_sis_encoder.py` reads 16 frames from one that has no clock. `Clocked` = FALSE is that case.
* **A program's name of 254 characters or more** (`sis_encoder_impl.cc` 780) has a length that wraps in its byte, and
  `decode_sig` would go on in the middle of the name. `NamesAssumption` excludes it.
* A station without any service divides by zero in `write_service_information_message` (`sis_encoder_impl.cc` 558);
  `CountsAssumption` excludes it.


## 8. What is not modelled

* Contents that decide nothing: ALFN and clock time, CRCs, Reed-Solomon, ID3 tags, the CCC,
  character encodings. A change of them changes no step of a model.
* Scrambling, convolutional codes, constellations, OFDM carriers and the pulse shaper's filter: functions of
  bits or floating point without state that matters here.
* The codec (an external library) and its errors, which throw.
* Sockets, files and sound cards, filters and gains of the flowgraphs.
* Of the documentation's tools: old-style blocks, whose `make` is outside of their class, and with them the description of a
  file; groups; the values of XML attributes; classes that `build` cannot reach, and markup that it does not know and skips;
  `exportLiteral`, getters and setters; the layout of texts; and the substitution into the pydoc headers. Doxygen writes both
  descriptions of every object, so one that a document of the model has not stands for an empty one.
* GRC blocks, Python bindings, tests and build files, which keep no state.
* FM modes that the encoder does not implement, and secondary channels.


## 9. The plan

Done: `AasMux`, `FixedData`, `AasLoop`, the only closed message loop of the data services, and
`LotEncoder` in front of it; `PacketPipe`, `AudioTransport`, `HeaderSpread`, `Hdlc`,
`PduHeader`, `SigCodec`; `PsdEncoder`, `HdcEncoder`;
`SisFrames`, `SisText`, `SisEncoder`, `SendAlert`; `FrameStream`, `L1Fm`, `L1Am`, the interleavers; `ClockLoop` with the
six `Flowgraphs`; `DoxyXml`.

Proofs to come: `KeepsUp` for several programs, from the sum of their `Behind`, and with it `RoomForRest`.

Modules to come: layer 2's CCC; the carriers of layer 1, that no partition is put on a carrier twice. `SisEncoder` and `PsdEncoder` as parts of
`ClockLoop`, shown to implement it.
