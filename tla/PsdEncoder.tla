------------------------------ MODULE PsdEncoder ------------------------------
(***************************************************************************)
(* The PSD encoder (lib/psd_encoder_impl.cc): titles, artists and LOT      *)
(* numbers arrive as lines on a TCP connection ("set_meta"), which cuts    *)
(* them into messages where it likes; work sends one PSD packet after the  *)
(* other, each holding the fields as they were when it was encoded, as far *)
(* as the bytes granted by the L1 encoder's clock allow.                   *)
(*                                                                         *)
(* A command is its field and the length of its text, and a field holds    *)
(* how much of which command's text was stored.  work is stepped byte by   *)
(* byte: the scheduler may ask it for as little as one.                    *)
(***************************************************************************)
EXTENDS Integers, Sequences, SequencesExt

CONSTANTS Commands,       \* commands a client may send: [field, id, text]
          BytesPerFrame,  \* bytes_per_frame, 0 for "no limit"
          IntMax,         \* INT_MAX
          PacketLen,      \* encoded length of a PSD packet
          SplitLines,     \* may a message end in the middle of a line?
          MaxCommands,    \* bound: commands on the wire at once
          MaxCredit       \* bound: bytes the clock grants ahead

Fields == {"title", "artist", "lot"}

ASSUME CommandsAssumption == Commands \subseteq [field : Fields, id : Nat, text : Nat]
ASSUME CreditAssumption ==
    /\ BytesPerFrame \in Nat /\ IntMax \in Nat /\ PacketLen \in Nat \ {0}
    /\ SplitLines \in BOOLEAN /\ MaxCommands \in Nat /\ MaxCredit \in Nat

VARIABLES wire,           \* external: commands sent and not yet wholly received
          meta_buffer,    \* characters of the first of them received so far
          meta,           \* title, artist and lot
          wanted,         \* history: what the client has asked them to be
          bytes_allowed,
          packet_off,     \* bytes of the current packet already sent
          on_air          \* the fields as encoded in the current packet

textvars == <<wire, meta_buffer, meta, wanted>>
bytevars == <<bytes_allowed, packet_off, on_air>>
vars == <<textvars, bytevars>>

Nothing == [id |-> 0, text |-> 0]

PrefixLen(c) == CASE c.field = "title"  -> 5
                  [] c.field = "artist" -> 6
                  [] c.field = "lot"    -> 3

\* A line without, and with, its newline.
LineLen(c) == PrefixLen(c) + c.text
WireLen(s) == FoldLeft(+, 0, [k \in DOMAIN s |-> LineLen(s[k]) + 1])

Init == /\ wire = << >>
        /\ meta_buffer = 0
        /\ meta = [f \in Fields |-> Nothing]
        /\ wanted = [f \in Fields |-> Nothing]
        /\ bytes_allowed = IF BytesPerFrame > 0 THEN 2 * BytesPerFrame ELSE IntMax
        /\ packet_off = PacketLen
        /\ on_air = [f \in Fields |-> Nothing]

\* External: a client sends a command.
SendCommand(c) ==
    /\ Len(wire) < MaxCommands
    /\ wire' = Append(wire, c)
    /\ UNCHANGED <<meta_buffer, meta, wanted, bytevars>>

\* Mutant: a carriage return is expected before the newline and cut off as well.
StoredWithoutCr(c, n) == IF n < PrefixLen(c) + 2 \/ n - PrefixLen(c) - 2 > c.text
                         THEN c.text
                         ELSE n - PrefixLen(c) - 2

\* line.substr(5, msg_len - 5): a negative count means the rest of the line.
Stored(c, n) == IF n < PrefixLen(c) \/ n - PrefixLen(c) > c.text
                THEN c.text
                ELSE n - PrefixLen(c)

\* The fields after the commands of s.
Updated(fields, s) ==
    FoldLeft(LAMBDA m, c : [m EXCEPT ![c.field] = [id |-> c.id, text |-> c.text]], fields, s)

(***************************************************************************)
(* set_meta: a message of n bytes.  It may complete several lines, and     *)
(* leave the beginning of another in meta_buffer.                          *)
(***************************************************************************)
SetMeta(n) ==
    \E done \in 0 .. Len(wire) :
        LET lines == SubSeq(wire, 1, done)
            rest  == SubSeq(wire, done + 1, Len(wire))
            left  == meta_buffer + n - WireLen(lines)
        IN /\ left >= 0
           /\ IF rest = << >> THEN left = 0 ELSE left <= LineLen(Head(rest))
           /\ SplitLines \/ left = 0
           /\ wire' = rest
           /\ meta_buffer' = left
           /\ meta' = Updated(meta, [k \in DOMAIN lines |->
                                         [lines[k] EXCEPT !.text = Stored(lines[k], n)]])
           /\ wanted' = Updated(wanted, lines)
           /\ UNCHANGED bytevars

\* handle_clock; without a limit it changes nothing.
HandleClock ==
    /\ BytesPerFrame > 0
    /\ bytes_allowed + BytesPerFrame <= MaxCredit
    /\ bytes_allowed' = bytes_allowed + BytesPerFrame
    /\ UNCHANGED <<textvars, packet_off, on_air>>

\* Mutant: the packet is encoded once and repeated.
RefreshedNever == on_air

\* What the packet that follows holds.
Refreshed == meta

MayWrite == bytes_allowed > 0

\* work, one byte of it.
SendByte ==
    /\ MayWrite
    /\ bytes_allowed' = bytes_allowed - 1
    /\ IF packet_off = PacketLen
       THEN packet_off' = 1 /\ on_air' = Refreshed
       ELSE packet_off' = packet_off + 1 /\ UNCHANGED on_air
    /\ UNCHANGED textvars

Next == \/ \E c \in Commands : SendCommand(c)
        \/ \E n \in 1 .. WireLen(wire) - meta_buffer : SetMeta(n)
        \/ HandleClock
        \/ SendByte

Spec == Init /\ [][Next]_vars

\* The L2 encoder keeps reading PSD, and the L1 encoder keeps ticking.
FairSpec == Spec /\ WF_vars(SendByte) /\ WF_vars(HandleClock)
------------------------------------------------------------------------------
Entries == [id : Nat, text : Nat]

TypeOK ==
    /\ wire \in Seq(Commands)
    /\ meta_buffer \in Nat
    /\ meta \in [Fields -> Entries] /\ wanted \in [Fields -> Entries]
    /\ bytes_allowed \in Nat
    /\ packet_off \in 0 .. PacketLen
    /\ on_air \in [Fields -> Entries]

(***************************************************************************)
(* Every field holds what the last complete command for it said, as        *)
(* README.md promises of titleExample Title and artistExample Artist.      *)
(***************************************************************************)
MetaAsSent == meta = wanted

(***************************************************************************)
(* New metadata gets on the air: a field that keeps its value is, from     *)
(* some packet on, transmitted with it, as long as the clock ticks.        *)
(***************************************************************************)
NewMetaOnAir ==
    \A f \in Fields, c \in Commands :
        (c.field = f /\ meta[f].id = c.id) ~> (on_air[f] = meta[f] \/ meta[f].id # c.id)
==============================================================================
