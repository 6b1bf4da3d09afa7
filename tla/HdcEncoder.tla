------------------------------ MODULE HdcEncoder ------------------------------
(***************************************************************************)
(* The HDC encoder (lib/hdc_encoder_impl.cc) turns frames of samples into  *)
(* frames of bytes of varying length.  The scheduler asks it for a number  *)
(* of bytes that has nothing to do with frames: what does not fit waits in *)
(* outbuf for the next call, and forecast tells the scheduler how many     *)
(* samples that call will need, assuming frames of mean length.            *)
(*                                                                         *)
(* Bytes are numbered in the order the codec produces them, modulo Window. *)
(***************************************************************************)
EXTENDS Integers, Sequences, SequencesExt

CONSTANTS Channels,       \* number of input streams, one or two
          FrameLength,    \* frame_length = SAMPLES_PER_FRAME
          BytesPerFrame,  \* bytes_per_frame, the mean
          FrameBytes,     \* lengths a frame may be encoded to
          InputSize,      \* room for samples before the encoder, of one channel
          OutputSize,     \* room for bytes behind it
          Window          \* bound: more bytes than can be on the way at once

Inputs == 1 .. Channels

VARIABLES samples,     \* per channel, samples in the input buffer
          outbuf,      \* the last frame's bytes, outbuf_off of them already sent
          outbuf_off,
          outbuf_len,  \* bytes still to be sent
          wanted_items,\* noutput_items of the running call, 0 between calls
          min_input,   \* min_input_items
          in_off,      \* samples encoded by this call
          out,         \* bytes written by this call; out_off is their number
          pipe,        \* bytes in the output buffer
          next,        \* the byte the codec produces next
          heard        \* history: the byte layer 2 should read next

callvars == <<wanted_items, min_input, in_off, out>>
hdcvars == <<samples, outbuf, outbuf_off, outbuf_len, callvars, pipe, next, heard>>

Init == /\ samples = [c \in Inputs |-> 0]
        /\ outbuf = << >> /\ outbuf_off = 0 /\ outbuf_len = 0
        /\ wanted_items = 0 /\ min_input = 0 /\ in_off = 0 /\ out = << >>
        /\ pipe = << >>
        /\ next = 0 /\ heard = 0

\* External: one more grain of samples reaches channel c.
Sample(c) ==
    /\ samples[c] < InputSize
    /\ samples' = [samples EXCEPT ![c] = @ + 1]
    /\ UNCHANGED <<outbuf, outbuf_off, outbuf_len, callvars, pipe, next, heard>>

\* External: layer 2 reads n bytes.
Read(n) ==
    /\ heard' = (heard + n) % Window
    /\ pipe' = SubSeq(pipe, n + 1, Len(pipe))
    /\ UNCHANGED <<samples, outbuf, outbuf_off, outbuf_len, callvars, next>>

\* Mutant: no frame more than fits as a whole is asked for.
ForecastWhole(n) == IF n <= outbuf_len THEN 0
                    ELSE ((n - outbuf_len) \div BytesPerFrame) * FrameLength

Forecast(n) == IF n <= outbuf_len THEN 0
               ELSE ((n - outbuf_len) \div BytesPerFrame + 1) * FrameLength

\* The scheduler calls general_work for n bytes once forecast is content.
Call(n) ==
    /\ wanted_items = 0
    /\ n \in 1 .. OutputSize - Len(pipe)
    /\ \A c \in Inputs : samples[c] >= Forecast(n)
    /\ wanted_items' = n
    /\ min_input' = Min(Range(samples))
    /\ in_off' = 0
    /\ out' = << >>
    /\ UNCHANGED <<samples, outbuf, outbuf_off, outbuf_len, pipe, next, heard>>

\* Mutant: the rest of a frame is copied from the start of outbuf.
PendingFromStart(n) == SubSeq(outbuf, 1, n)

\* The next n bytes of outbuf.
Pending(n) == SubSeq(outbuf, outbuf_off + 1, outbuf_off + n)

Space == wanted_items - Len(out)

Overflows == outbuf_len > Space

\* consume_each and the return of general_work.
Return(bytes) ==
    /\ samples' = [c \in Inputs |-> samples[c] - in_off]
    /\ pipe' = pipe \o bytes
    /\ wanted_items' = 0 /\ min_input' = 0 /\ in_off' = 0 /\ out' = << >>

\* The bytes waiting do not all fit: the loop ends.
CopyPart ==
    /\ wanted_items > 0 /\ Space > 0 /\ Overflows
    /\ outbuf_off' = outbuf_off + Space
    /\ outbuf_len' = outbuf_len - Space
    /\ Return(out \o Pending(Space))
    /\ UNCHANGED <<outbuf, next, heard>>

NoFrame == in_off + FrameLength > min_input

\* All of them fit, but there are not samples enough for another frame.
CopyLast ==
    /\ wanted_items > 0 /\ Space > 0 /\ ~ Overflows /\ NoFrame
    /\ outbuf' = << >>
    /\ outbuf_off' = 0
    /\ outbuf_len' = 0
    /\ Return(out \o Pending(outbuf_len))
    /\ UNCHANGED <<next, heard>>

\* All of them fit, and a frame of n bytes is encoded.
CopyAndEncode(n) ==
    /\ wanted_items > 0 /\ Space > 0 /\ ~ Overflows /\ ~ NoFrame
    /\ out' = out \o Pending(outbuf_len)
    /\ in_off' = in_off + FrameLength
    /\ outbuf' = [k \in 1 .. n |-> (next + k - 1) % Window]
    /\ outbuf_off' = 0
    /\ outbuf_len' = n
    /\ next' = (next + n) % Window
    /\ UNCHANGED <<samples, wanted_items, min_input, pipe, heard>>

\* As many bytes as were asked for: the loop condition fails.
Full ==
    /\ wanted_items > 0 /\ Space = 0
    /\ Return(out)
    /\ UNCHANGED <<outbuf, outbuf_off, outbuf_len, next, heard>>
-------------------------------------------------------------------------------
(***************************************************************************)
(* Every byte of the codec reaches layer 2, once and in order, however the *)
(* calls cut the frames up: what is in the output buffer, in the call and  *)
(* in outbuf continues what layer 2 has read, without a gap, up to what    *)
(* the codec produced last.                                                *)
(***************************************************************************)
BytesInOrder ==
    LET way == pipe \o out \o Pending(outbuf_len)
    IN  /\ way = [k \in 1 .. Len(way) |-> (heard + k - 1) % Window]
        /\ (heard + Len(way)) % Window = next

(***************************************************************************)
(* A call that forecast admitted gets something done: it writes bytes or   *)
(* takes samples.  The scheduler does not call a block again that neither  *)
(* consumed nor produced until more input arrives, and with a full input   *)
(* buffer none can.                                                        *)
(***************************************************************************)
EveryCallWorks ==
    [][wanted_items > 0 /\ wanted_items' = 0 =>
           Len(pipe') > Len(pipe) \/ \E c \in Inputs : samples'[c] < samples[c]]_hdcvars
===============================================================================
