------------------------------- MODULE Programs -------------------------------
(***************************************************************************)
(* What layer 2 takes of a program: the bytes of its HDC encoder and those *)
(* of its PSD encoder.  The two share nothing; a behaviour is of one of    *)
(* them, and the other stays in its initial state.                         *)
(***************************************************************************)
EXTENDS PsdEncoder

CONSTANTS Channels, FrameLength, MeanBytes, FrameBytes, InputSize, OutputSize, Window

ASSUME HdcAssumption ==
    /\ Channels \in {1, 2} /\ FrameLength \in Nat \ {0} /\ MeanBytes \in Nat \ {0}
    /\ FrameBytes \subseteq Nat \ {0} /\ InputSize \in Nat /\ OutputSize \in Nat
    /\ Window \in Nat /\ Window > OutputSize /\ \A n \in FrameBytes : Window > OutputSize + n

VARIABLES input, samples, outbuf, outbuf_off, outbuf_len, wanted_items, min_input, in_off,
          out, pipe, next, heard

Hdc == INSTANCE HdcEncoder WITH BytesPerFrame <- MeanBytes

hdcvars == <<samples, outbuf, outbuf_off, outbuf_len, wanted_items, min_input, in_off, out,
             pipe, next, heard>>

ProgramsInit == Init /\ Hdc!Init /\ input \in {"PSD", "HDC"}

PsdNext == input = "PSD" /\ Next /\ UNCHANGED <<input, hdcvars>>

Sample == input = "HDC" /\ (\E c \in Hdc!Inputs : Hdc!Sample(c)) /\ UNCHANGED <<input, vars>>
Read == input = "HDC" /\ (\E n \in 1 .. Len(pipe) : Hdc!Read(n)) /\ UNCHANGED <<input, vars>>
Call == input = "HDC" /\ (\E n \in 1 .. OutputSize : Hdc!Call(n)) /\ UNCHANGED <<input, vars>>
CopyPart == input = "HDC" /\ Hdc!CopyPart /\ UNCHANGED <<input, vars>>
CopyLast == input = "HDC" /\ Hdc!CopyLast /\ UNCHANGED <<input, vars>>
CopyAndEncode == input = "HDC" /\ (\E n \in FrameBytes : Hdc!CopyAndEncode(n)) /\ UNCHANGED <<input, vars>>
Full == input = "HDC" /\ Hdc!Full /\ UNCHANGED <<input, vars>>

ProgramsNext == \/ PsdNext
                \/ Sample \/ Read
                \/ Call \/ CopyPart \/ CopyLast \/ CopyAndEncode \/ Full

\* Layer 2 keeps reading PSD, and layer 1 keeps ticking.
ProgramsSpec ==
    /\ ProgramsInit /\ [][ProgramsNext]_<<input, vars, hdcvars>>
    /\ WF_<<input, vars>>(input = "PSD" /\ SendByte /\ UNCHANGED <<input, hdcvars>>)
    /\ WF_<<input, vars>>(input = "PSD" /\ HandleClock /\ UNCHANGED <<input, hdcvars>>)
-------------------------------------------------------------------------------
\* The properties of the HDC encoder: see HdcEncoder.

(* What the codec produces reaches layer 2 whole and in order.               *)
BytesInOrder == Hdc!BytesInOrder

(* No call of general_work that forecast admitted does nothing.              *)
EveryCallWorks == Hdc!EveryCallWorks
===============================================================================
