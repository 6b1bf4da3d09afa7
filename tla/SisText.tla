------------------------------- MODULE SisText -------------------------------
(***************************************************************************)
(* One text on the air: the SIS encoder sends its frames in turn, in the   *)
(* blocks its schedule gives to it, and starts again after the last one    *)
(* (write_station_name_long, write_station_message,                        *)
(* write_universal_short_station_name, write_station_slogan and            *)
(* write_emergency_alert in lib/sis_encoder_impl.cc).                      *)
(***************************************************************************)
EXTENDS SisFrames

CONSTANTS Lengths,     \* lengths of text a station may be configured with
          AlertTexts   \* lengths of the message of a set_alert command

ASSUME LengthsAssumption == Lengths \subseteq Nat /\ AlertTexts \subseteq Nat

VARIABLES text,     \* which text
          length,   \* how long it is
          control,  \* of an alert: its control bytes
          frame,    \* current_frame, the frame written next
          sent,     \* history: characters sent since the beginning
          rounds    \* history: 1 once the last frame was sent

textvars == <<text, length, control, frame, sent, rounds>>

TextInit ==
    /\ \/ /\ text \in Texts \ {"alert"}
          /\ length \in Lengths
          /\ control = 0
       \/ \E cnt \in 0 .. 65, txt \in AlertTexts :
             /\ Accepts(cnt, txt)
             /\ text = "alert"
             /\ control = cnt
             /\ length = cnt + txt
    /\ frame = 0
    /\ sent = {}
    /\ rounds = 0

\* current_frame = (current_frame + 1) % num_frames
NextFrame == (frame + 1) % FrameCount(text, length)

WriteFrame ==
    /\ sent' = sent \cup Chunk(text, frame, length)
    /\ frame' = NextFrame
    /\ rounds' = IF NextFrame = 0 THEN 1 ELSE rounds
    /\ UNCHANGED <<text, length, control>>

TextNext == WriteFrame

TextSpec == TextInit /\ [][TextNext]_textvars
------------------------------------------------------------------------------
TextTypeOK ==
    /\ text \in Texts /\ length \in Nat /\ control \in Nat
    /\ frame \in Nat
    /\ sent \subseteq 0 .. SentLength(text, length) - 1
    /\ rounds \in {0, 1}

(***************************************************************************)
(* One round of frames carries the whole text: num_frames agrees with the  *)
(* offsets at which the frames cut it, for every length.                   *)
(***************************************************************************)
WholeTextSent == rounds = 1 => sent = 0 .. SentLength(text, length) - 1

(***************************************************************************)
(* In the first round no character is sent twice: the frames continue each *)
(* other.                                                                  *)
(***************************************************************************)
NothingTwice == rounds = 0 => sent \cap Chunk(text, frame, length) = {}

(* Both: a round of frames is the text, no more and no less.                *)
SentWholeOnce == WholeTextSent /\ NothingTwice

(***************************************************************************)
(* What the headers say fits their fields: the frame number (or, for a     *)
(* universal short name, the number of frames), the length and an alert's  *)
(* control data length.  write_int would silently drop the upper bits.     *)
(***************************************************************************)
HeadersFit ==
    /\ frame < FrameNumbers(text)
    /\ FrameCount(text, length) <= FrameNumbers(text)
    /\ SentLength(text, length) < LengthField(text)
    /\ ControlLength(control) < 32

(* The strengthening that TLAPS needs: where the text has been sent up to.  *)
SentSoFar == rounds = 0 => sent = {i \in 0 .. SentLength(text, length) - 1 :
                                     i < ChunkStart(text, frame)}
TextIInv ==
    /\ TextTypeOK
    /\ text = "alert" => length <= MaxLength("alert")
    /\ control <= 63
    /\ frame < FrameCount(text, length)
    /\ SentSoFar
    /\ WholeTextSent
==============================================================================
