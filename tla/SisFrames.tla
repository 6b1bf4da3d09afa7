------------------------------ MODULE SisFrames ------------------------------
(***************************************************************************)
(* How the SIS encoder (lib/sis_encoder_impl.cc) cuts texts into frames,   *)
(* one frame per PIDS block: the first frame of a text may hold fewer      *)
(* characters than the others, because it also carries a header.           *)
(***************************************************************************)
EXTENDS Integers

Texts == {"long_name", "message", "ussn", "slogan", "alert"}

\* Characters past this one are not sent; an alert that long is not accepted.
MaxLength(t) == CASE t = "long_name" -> 56
                  [] t = "message"   -> 190
                  [] t = "ussn"      -> 12
                  [] t = "slogan"    -> 95
                  [] t = "alert"     -> 381

SentLength(t, len) == IF len <= MaxLength(t) THEN len ELSE MaxLength(t)

\* Mutant: no room is counted for the header of the first frame.
FrameCountNoHeader(t, len) ==
    LET n == SentLength(t, len)
    IN  IF n = 0 THEN 1 ELSE IF t = "long_name" THEN (n + 6) \div 7 ELSE (n + 5) \div 6

\* num_frames.
FrameCount(t, len) ==
    LET n == SentLength(t, len)
    IN  CASE t = "long_name" -> IF n = 0 THEN 1 ELSE (n + 6) \div 7
          [] t = "message"   -> (n + 7) \div 6
          [] t = "ussn"      -> IF n = 0 THEN 1 ELSE (n + 5) \div 6
          [] t = "slogan"    -> (n + 6) \div 6
          [] t = "alert"     -> (n + 8) \div 6

\* Characters that the first frame lacks for the sake of its header.
Header(t) == CASE t = "long_name" -> 0
               [] t = "message"   -> 2
               [] t = "ussn"      -> 0
               [] t = "slogan"    -> 1
               [] t = "alert"     -> 3

PerFrame(t) == IF t = "long_name" THEN 7 ELSE 6

\* Mutant: the frames after the first start one character early.
ChunkStartEarly(t, f) == IF f = 0 THEN 0 ELSE PerFrame(t) * f - Header(t) - 1

\* The first character of frame f.
ChunkStart(t, f) == IF f = 0 THEN 0 ELSE PerFrame(t) * f - Header(t)

ChunkLength(t, f) == IF f = 0 THEN PerFrame(t) - Header(t) ELSE PerFrame(t)

\* The characters frame f carries of a text of length len; the rest is zeros.
Chunk(t, f, len) ==
    {i \in ChunkStart(t, f) .. ChunkStart(t, f) + ChunkLength(t, f) - 1 : i < SentLength(t, len)}

\* Frame numbers the field of a frame's header can hold (for a universal short
\* name: the frame counts its one bit can announce).
FrameNumbers(t) == CASE t = "long_name" -> 8
                     [] t = "message"   -> 32
                     [] t = "ussn"      -> 2
                     [] t = "slogan"    -> 16
                     [] t = "alert"     -> 64

\* Lengths the first frame's length field can hold; the names have none.
LengthField(t) == CASE t = "message" -> 256
                    [] t = "slogan"  -> 128
                    [] t = "alert"   -> 512
                    [] OTHER         -> MaxLength(t) + 1

\* Mutant: one pair of control bytes more than the length field can say.
AcceptsPairMore(cnt, text) == cnt >= 7 /\ cnt <= 65 /\ cnt % 2 = 1 /\ cnt + text <= 381

\* Is set_alert with cnt control bytes and a message of text bytes accepted?
Accepts(cnt, text) == /\ cnt >= 7 /\ cnt <= 63
                      /\ cnt % 2 = 1
                      /\ cnt + text <= 381

\* emergency_alert_cnt_len, sent in 5 bits.
ControlLength(cnt) == (cnt - 1) \div 2
==============================================================================
