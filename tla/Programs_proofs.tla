---------------------------- MODULE Programs_proofs ----------------------------
(***************************************************************************)
(* Proofs about the encoders of a program, for any commands, frames and    *)
(* buffers: the fields of PSD are what the client asked for as long as no  *)
(* line is split; the bytes of HDC reach layer 2 in order; no call of its  *)
(* encoder is in vain.                                                     *)
(***************************************************************************)
EXTENDS Programs, NumberTheorems, SequenceTheorems

allvars == <<input, vars, hdcvars>>

-------------------------------------------------------------------------------
\* Wire and meta_buffer between messages that end with a line.
PsdIInv == wire \in Seq(Commands) /\ meta_buffer = 0 /\ MetaAsSent

LEMMA CommandFacts ==
    ASSUME NEW c \in Commands
    PROVE  /\ LineLen(c) + 1 \in Nat
           /\ \A n \in Nat : LineLen(c) <= n => Stored(c, n) = c.text
           /\ [c EXCEPT !.text = c.text] = c
<1>1. c \in [field : Fields, id : Nat, text : Nat]
  BY CommandsAssumption
<1>2. PrefixLen(c) \in Nat /\ c.text \in Nat
  BY <1>1 DEF PrefixLen, Fields
<1> QED BY <1>1, <1>2 DEF LineLen, Stored

\* A message that ends with a line is as long as each of its lines, so the texts
\* of its lines are stored whole.
LEMMA TextsStored ==
    ASSUME NEW lines \in Seq(Commands)
    PROVE  /\ WireLen(lines) \in Nat
           /\ [k \in DOMAIN lines |-> [lines[k] EXCEPT !.text = Stored(lines[k], WireLen(lines))]] = lines
<1> DEFINE lens == [k \in DOMAIN lines |-> LineLen(lines[k]) + 1]
<1>1. DOMAIN lines = 1 .. Len(lines) /\ Len(lines) \in Nat /\ \A k \in DOMAIN lines : lines[k] \in Commands
  OBVIOUS
<1>2. lens \in [1 .. Len(lines) -> Nat]
  BY <1>1, CommandFacts
<1>3. WireLen(lines) = Total(lens)
  BY DEF WireLen, Total
<1>4. WireLen(lines) \in Nat /\ \A k \in 1 .. Len(lines) : lens[k] <= WireLen(lines)
  <2> HIDE DEF lens
  <2> QED BY <1>1, <1>2, <1>3, TotalBounds
<1>5. ASSUME NEW k \in DOMAIN lines
      PROVE  [lines[k] EXCEPT !.text = Stored(lines[k], WireLen(lines))] = lines[k]
  <2>1. LineLen(lines[k]) + 1 <= WireLen(lines) /\ LineLen(lines[k]) + 1 \in Nat /\ LineLen(lines[k]) \in Int
    <3>1. LineLen(lines[k]) + 1 <= WireLen(lines) /\ lines[k] \in Commands
      BY <1>1, <1>4
    <3>2. LineLen(lines[k]) \in Int
      BY <1>1, CommandsAssumption DEF LineLen, PrefixLen, Fields
    <3> QED BY <3>1, <3>2, CommandFacts
  <2>2. LineLen(lines[k]) <= WireLen(lines)
    BY <2>1, <1>4
  <2> QED BY <2>2, <1>1, <1>4, CommandFacts
<1>6. [k \in DOMAIN lines |-> lines[k]] = lines
  OBVIOUS
<1> QED BY <1>4, <1>5, <1>6

LEMMA SetMetaPsdIInv ==
    ASSUME SplitLines = FALSE, PsdIInv, NEW n \in Int, SetMeta(n)
    PROVE  PsdIInv'
<1>1. PICK done \in 0 .. Len(wire) :
        LET lines == SubSeq(wire, 1, done)
            left  == meta_buffer + n - WireLen(lines)
        IN /\ SplitLines \/ left = 0
           /\ wire' = SubSeq(wire, done + 1, Len(wire))
           /\ meta_buffer' = left
           /\ meta' = Updated(meta, [k \in DOMAIN lines |->
                                         [lines[k] EXCEPT !.text = Stored(lines[k], n)]])
           /\ wanted' = Updated(wanted, lines)
  BY DEF SetMeta
<1> DEFINE lines == SubSeq(wire, 1, done)
<1>2. lines \in Seq(Commands) /\ SubSeq(wire, done + 1, Len(wire)) \in Seq(Commands)
  BY DEF PsdIInv
<1>3. WireLen(lines) \in Nat
  <2> HIDE DEF lines
  <2> QED BY <1>2, TextsStored
<1>4. n = WireLen(lines) /\ meta_buffer' = 0
  BY <1>1, <1>3 DEF PsdIInv
<1>5. meta' = Updated(meta, lines)
  <2>1. [k \in DOMAIN lines |-> [lines[k] EXCEPT !.text = Stored(lines[k], n)]] = lines
    <3> HIDE DEF lines
    <3> QED BY <1>2, <1>4, TextsStored
  <2> QED BY <1>1, <2>1
<1> QED BY <1>1, <1>2, <1>4, <1>5 DEF PsdIInv, MetaAsSent

LEMMA PsdStep ==
    ASSUME SplitLines = FALSE, PsdIInv, [ProgramsNext]_allvars
    PROVE  PsdIInv'
<1>1. CASE PsdNext
  <2>1. ASSUME NEW c \in Commands, SendCommand(c) PROVE PsdIInv'
    BY <2>1 DEF SendCommand, PsdIInv, MetaAsSent
  <2>2. ASSUME NEW n \in 1 .. WireLen(wire) - meta_buffer, SetMeta(n) PROVE PsdIInv'
    <3>1. n \in Int
      BY <2>2
    <3> QED BY <3>1, <2>2, SetMetaPsdIInv
  <2>3. CASE HandleClock
    BY <2>3 DEF HandleClock, PsdIInv, MetaAsSent, textvars
  <2>4. CASE SendByte
    BY <2>4 DEF SendByte, PsdIInv, MetaAsSent, textvars
  <2> QED BY <1>1, <2>1, <2>2, <2>3, <2>4 DEF PsdNext, Next
<1>2. CASE UNCHANGED vars
  BY <1>2 DEF vars, textvars, PsdIInv, MetaAsSent
<1> QED BY <1>1, <1>2 DEF ProgramsNext, Sample, Read, Call, CopyPart, CopyLast, CopyAndEncode, Full, allvars

(***************************************************************************)
(* As long as a message ends with a line, every field holds what the last  *)
(* command for it said (set_meta), for any commands and messages of any    *)
(* number of lines.                                                        *)
(***************************************************************************)
THEOREM MetaAlwaysAsSent == SplitLines = FALSE => (ProgramsSpec => []MetaAsSent)
<1> SUFFICES ASSUME SplitLines = FALSE PROVE ProgramsSpec => []MetaAsSent
  OBVIOUS
<1>1. ProgramsInit => PsdIInv
  BY DEF ProgramsInit, Init, PsdIInv, MetaAsSent
<1>2. PsdIInv /\ [ProgramsNext]_allvars => PsdIInv'
  BY PsdStep
<1>3. PsdIInv => MetaAsSent
  BY DEF PsdIInv
<1> QED BY <1>1, <1>2, <1>3, PTL DEF ProgramsSpec, allvars
-------------------------------------------------------------------------------
\* The bytes of s are those numbered from a on.
Runs(s, a) == \A k \in 1 .. Len(s) : s[k] = (a + k - 1) % Window

\* The calls: a running one has written what it counts, and has as many samples
\* as it believes.  If it has encoded nothing yet, it can encode a frame, or
\* outbuf holds all that is wanted: that is what forecast promises.
CallIInv ==
    /\ samples \in [Hdc!Inputs -> Nat]
    /\ outbuf \in Seq(Nat) /\ outbuf_off \in Nat /\ outbuf_len \in Nat
    /\ outbuf_off + outbuf_len <= Len(outbuf)
    /\ wanted_items \in Nat /\ min_input \in Nat /\ in_off \in Nat
    /\ out \in Seq(Nat) /\ pipe \in Seq(Nat) /\ Len(out) <= wanted_items
    /\ in_off <= min_input
    /\ wanted_items > 0 => \A c \in Hdc!Inputs : min_input <= samples[c]
    /\ wanted_items = 0 => in_off = 0
    /\ wanted_items > 0 /\ in_off = 0 =>
           out = << >> /\ (FrameLength <= min_input \/ wanted_items <= outbuf_len)

\* What layer 2 has read, h bytes, and what is on the way to it follow one another.
BytesFollow(h) ==
    /\ heard = h % Window
    /\ Runs(pipe, h)
    /\ Runs(out, h + Len(pipe))
    /\ \A k \in 1 .. outbuf_len :
           outbuf[outbuf_off + k] = (h + Len(pipe) + Len(out) + k - 1) % Window
    /\ next = (h + Len(pipe) + Len(out) + outbuf_len) % Window

HdcIInv == CallIInv /\ \E h \in Nat : BytesFollow(h)

LEMMA WindowFacts == Window \in Nat \ {0} /\ OutputSize \in Nat /\ FrameLength \in Nat \ {0}
BY HdcAssumption

\* Runs may be joined.
LEMMA RunsJoin ==
    ASSUME NEW s \in Seq(Nat), NEW t \in Seq(Nat), NEW a \in Nat, Runs(s, a), Runs(t, a + Len(s))
    PROVE  Runs(s \o t, a) /\ s \o t \in Seq(Nat) /\ Len(s \o t) = Len(s) + Len(t)
<1>1. Len(s \o t) = Len(s) + Len(t) /\ s \o t \in Seq(Nat) /\ Len(s) \in Nat /\ Len(t) \in Nat
  OBVIOUS
<1>2. ASSUME NEW k \in 1 .. Len(s \o t) PROVE (s \o t)[k] = (a + k - 1) % Window
  <2>1. CASE k <= Len(s)
    BY <2>1, <1>1 DEF Runs
  <2>2. CASE k > Len(s)
    <3> DEFINE j == k - Len(s)
    <3>1. j \in 1 .. Len(t) /\ (s \o t)[k] = t[j] /\ a + Len(s) + j - 1 = a + k - 1
      BY <2>2, <1>1
    <3> HIDE DEF j
    <3>2. t[j] = (a + Len(s) + j - 1) % Window
      BY <3>1 DEF Runs
    <3> QED BY <3>1, <3>2
  <2> QED BY <2>1, <2>2, <1>1
<1> QED BY <1>1, <1>2 DEF Runs

\* The n items of a sequence behind the first m.
LEMMA PartFacts ==
    ASSUME NEW s \in Seq(Nat), NEW m \in Nat, NEW n \in Nat, m + n <= Len(s)
    PROVE  /\ SubSeq(s, m + 1, m + n) \in Seq(Nat) /\ Len(SubSeq(s, m + 1, m + n)) = n
           /\ \A k \in 1 .. n : SubSeq(s, m + 1, m + n)[k] = s[m + k]
<1> DEFINE a == m + 1
           b == m + n
<1>1. a \in Int /\ b \in Int /\ b - a + 1 = n /\ (a <= b <=> n # 0)
  OBVIOUS
<1>2. \A k \in a .. b : s[k] \in Nat
  OBVIOUS
<1>3. \A k \in 1 .. n : a + k - 1 = m + k
  OBVIOUS
<1> HIDE DEF a, b
<1>4. /\ SubSeq(s, a, b) \in Seq(Nat)
      /\ Len(SubSeq(s, a, b)) = IF a <= b THEN b - a + 1 ELSE 0
      /\ \A k \in 1 .. b - a + 1 : SubSeq(s, a, b)[k] = s[a + k - 1]
  BY <1>1, <1>2, SubSeqProperties
<1>5. SubSeq(s, a, b) \in Seq(Nat) /\ Len(SubSeq(s, a, b)) = n /\ \A k \in 1 .. n : SubSeq(s, a, b)[k] = s[m + k]
  BY <1>1, <1>3, <1>4
<1> QED BY <1>5 DEF a, b

\* So is the rest of a run once n bytes have been read.
LEMMA RunsRest ==
    ASSUME NEW s \in Seq(Nat), NEW a \in Nat, Runs(s, a), NEW n \in 0 .. Len(s)
    PROVE  /\ Runs(SubSeq(s, n + 1, Len(s)), a + n)
           /\ SubSeq(s, n + 1, Len(s)) \in Seq(Nat)
           /\ Len(SubSeq(s, n + 1, Len(s))) = Len(s) - n
<1> DEFINE t == SubSeq(s, n + 1, Len(s))
           l == Len(s) - n
<1>1. l \in Nat /\ n \in Nat /\ n + l = Len(s)
  OBVIOUS
<1>2. Len(t) = l /\ t \in Seq(Nat) /\ \A k \in 1 .. l : t[k] = s[n + k]
  <2> HIDE DEF l
  <2> QED BY <1>1, PartFacts
<1>3. ASSUME NEW k \in 1 .. Len(t) PROVE t[k] = (a + n + k - 1) % Window
  <2>1. k \in 1 .. l
    BY <1>2
  <2>2. n + k \in 1 .. Len(s) /\ a + (n + k) - 1 = a + n + k - 1
    BY <1>1, <2>1
  <2>3. s[n + k] = (a + (n + k) - 1) % Window
    BY <2>2 DEF Runs
  <2> QED BY <1>2, <2>1, <2>2, <2>3
<1> HIDE DEF t
<1>4. Runs(t, a + n)
  BY <1>3 DEF Runs
<1> QED BY <1>2, <1>4 DEF t

\* The first n of the bytes waiting in outbuf.
LEMMA PendingFacts ==
    ASSUME CallIInv, NEW h \in Nat, BytesFollow(h), NEW n \in 0 .. outbuf_len
    PROVE  /\ Hdc!Pending(n) \in Seq(Nat) /\ Len(Hdc!Pending(n)) = n
           /\ Runs(Hdc!Pending(n), h + Len(pipe) + Len(out))
<1> DEFINE p == Hdc!Pending(n)
           a == h + Len(pipe) + Len(out)
<1>1. outbuf_off + n <= Len(outbuf) /\ outbuf_off \in Nat /\ outbuf \in Seq(Nat) /\ n \in Nat
  BY DEF CallIInv
<1>2. p = SubSeq(outbuf, outbuf_off + 1, outbuf_off + n)
  BY DEF Hdc!Pending
<1>3. p \in Seq(Nat) /\ Len(p) = n /\ \A k \in 1 .. n : p[k] = outbuf[outbuf_off + k]
  <2> HIDE DEF p
  <2> QED BY <1>1, <1>2, PartFacts
<1>4. \A k \in 1 .. n : p[k] = (a + k - 1) % Window
  <2>1. \A k \in 1 .. outbuf_len : outbuf[outbuf_off + k] = (a + k - 1) % Window
    BY DEF BytesFollow
  <2>2. \A k \in 1 .. n : k \in 1 .. outbuf_len
    BY DEF CallIInv
  <2> HIDE DEF p, a
  <2> QED BY <1>3, <2>1, <2>2
<1> HIDE DEF p, a
<1>5. Runs(p, a)
  BY <1>3, <1>4 DEF Runs
<1> QED BY <1>3, <1>5 DEF p, a

\* What a call has written and the first n bytes waiting behind it.
LEMMA WrittenFacts ==
    ASSUME CallIInv, NEW h \in Nat, BytesFollow(h), NEW n \in 0 .. outbuf_len
    PROVE  /\ out \o Hdc!Pending(n) \in Seq(Nat) /\ Len(out \o Hdc!Pending(n)) = Len(out) + n
           /\ Runs(out \o Hdc!Pending(n), h + Len(pipe))
<1>1. out \in Seq(Nat) /\ h + Len(pipe) \in Nat /\ Runs(out, h + Len(pipe))
  BY DEF CallIInv, BytesFollow
<1>2. Hdc!Pending(n) \in Seq(Nat) /\ Len(Hdc!Pending(n)) = n /\ Runs(Hdc!Pending(n), h + Len(pipe) + Len(out))
  BY PendingFacts
<1> QED BY <1>1, <1>2, RunsJoin

LEMMA ReadHdcIInv == ASSUME HdcIInv, Read PROVE HdcIInv'
<1>1. PICK n \in 1 .. Len(pipe) : Hdc!Read(n)
  BY DEF Read
<1>2. PICK h \in Nat : BytesFollow(h)
  BY DEF HdcIInv
<1>3. CallIInv /\ pipe \in Seq(Nat) /\ n \in 0 .. Len(pipe) /\ n \in Nat
  BY DEF HdcIInv, CallIInv
<1>4. /\ Runs(pipe', h + n) /\ pipe' \in Seq(Nat) /\ Len(pipe') = Len(pipe) - n
  BY <1>1, <1>2, <1>3, RunsRest DEF Hdc!Read, BytesFollow
<1>5. UNCHANGED <<samples, outbuf, outbuf_off, outbuf_len, wanted_items, min_input, in_off, out, next>>
  BY <1>1 DEF Hdc!Read, Hdc!callvars
<1>6. CallIInv'
  BY <1>3, <1>4, <1>5 DEF CallIInv
<1>7. heard' = (h + n) % Window
  <2>1. heard' = ((h % Window) + n) % Window
    BY <1>1, <1>2 DEF Hdc!Read, BytesFollow
  <2>2. Window \in Nat \ {0} /\ h \in Int /\ n \in Int
    BY <1>3, WindowFacts
  <2> QED BY <2>1, <2>2, ModAdd
<1>8. h + n + Len(pipe') = h + Len(pipe) /\ h + n \in Nat
  BY <1>3, <1>4
<1>9. BytesFollow(h + n)'
  BY <1>2, <1>4, <1>5, <1>7, <1>8 DEF BytesFollow, Runs
<1> QED BY <1>6, <1>8, <1>9 DEF HdcIInv

LEMMA SampleHdcIInv == ASSUME HdcIInv, Sample PROVE HdcIInv'
<1>1. PICK c \in Hdc!Inputs : Hdc!Sample(c)
  BY DEF Sample
<1>2. UNCHANGED <<outbuf, outbuf_off, outbuf_len, wanted_items, min_input, in_off, out, pipe, next, heard>>
  BY <1>1 DEF Hdc!Sample, Hdc!callvars
<1>3. /\ samples' \in [Hdc!Inputs -> Nat] /\ samples \in [Hdc!Inputs -> Nat]
      /\ \A d \in Hdc!Inputs : samples'[d] >= samples[d]
  BY <1>1 DEF Hdc!Sample, HdcIInv, CallIInv
<1>4. CallIInv'
  <2>1. wanted_items' > 0 => \A d \in Hdc!Inputs : min_input' <= samples'[d]
    BY <1>2, <1>3 DEF HdcIInv, CallIInv
  <2> QED BY <1>2, <1>3, <2>1 DEF HdcIInv, CallIInv
<1>5. ASSUME NEW h \in Nat, BytesFollow(h) PROVE BytesFollow(h)'
  BY <1>2, <1>5 DEF BytesFollow, Runs
<1> QED BY <1>4, <1>5 DEF HdcIInv

\* The fewest samples of all channels.
LEMMA MinSamples ==
    ASSUME samples \in [Hdc!Inputs -> Nat]
    PROVE  /\ Hdc!Min(Hdc!Range(samples)) \in Nat
           /\ \A c \in Hdc!Inputs : Hdc!Min(Hdc!Range(samples)) <= samples[c]
           /\ \E c \in Hdc!Inputs : Hdc!Min(Hdc!Range(samples)) = samples[c]
<1> DEFINE R == Hdc!Range(samples)
<1>1. R = {samples[c] : c \in Hdc!Inputs}
  BY DEF Hdc!Range
<1>2. Channels \in {1, 2} /\ Hdc!Inputs = 1 .. Channels
  BY HdcAssumption DEF Hdc!Inputs
<1>3. \E x \in R : \A y \in R : x <= y
  <2>1. CASE Channels = 1
    <3>1. Hdc!Inputs = {1}
      BY <2>1, <1>2
    <3> QED BY <3>1, <1>1
  <2>2. CASE Channels = 2
    <3>1. Hdc!Inputs = {1, 2}
      BY <2>2, <1>2
    <3>2. samples[1] \in Nat /\ samples[2] \in Nat /\ R = {samples[1], samples[2]}
      BY <3>1, <1>1
    <3> QED BY <3>2
  <2> QED BY <2>1, <2>2, <1>2
<1>4. Hdc!Min(R) \in R /\ \A y \in R : Hdc!Min(R) <= y
  BY <1>3 DEF Hdc!Min
<1> QED BY <1>1, <1>4

\* What forecast asks for when outbuf does not hold enough is a frame at least.
LEMMA ForecastFacts ==
    ASSUME CallIInv, NEW n \in Nat, outbuf_len < n
    PROVE  Hdc!Forecast(n) >= FrameLength /\ Hdc!Forecast(n) \in Int
<1> DEFINE q == (n - outbuf_len) \div MeanBytes
<1>1. MeanBytes \in Nat \ {0} /\ FrameLength \in Nat \ {0}
  BY HdcAssumption
<1>2. n - outbuf_len \in Nat /\ outbuf_len \in Nat
  BY DEF CallIInv
<1>3. q \in Nat
  BY <1>1, <1>2
<1>4. Hdc!Forecast(n) = (q + 1) * FrameLength
  BY <1>2 DEF Hdc!Forecast
<1> HIDE DEF q
<1>5. (q + 1) * FrameLength = q * FrameLength + FrameLength /\ q * FrameLength \in Nat
  BY <1>1, <1>3
<1> QED BY <1>1, <1>4, <1>5

LEMMA CallHdcIInv == ASSUME HdcIInv, Call PROVE HdcIInv'
<1>1. PICK n \in 1 .. OutputSize : Hdc!Call(n)
  BY DEF Call
<1>2. /\ UNCHANGED <<samples, outbuf, outbuf_off, outbuf_len, pipe, next, heard>>
      /\ wanted_items = 0 /\ wanted_items' = n /\ min_input' = Hdc!Min(Hdc!Range(samples))
      /\ in_off' = 0 /\ out' = << >> /\ \A c \in Hdc!Inputs : samples[c] >= Hdc!Forecast(n)
  BY <1>1 DEF Hdc!Call
<1>3. CallIInv /\ out = << >> /\ n \in Nat /\ n > 0
  <2>1. Len(out) <= 0 /\ out \in Seq(Nat)
    BY <1>2 DEF HdcIInv, CallIInv
  <2> QED BY <2>1, WindowFacts DEF HdcIInv
<1>4. /\ min_input' \in Nat /\ \A c \in Hdc!Inputs : min_input' <= samples'[c]
      /\ \E c \in Hdc!Inputs : min_input' = samples[c]
  BY <1>2, <1>3, MinSamples DEF CallIInv
<1>5. FrameLength <= min_input' \/ wanted_items' <= outbuf_len'
  <2> SUFFICES ASSUME outbuf_len < n PROVE FrameLength <= min_input'
    BY <1>2, <1>3 DEF CallIInv
  <2>1. Hdc!Forecast(n) >= FrameLength /\ Hdc!Forecast(n) \in Int
    BY <1>3, ForecastFacts
  <2>2. PICK c \in Hdc!Inputs : min_input' = samples[c]
    BY <1>4
  <2> QED BY <1>2, <1>4, <2>1, <2>2, WindowFacts
<1>6. CallIInv'
  <2>1. Len(out') = 0 /\ out' \in Seq(Nat)
    BY <1>2
  <2> QED BY <1>2, <1>3, <1>4, <1>5, <2>1 DEF CallIInv
<1>7. ASSUME NEW h \in Nat, BytesFollow(h) PROVE BytesFollow(h)'
  <2>1. out' = out
    BY <1>2, <1>3
  <2> QED BY <1>2, <1>7, <2>1 DEF BytesFollow, Runs
<1> QED BY <1>6, <1>7 DEF HdcIInv

\* A call that returns what it has written and the first n bytes behind it.
LEMMA ReturnFacts ==
    ASSUME CallIInv, NEW h \in Nat, BytesFollow(h), NEW n \in 0 .. outbuf_len, wanted_items > 0,
           Hdc!Return(out \o Hdc!Pending(n))
    PROVE  /\ pipe' \in Seq(Nat) /\ Len(pipe') = Len(pipe) + Len(out) + n /\ Runs(pipe', h)
           /\ Len(pipe) \in Nat /\ Len(out) \in Nat
           /\ samples' \in [Hdc!Inputs -> Nat] /\ \A c \in Hdc!Inputs : samples'[c] = samples[c] - in_off
           /\ wanted_items' = 0 /\ min_input' = 0 /\ in_off' = 0 /\ out' = << >> /\ Len(out') = 0
<1>1. /\ samples' = [c \in Hdc!Inputs |-> samples[c] - in_off]
      /\ pipe' = pipe \o (out \o Hdc!Pending(n))
      /\ wanted_items' = 0 /\ min_input' = 0 /\ in_off' = 0 /\ out' = << >>
  BY DEF Hdc!Return
<1>2. pipe \in Seq(Nat) /\ out \in Seq(Nat) /\ Runs(pipe, h)
  BY DEF CallIInv, BytesFollow
<1>3. /\ out \o Hdc!Pending(n) \in Seq(Nat) /\ Len(out \o Hdc!Pending(n)) = Len(out) + n
      /\ Runs(out \o Hdc!Pending(n), h + Len(pipe))
  BY WrittenFacts
<1> DEFINE w == out \o Hdc!Pending(n)
<1> HIDE DEF w
<1>4. pipe' \in Seq(Nat) /\ Len(pipe') = Len(pipe) + Len(w) /\ Runs(pipe', h)
  BY <1>1, <1>2, <1>3, RunsJoin DEF w
<1>5. Len(w) = Len(out) + n /\ Len(pipe) \in Nat /\ Len(out) \in Nat /\ n \in Nat
  BY <1>2, <1>3 DEF w, CallIInv
<1>6. \A c \in Hdc!Inputs : samples[c] - in_off \in Nat
  BY DEF CallIInv
<1> QED BY <1>1, <1>4, <1>5, <1>6

LEMMA CopyPartHdcIInv == ASSUME HdcIInv, CopyPart PROVE HdcIInv'
<1>1. PICK h \in Nat : BytesFollow(h)
  BY DEF HdcIInv
<1> DEFINE n == wanted_items - Len(out)
<1>2. /\ wanted_items > 0 /\ n > 0 /\ outbuf_len > n
      /\ outbuf_off' = outbuf_off + n /\ outbuf_len' = outbuf_len - n
      /\ Hdc!Return(out \o Hdc!Pending(n)) /\ UNCHANGED <<outbuf, next, heard>>
  BY DEF CopyPart, Hdc!CopyPart, Hdc!Space, Hdc!Overflows
<1>3. n \in 0 .. outbuf_len /\ n \in Nat /\ outbuf_len \in Nat /\ outbuf_off \in Nat /\ CallIInv
  <2>1. outbuf_len \in Nat /\ outbuf_off \in Nat /\ wanted_items \in Nat /\ Len(out) \in Nat /\ CallIInv
    BY DEF HdcIInv, CallIInv
  <2>2. n \in Int
    BY <2>1
  <2> HIDE DEF n
  <2> QED BY <1>2, <2>1, <2>2
<1> HIDE DEF n
<1>4. /\ pipe' \in Seq(Nat) /\ Len(pipe') = Len(pipe) + Len(out) + n /\ Runs(pipe', h)
      /\ Len(pipe) \in Nat /\ Len(out) \in Nat
      /\ samples' \in [Hdc!Inputs -> Nat]
      /\ wanted_items' = 0 /\ min_input' = 0 /\ in_off' = 0 /\ out' = << >> /\ Len(out') = 0
  BY <1>1, <1>2, <1>3, ReturnFacts
<1>5. CallIInv'
  <2>1. /\ outbuf' \in Seq(Nat) /\ outbuf_off' \in Nat /\ outbuf_len' \in Nat
        /\ outbuf_off' + outbuf_len' <= Len(outbuf')
    <3>1. outbuf \in Seq(Nat) /\ outbuf_off + outbuf_len <= Len(outbuf) /\ Len(outbuf) \in Nat
      BY <1>3 DEF CallIInv
    <3>2. outbuf_off' + outbuf_len' = outbuf_off + outbuf_len /\ outbuf_off' \in Nat /\ outbuf_len' \in Nat
      BY <1>2, <1>3
    <3> QED BY <1>2, <3>1, <3>2
  <2>2. out' \in Seq(Nat) /\ ~ (wanted_items' > 0) /\ Len(out') <= wanted_items'
    BY <1>4
  <2> QED BY <1>4, <2>1, <2>2 DEF CallIInv
<1>6. BytesFollow(h)'
  <2>1. Runs(out', h + Len(pipe'))
    BY <1>4 DEF Runs
  <2>2. ASSUME NEW k \in 1 .. outbuf_len'
        PROVE  outbuf'[outbuf_off' + k] = (h + Len(pipe') + Len(out') + k - 1) % Window
    <3>1. n + k \in 1 .. outbuf_len
      BY <1>2, <1>3
    <3>2. outbuf[outbuf_off + (n + k)] = (h + Len(pipe) + Len(out) + (n + k) - 1) % Window
      BY <1>1, <3>1 DEF BytesFollow
    <3>3. /\ outbuf_off + (n + k) = outbuf_off' + k
          /\ h + Len(pipe) + Len(out) + (n + k) - 1 = h + Len(pipe') + Len(out') + k - 1
      BY <1>2, <1>3, <1>4
    <3> QED BY <1>2, <3>2, <3>3
  <2>3. next' = (h + Len(pipe') + Len(out') + outbuf_len') % Window
    <3>1. h + Len(pipe') + Len(out') + outbuf_len' = h + Len(pipe) + Len(out) + outbuf_len
      BY <1>2, <1>3, <1>4
    <3> QED BY <1>1, <1>2, <3>1 DEF BytesFollow
  <2> QED BY <1>1, <1>2, <1>4, <2>1, <2>2, <2>3 DEF BytesFollow, Runs
<1> QED BY <1>5, <1>6 DEF HdcIInv

\* Once the call has returned all that outbuf held.
LEMMA ReturnedAll ==
    ASSUME CallIInv, NEW h \in Nat, BytesFollow(h), wanted_items > 0,
           Hdc!Return(out \o Hdc!Pending(outbuf_len)),
           outbuf' = << >>, outbuf_off' = 0, outbuf_len' = 0, UNCHANGED <<next, heard>>
    PROVE  HdcIInv'
<1>1. outbuf_len \in Nat /\ outbuf_len \in 0 .. outbuf_len
  BY DEF CallIInv
<1>2. /\ pipe' \in Seq(Nat) /\ Len(pipe') = Len(pipe) + Len(out) + outbuf_len /\ Runs(pipe', h)
      /\ Len(pipe) \in Nat /\ Len(out) \in Nat
      /\ samples' \in [Hdc!Inputs -> Nat]
      /\ wanted_items' = 0 /\ min_input' = 0 /\ in_off' = 0 /\ out' = << >> /\ Len(out') = 0
  BY <1>1, ReturnFacts
<1>3. CallIInv'
  <2>1. outbuf' \in Seq(Nat) /\ Len(outbuf') = 0
    OBVIOUS
  <2> QED BY <1>2, <2>1 DEF CallIInv
<1>4. BytesFollow(h)'
  <2>1. Runs(out', h + Len(pipe'))
    BY <1>2 DEF Runs
  <2>2. next' = (h + Len(pipe') + Len(out') + outbuf_len') % Window
    <3>1. h + Len(pipe') + Len(out') + outbuf_len' = h + Len(pipe) + Len(out) + outbuf_len
      BY <1>1, <1>2
    <3> QED BY <3>1 DEF BytesFollow
  <2>3. 1 .. outbuf_len' = {}
    OBVIOUS
  <2> QED BY <1>2, <2>1, <2>2, <2>3 DEF BytesFollow, Runs
<1> QED BY <1>3, <1>4 DEF HdcIInv

LEMMA CopyLastHdcIInv == ASSUME HdcIInv, CopyLast PROVE HdcIInv'
<1>1. PICK h \in Nat : BytesFollow(h)
  BY DEF HdcIInv
<1> QED BY <1>1, ReturnedAll DEF CopyLast, Hdc!CopyLast, HdcIInv

LEMMA FullHdcIInv == ASSUME HdcIInv, Full PROVE HdcIInv'
<1>1. PICK h \in Nat : BytesFollow(h)
  BY DEF HdcIInv
<1>2. CallIInv /\ outbuf_len \in Nat /\ outbuf_off \in Nat /\ wanted_items > 0 /\ Hdc!Return(out)
      /\ UNCHANGED <<outbuf, outbuf_off, outbuf_len, next, heard>>
  BY DEF HdcIInv, CallIInv, Full, Hdc!Full
<1>3. 0 \in 0 .. outbuf_len
  BY <1>2
<1>4. out \o Hdc!Pending(0) = out
  <2>1. Hdc!Pending(0) \in Seq(Nat) /\ Len(Hdc!Pending(0)) = 0
    BY <1>1, <1>2, <1>3, PendingFacts
  <2>2. Hdc!Pending(0) = << >> /\ out \in Seq(Nat)
    BY <2>1, <1>2 DEF CallIInv
  <2> QED BY <2>2
<1>5. /\ pipe' \in Seq(Nat) /\ Len(pipe') = Len(pipe) + Len(out) + 0 /\ Runs(pipe', h)
      /\ Len(pipe) \in Nat /\ Len(out) \in Nat
      /\ samples' \in [Hdc!Inputs -> Nat]
      /\ wanted_items' = 0 /\ min_input' = 0 /\ in_off' = 0 /\ out' = << >> /\ Len(out') = 0
  BY <1>1, <1>2, <1>3, <1>4, ReturnFacts
<1>6. CallIInv'
  BY <1>2, <1>5 DEF CallIInv
<1>7. BytesFollow(h)'
  <2>1. Runs(out', h + Len(pipe'))
    BY <1>5 DEF Runs
  <2>2. h + Len(pipe') + Len(out') = h + Len(pipe) + Len(out)
    BY <1>5
  <2> QED BY <1>1, <1>2, <1>5, <2>1, <2>2 DEF BytesFollow, Runs
<1> QED BY <1>6, <1>7 DEF HdcIInv

LEMMA CopyAndEncodeHdcIInv == ASSUME HdcIInv, CopyAndEncode PROVE HdcIInv'
<1>1. PICK h \in Nat : BytesFollow(h)
  BY DEF HdcIInv
<1>2. PICK n \in FrameBytes : Hdc!CopyAndEncode(n)
  BY DEF CopyAndEncode
<1>3. /\ wanted_items > 0 /\ ~ (outbuf_len > wanted_items - Len(out)) /\ ~ (in_off + FrameLength > min_input)
      /\ out' = out \o Hdc!Pending(outbuf_len)
      /\ in_off' = in_off + FrameLength
      /\ outbuf' = [k \in 1 .. n |-> (next + k - 1) % Window]
      /\ outbuf_off' = 0 /\ outbuf_len' = n /\ next' = (next + n) % Window
      /\ UNCHANGED <<samples, wanted_items, min_input, pipe, heard>>
  BY <1>2 DEF Hdc!CopyAndEncode, Hdc!Space, Hdc!Overflows, Hdc!NoFrame
<1>4. /\ CallIInv /\ outbuf_len \in Nat /\ outbuf_len \in 0 .. outbuf_len /\ n \in Nat
      /\ Len(pipe) \in Nat /\ Len(out) \in Nat /\ wanted_items \in Nat
  BY HdcAssumption DEF HdcIInv, CallIInv
<1>5. out' \in Seq(Nat) /\ Len(out') = Len(out) + outbuf_len /\ Runs(out', h + Len(pipe))
  BY <1>1, <1>3, <1>4, WrittenFacts
<1> DEFINE a == h + Len(pipe) + Len(out) + outbuf_len
<1>6. a \in Nat /\ next = a % Window /\ Window \in Nat \ {0} /\ a \in Int
  BY <1>1, <1>4, WindowFacts DEF BytesFollow
<1>7. a = h + Len(pipe') + Len(out')
  BY <1>3, <1>4, <1>5
<1> HIDE DEF a
<1>8. outbuf' \in Seq(Nat) /\ Len(outbuf') = n /\ \A k \in 1 .. n : outbuf'[k] = (a + k - 1) % Window
  <2>1. ASSUME NEW k \in 1 .. n
        PROVE  (next + k - 1) % Window = (a + k - 1) % Window /\ (next + k - 1) % Window \in Nat
    <3> DEFINE j == k - 1
    <3>1. j \in Int /\ next + k - 1 = (a % Window) + j /\ a + k - 1 = a + j /\ next + k - 1 \in Int
      BY <1>6
    <3> HIDE DEF j
    <3>2. ((a % Window) + j) % Window = (a + j) % Window
      BY <3>1, <1>6, ModAdd
    <3>3. (next + k - 1) % Window \in Nat
      <4> DEFINE m == next + k - 1
      <4>1. m \in Int
        BY <3>1
      <4> HIDE DEF m
      <4>2. m % Window \in 0 .. Window - 1
        BY <4>1, <1>6, DivMod
      <4> QED BY <4>2, <1>6 DEF m
    <3> QED BY <3>1, <3>2, <3>3
  <2> QED BY <1>3, <1>4, <2>1
<1>9. CallIInv'
  <2>1. in_off' \in Nat /\ in_off' > 0 /\ in_off' <= min_input
    BY <1>3, <1>4, WindowFacts DEF CallIInv
  <2>2. Len(out') <= wanted_items' /\ outbuf_off' + outbuf_len' <= Len(outbuf')
    BY <1>3, <1>4, <1>5, <1>8
  <2> QED BY <1>3, <1>4, <1>5, <1>8, <2>1, <2>2 DEF CallIInv
<1>10. BytesFollow(h)'
  <2>1. \A k \in 1 .. outbuf_len' :
            outbuf'[outbuf_off' + k] = (h + Len(pipe') + Len(out') + k - 1) % Window
    <3> SUFFICES ASSUME NEW k \in 1 .. n PROVE outbuf'[k] = (h + Len(pipe') + Len(out') + k - 1) % Window
      BY <1>3
    <3> QED BY <1>7, <1>8
  <2>2. next' = (h + Len(pipe') + Len(out') + outbuf_len') % Window
    <3>1. ((a % Window) + n) % Window = (a + n) % Window
      <4>1. n \in Int
        BY <1>4
      <4> QED BY <4>1, <1>6, ModAdd
    <3> QED BY <1>3, <1>6, <1>7, <3>1
  <2>3. Runs(pipe', h) /\ heard' = h % Window
    BY <1>1, <1>3 DEF BytesFollow, Runs
  <2>4. Runs(out', h + Len(pipe'))
    BY <1>3, <1>5
  <2> QED BY <2>1, <2>2, <2>3, <2>4 DEF BytesFollow, Runs
<1> QED BY <1>9, <1>10 DEF HdcIInv

LEMMA InitHdcIInv == ProgramsInit => HdcIInv
<1> SUFFICES ASSUME ProgramsInit PROVE HdcIInv
  OBVIOUS
<1>1. /\ samples = [c \in Hdc!Inputs |-> 0] /\ outbuf = << >> /\ outbuf_off = 0 /\ outbuf_len = 0
      /\ wanted_items = 0 /\ min_input = 0 /\ in_off = 0 /\ out = << >>
      /\ pipe = << >> /\ next = 0 /\ heard = 0
  BY DEF ProgramsInit, Hdc!Init
<1>2. << >> \in Seq(Nat) /\ Len(<< >>) = 0
  OBVIOUS
<1>3. CallIInv
  BY <1>1, <1>2 DEF CallIInv
<1>4. 0 % Window = 0
  BY WindowFacts, ModSmall
<1>5. BytesFollow(0)
  BY <1>1, <1>2, <1>4 DEF BytesFollow, Runs
<1> QED BY <1>3, <1>5 DEF HdcIInv

LEMMA HdcStep ==
    ASSUME HdcIInv, [ProgramsNext]_allvars
    PROVE  HdcIInv'
<1>1. CASE UNCHANGED hdcvars
  <2>1. CallIInv'
    BY <1>1 DEF hdcvars, HdcIInv, CallIInv
  <2>2. ASSUME NEW h \in Nat, BytesFollow(h) PROVE BytesFollow(h)'
    BY <1>1, <2>2 DEF hdcvars, BytesFollow, Runs
  <2> QED BY <2>1, <2>2 DEF HdcIInv
<1> QED BY <1>1, SampleHdcIInv, ReadHdcIInv, CallHdcIInv, CopyPartHdcIInv, CopyLastHdcIInv,
           CopyAndEncodeHdcIInv, FullHdcIInv DEF ProgramsNext, PsdNext, allvars

\* The bytes on the way, numbered from what layer 2 has read on.
LEMMA BytesInOrderFollows == HdcIInv => BytesInOrder
<1> SUFFICES ASSUME HdcIInv PROVE Hdc!BytesInOrder
  BY DEF BytesInOrder
<1>1. PICK h \in Nat : BytesFollow(h)
  BY DEF HdcIInv
<1> DEFINE rest == out \o Hdc!Pending(outbuf_len)
           way  == pipe \o out \o Hdc!Pending(outbuf_len)
<1>2. CallIInv /\ outbuf_len \in 0 .. outbuf_len /\ pipe \in Seq(Nat) /\ out \in Seq(Nat)
  BY DEF HdcIInv, CallIInv
<1>3. rest \in Seq(Nat) /\ Len(rest) = Len(out) + outbuf_len /\ Runs(rest, h + Len(pipe))
  BY <1>1, <1>2, WrittenFacts
<1>4. way = pipe \o rest
  <2>1. Hdc!Pending(outbuf_len) \in Seq(Nat)
    BY <1>1, <1>2, PendingFacts
  <2> DEFINE x == pipe
             y == out
             z == Hdc!Pending(outbuf_len)
  <2>2. x \in Seq(Nat) /\ y \in Seq(Nat) /\ z \in Seq(Nat)
    BY <1>2, <2>1
  <2> HIDE DEF x, y, z
  <2>3. (x \o y) \o z = x \o (y \o z)
    BY <2>2, ConcatAssociative
  <2> QED BY <2>3 DEF x, y, z
<1>5. Runs(way, h) /\ way \in Seq(Nat) /\ Len(way) = Len(pipe) + Len(out) + outbuf_len
  <2> HIDE DEF rest
  <2>1. Runs(pipe \o rest, h) /\ pipe \o rest \in Seq(Nat) /\ Len(pipe \o rest) = Len(pipe) + Len(rest)
    BY <1>1, <1>2, <1>3, RunsJoin DEF BytesFollow
  <2> HIDE DEF way
  <2> QED BY <1>2, <1>3, <1>4, <2>1
<1> HIDE DEF way, rest
<1>6. \A k \in Int : (heard + k) % Window = (h + k) % Window
  <2>1. h \in Int /\ Window \in Nat \ {0} /\ heard = h % Window
    BY <1>1, WindowFacts DEF BytesFollow
  <2> QED BY <2>1, ModAdd
<1>7. \A k \in 1 .. Len(way) : way[k] = (heard + k - 1) % Window
  <2> SUFFICES ASSUME NEW k \in 1 .. Len(way) PROVE way[k] = (heard + k - 1) % Window
    OBVIOUS
  <2> DEFINE j == k - 1
  <2>1. heard \in Int
    <3>1. h \in Int /\ Window \in Nat \ {0} /\ heard = h % Window
      BY <1>1, WindowFacts DEF BytesFollow
    <3> QED BY <3>1, DivMod
  <2>2. j \in Int /\ heard + k - 1 = heard + j /\ h + k - 1 = h + j
    BY <2>1
  <2> HIDE DEF j
  <2> QED BY <1>5, <1>6, <2>2 DEF Runs
<1>8. way = [k \in 1 .. Len(way) |-> (heard + k - 1) % Window]
  BY <1>5, <1>7
<1>9. (heard + Len(way)) % Window = next
  <2> DEFINE l == Len(pipe) + Len(out) + outbuf_len
  <2>1. l \in Int /\ h + Len(pipe) + Len(out) + outbuf_len = h + l /\ Len(way) = l
    BY <1>2, <1>5
  <2> HIDE DEF l
  <2> QED BY <1>1, <1>6, <2>1 DEF BytesFollow
<1> QED BY <1>8, <1>9 DEF Hdc!BytesInOrder, way

(***************************************************************************)
(* The bytes of the codec reach layer 2 whole and in order (general_work), *)
(* for frames of any lengths, one or two channels, and any buffers.        *)
(***************************************************************************)
THEOREM BytesAlwaysInOrder == ProgramsSpec => []BytesInOrder
<1>1. HdcIInv /\ [ProgramsNext]_allvars => HdcIInv'
  BY HdcStep
<1> QED BY <1>1, InitHdcIInv, BytesInOrderFollows, PTL DEF ProgramsSpec, allvars

\* A call that has encoded nothing writes something before it returns.
LEMMA ReturnWorks ==
    ASSUME HdcIInv, [ProgramsNext]_allvars, wanted_items > 0, wanted_items' = 0
    PROVE  Len(pipe') > Len(pipe) \/ \E c \in Hdc!Inputs : samples'[c] < samples[c]
<1>1. PICK h \in Nat : BytesFollow(h)
  BY DEF HdcIInv
<1>2. /\ CallIInv /\ outbuf_len \in Nat /\ in_off \in Nat /\ Len(pipe) \in Nat /\ Len(out) \in Nat
      /\ wanted_items \in Nat /\ min_input \in Nat /\ FrameLength \in Nat
  BY WindowFacts DEF HdcIInv, CallIInv
<1>3. \E n \in 0 .. outbuf_len : /\ Hdc!Return(out \o Hdc!Pending(n))
                                 /\ in_off = 0 => Len(out) + n > 0
  <2>1. CASE CopyPart
    <3> DEFINE n == wanted_items - Len(out)
    <3>1. n > 0 /\ outbuf_len > n /\ Hdc!Return(out \o Hdc!Pending(n))
      BY <2>1 DEF CopyPart, Hdc!CopyPart, Hdc!Space, Hdc!Overflows
    <3>2. n \in Int
      BY <1>2
    <3> HIDE DEF n
    <3>3. n \in 0 .. outbuf_len /\ Len(out) + n > 0
      BY <1>2, <3>1, <3>2
    <3> QED BY <3>1, <3>3
  <2>2. CASE CopyLast
    <3>1. Hdc!Return(out \o Hdc!Pending(outbuf_len)) /\ in_off + FrameLength > min_input
      BY <2>2 DEF CopyLast, Hdc!CopyLast, Hdc!NoFrame
    <3>2. in_off = 0 => outbuf_len > 0
      BY <1>2, <3>1 DEF CallIInv
    <3> QED BY <1>2, <3>1, <3>2
  <2>3. CASE Full
    <3>1. Hdc!Return(out) /\ wanted_items - Len(out) = 0
      BY <2>3 DEF Full, Hdc!Full, Hdc!Space
    <3>2. Hdc!Pending(0) \in Seq(Nat) /\ Len(Hdc!Pending(0)) = 0 /\ 0 \in 0 .. outbuf_len
      BY <1>1, <1>2, PendingFacts
    <3>3. out \o Hdc!Pending(0) = out
      BY <3>2 DEF HdcIInv, CallIInv
    <3>4. Hdc!Return(out \o Hdc!Pending(0))
      BY <3>1, <3>3
    <3>5. in_off = 0 => Len(out) + 0 > 0
      BY <1>2, <3>1
    <3> QED BY <3>2, <3>4, <3>5
  <2>4. CASE UNCHANGED wanted_items
    BY <2>4, <1>2
  <2>5. UNCHANGED wanted_items \/ Call \/ CopyPart \/ CopyLast \/ Full
    BY DEF ProgramsNext, PsdNext, Sample, Read, CopyAndEncode, Hdc!Sample, Hdc!Read,
           Hdc!CopyAndEncode, Hdc!callvars, hdcvars, allvars
  <2>6. ~ Call
    BY <1>2 DEF Call, Hdc!Call
  <2> QED BY <2>1, <2>2, <2>3, <2>4, <2>5, <2>6
<1>4. PICK n \in 0 .. outbuf_len : Hdc!Return(out \o Hdc!Pending(n)) /\ (in_off = 0 => Len(out) + n > 0)
  BY <1>3
<1>5. Len(pipe') = Len(pipe) + Len(out) + n /\ \A c \in Hdc!Inputs : samples'[c] = samples[c] - in_off
  BY <1>1, <1>2, <1>4, ReturnFacts
<1>6. CASE in_off = 0
  BY <1>2, <1>4, <1>5, <1>6
<1>7. CASE in_off > 0
  <2>1. 1 \in Hdc!Inputs
    BY HdcAssumption DEF Hdc!Inputs
  <2>2. samples[1] \in Nat /\ samples'[1] = samples[1] - in_off
    BY <1>5, <2>1 DEF HdcIInv, CallIInv
  <2> QED BY <1>2, <1>7, <2>1, <2>2
<1> QED BY <1>2, <1>6, <1>7

(***************************************************************************)
(* A call that forecast admitted writes bytes or takes samples             *)
(* (general_work), whatever the lengths of the frames before it.           *)
(***************************************************************************)
THEOREM CallsAlwaysWork == ProgramsSpec => EveryCallWorks
<1>1. HdcIInv /\ [ProgramsNext]_allvars => HdcIInv'
  BY HdcStep
<1>2. HdcIInv /\ [ProgramsNext]_allvars =>
        [wanted_items > 0 /\ wanted_items' = 0 =>
           Len(pipe') > Len(pipe) \/ \E c \in Hdc!Inputs : samples'[c] < samples[c]]_(Hdc!hdcvars)
  BY ReturnWorks
<1> QED BY <1>1, <1>2, InitHdcIInv, PTL DEF ProgramsSpec, allvars, EveryCallWorks, Hdc!EveryCallWorks
===============================================================================
