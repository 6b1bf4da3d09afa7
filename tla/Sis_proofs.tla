------------------------------ MODULE Sis_proofs ------------------------------
(***************************************************************************)
(* Facts about the frames of a text, for texts of any length; then about   *)
(* the three views of SIS.  The frames of a text carry it whole, once, and *)
(* their headers fit.  The encoder never leaves the range of its frames,   *)
(* for any texts, alerts, services and modes.  The locations of an alert   *)
(* lose nothing to their compression.                                      *)
(***************************************************************************)
EXTENDS Sis, TLAPS

\* The length sent is a natural number within the limit of its text.
LEMMA SentLengthBound ==
    ASSUME NEW t \in Texts, NEW len \in Nat, t = "alert" => len <= 381
    PROVE  SentLength(t, len) \in Nat /\ SentLength(t, len) <= MaxLength(t)
BY DEF Texts, SentLength, MaxLength

\* There are enough frame numbers, and the last frame reaches the end of the text.
LEMMA FramesSuffice ==
    ASSUME NEW t \in Texts, NEW len \in Nat, t = "alert" => len <= 381
    PROVE  /\ FrameCount(t, len) \in Nat \ {0}
           /\ FrameCount(t, len) <= FrameNumbers(t)
           /\ ChunkStart(t, FrameCount(t, len)) >= SentLength(t, len)
<1> DEFINE n == SentLength(t, len)
<1>1. n \in Nat /\ n <= MaxLength(t)
  BY SentLengthBound
<1> HIDE DEF n
<1>2. CASE t = "long_name"
  BY <1>1, <1>2 DEF FrameCount, FrameNumbers, ChunkStart, PerFrame, Header, MaxLength, n
<1>3. CASE t = "message"
  BY <1>1, <1>3 DEF FrameCount, FrameNumbers, ChunkStart, PerFrame, Header, MaxLength, n
<1>4. CASE t = "ussn"
  BY <1>1, <1>4 DEF FrameCount, FrameNumbers, ChunkStart, PerFrame, Header, MaxLength, n
<1>5. CASE t = "slogan"
  BY <1>1, <1>5 DEF FrameCount, FrameNumbers, ChunkStart, PerFrame, Header, MaxLength, n
<1>6. CASE t = "alert"
  BY <1>1, <1>6 DEF FrameCount, FrameNumbers, ChunkStart, PerFrame, Header, MaxLength, n
<1> QED BY <1>2, <1>3, <1>4, <1>5, <1>6 DEF Texts

\* A frame ends where the next one starts.
LEMMA ChunksAdjacent ==
    ASSUME NEW t \in Texts, NEW f \in Nat
    PROVE  /\ ChunkStart(t, f) \in Nat
           /\ ChunkStart(t, f) + ChunkLength(t, f) = ChunkStart(t, f + 1)
           /\ ChunkLength(t, f) \in Nat
           /\ ChunkStart(t, 0) = 0
<1>1. /\ PerFrame(t) \in {6, 7} /\ Header(t) \in 0 .. 3
  BY DEF Texts, PerFrame, Header
<1>2. CASE f = 0
  BY <1>1, <1>2 DEF ChunkStart, ChunkLength
<1>3. CASE f > 0
  <2>1. CASE PerFrame(t) = 6
    BY <1>1, <1>3, <2>1 DEF ChunkStart, ChunkLength
  <2>2. CASE PerFrame(t) = 7
    BY <1>1, <1>3, <2>2 DEF ChunkStart, ChunkLength
  <2> QED BY <1>1, <2>1, <2>2
<1> QED BY <1>2, <1>3
------------------------------------------------------------------------------
\* One text on the air.

\* The initial states satisfy the invariant.
LEMMA InitInv == TextInit => TextIInv
<1> SUFFICES ASSUME TextInit PROVE TextIInv OBVIOUS
<1>1. text \in Texts /\ length \in Nat /\ control \in Nat /\ control <= 63
  <2>1. CASE text \in Texts \ {"alert"} /\ length \in Lengths /\ control = 0
    BY <2>1, LengthsAssumption
  <2>2. ASSUME NEW cnt \in 0 .. 65, NEW txt \in AlertTexts, Accepts(cnt, txt),
               text = "alert", control = cnt, length = cnt + txt
        PROVE  text \in Texts /\ length \in Nat /\ control \in Nat /\ control <= 63
    <3>1. txt \in Nat /\ cnt \in Nat
      BY LengthsAssumption
    <3> QED BY <2>2, <3>1 DEF Accepts, Texts
  <2> QED BY <2>1, <2>2 DEF TextInit
<1>2. text = "alert" => length <= 381
  BY LengthsAssumption DEF TextInit, Accepts
<1>3. SentLength(text, length) \in Nat
  BY <1>1, <1>2, SentLengthBound
<1>4. FrameCount(text, length) \in Nat \ {0}
  BY <1>1, <1>2, FramesSuffice
<1>5. frame = 0 /\ sent = {} /\ rounds = 0
  BY DEF TextInit
<1>6. TextTypeOK
  BY <1>1, <1>3, <1>5 DEF TextTypeOK
<1>7. SentSoFar
  BY <1>1, <1>3, <1>5, ChunksAdjacent DEF SentSoFar
<1> QED BY <1>1, <1>2, <1>4, <1>5, <1>6, <1>7 DEF TextIInv, WholeTextSent, MaxLength

\* Writing a frame preserves it: either the round goes on where it was, or the
\* last frame has just reached the end.
LEMMA StepInv == TextIInv /\ [TextNext]_textvars => TextIInv'
<1> SUFFICES ASSUME TextIInv, [TextNext]_textvars PROVE TextIInv' OBVIOUS
<1>1. CASE UNCHANGED textvars
  BY <1>1 DEF TextIInv, TextTypeOK, SentSoFar, WholeTextSent, textvars
<1>2. CASE TextNext
  <2> USE <1>2 DEF TextNext, WriteFrame
  <2> DEFINE L == SentLength(text, length)
             F == FrameCount(text, length)
             start == ChunkStart(text, frame)
             end == ChunkStart(text, frame + 1)
  <2>1. /\ text \in Texts /\ length \in Nat /\ control \in Nat /\ frame \in Nat
        /\ sent \subseteq 0 .. L - 1 /\ rounds \in {0, 1}
        /\ text = "alert" => length <= 381
        /\ control <= 63 /\ frame < F
    BY DEF TextIInv, TextTypeOK, MaxLength
  <2>2. UNCHANGED <<text, length, control>>
    OBVIOUS
  <2>3. L \in Nat /\ F \in Nat \ {0} /\ ChunkStart(text, F) >= L
    BY <2>1, SentLengthBound, FramesSuffice
  <2>4. /\ start \in Nat /\ end \in Nat
        /\ Chunk(text, frame, length) = {i \in 0 .. L - 1 : i >= start /\ i < end}
    <3>1. start \in Nat /\ end = start + ChunkLength(text, frame) /\ ChunkLength(text, frame) \in Nat
      BY <2>1, ChunksAdjacent
    <3>2. Chunk(text, frame, length) = {i \in start .. end - 1 : i < L}
      BY <3>1 DEF Chunk
    <3> HIDE DEF start, end, L
    <3> QED BY <3>1, <3>2, <2>3
  <2> HIDE DEF L, F, start, end
  <2>5. sent' = sent \cup {i \in 0 .. L - 1 : i >= start /\ i < end}
    BY <2>4
  <2>6. sent' \subseteq 0 .. L - 1
    BY <2>5, <2>1
  <2>7. frame' = (frame + 1) % F
    BY DEF NextFrame, F
  <2>8. frame' \in Nat /\ frame' < F
    BY <2>7, <2>1, <2>3
  <2>9. \/ frame' = frame + 1 /\ frame' # 0
        \/ frame' = 0 /\ frame + 1 = F
    <3>1. CASE frame + 1 = F
      BY <3>1, <2>7, <2>1, <2>3
    <3>2. CASE frame + 1 < F
      BY <3>2, <2>7, <2>1, <2>3
    <3> QED BY <3>1, <3>2, <2>1, <2>3
  <2>10. rounds' = IF frame' = 0 THEN 1 ELSE rounds
    OBVIOUS
  <2>11. rounds = 0 => sent = {i \in 0 .. L - 1 : i < start}
    BY DEF TextIInv, SentSoFar, L, start
  <2>12. rounds = 0 => sent' = {i \in 0 .. L - 1 : i < end}
    <3>1. start <= end
      BY <2>1, ChunksAdjacent DEF start, end
    <3> QED BY <3>1, <2>11, <2>5, <2>4, <2>3
  <2>13. rounds = 1 => sent = 0 .. L - 1
    BY DEF TextIInv, WholeTextSent, L
  <2>14. L' = L /\ F' = F
    BY <2>2 DEF L, F
  <2>15. TextTypeOK'
    BY <2>1, <2>2, <2>6, <2>8, <2>10, <2>14 DEF TextTypeOK, L
  <2>16. SentSoFar'
    <3>1. SUFFICES ASSUME rounds' = 0
                   PROVE  sent' = {i \in 0 .. L - 1 : i < ChunkStart(text, frame')}
      BY <2>2, <2>14 DEF SentSoFar, L
    <3>2. rounds = 0 /\ frame' = frame + 1
      BY <3>1, <2>9, <2>10
    <3> QED BY <3>2, <2>12 DEF end
  <2>17. WholeTextSent'
    <3>1. SUFFICES ASSUME rounds' = 1 PROVE sent' = 0 .. L - 1
      BY <2>2, <2>14 DEF WholeTextSent, L
    <3>2. CASE rounds = 1
      BY <3>2, <2>13, <2>5
    <3>3. CASE rounds = 0
      <4>1. end >= L
        BY <3>3, <3>1, <2>9, <2>10, <2>3 DEF end
      <4> QED BY <4>1, <3>3, <2>12, <2>3, <2>4
    <3> QED BY <3>2, <3>3, <2>1
  <2> QED BY <2>1, <2>2, <2>8, <2>14, <2>15, <2>16, <2>17 DEF TextIInv, MaxLength, F
<1> QED BY <1>1, <1>2

(***************************************************************************)
(* The invariant, for any set of configured lengths and any alert that     *)
(* set_alert accepts.                                                      *)
(***************************************************************************)
THEOREM Invariance == TextSpec => []TextIInv
BY InitInv, StepInv, PTL DEF TextSpec

\* num_frames agrees with the offsets of the frames, for texts of any length.
THEOREM TextsWhole == TextSpec => []WholeTextSent
<1>1. TextIInv => WholeTextSent BY DEF TextIInv
<1> QED BY <1>1, Invariance, PTL

\* No character is sent twice in a round, for texts of any length.
THEOREM EachOnce == TextSpec => []NothingTwice
<1>1. TextIInv => NothingTwice
  <2> SUFFICES ASSUME TextIInv, rounds = 0
               PROVE  sent \cap Chunk(text, frame, length) = {}
    BY DEF NothingTwice
  <2>1. sent = {i \in 0 .. SentLength(text, length) - 1 : i < ChunkStart(text, frame)}
    BY DEF TextIInv, SentSoFar
  <2>2. ChunkStart(text, frame) \in Nat /\ ChunkLength(text, frame) \in Nat
    BY ChunksAdjacent DEF TextIInv, TextTypeOK
  <2>3. SentLength(text, length) \in Nat
    BY SentLengthBound DEF TextIInv, TextTypeOK, MaxLength
  <2>4. \A i \in Chunk(text, frame, length) : i \in Int /\ i >= ChunkStart(text, frame)
    BY <2>2 DEF Chunk
  <2> QED BY <2>1, <2>2, <2>3, <2>4
<1> QED BY <1>1, Invariance, PTL

\* A round of frames is the text, no more and no less, for texts of any length.
THEOREM WholeAndOnce == TextSpec => []SentWholeOnce
<1>1. WholeTextSent /\ NothingTwice => SentWholeOnce BY DEF SentWholeOnce
<1> QED BY <1>1, TextsWhole, EachOnce, PTL

\* Every header fits its fields, for every alert that set_alert accepts.
THEOREM HeadersAlwaysFit == TextSpec => []HeadersFit
<1>1. TextIInv => HeadersFit
  <2> SUFFICES ASSUME TextIInv PROVE HeadersFit OBVIOUS
  <2>1. text \in Texts /\ length \in Nat /\ (text = "alert" => length <= 381)
    BY DEF TextIInv, TextTypeOK, MaxLength
  <2>2. frame \in Nat /\ frame < FrameCount(text, length)
    BY DEF TextIInv, TextTypeOK
  <2>3. /\ FrameCount(text, length) \in Nat
        /\ FrameCount(text, length) <= FrameNumbers(text)
    BY <2>1, FramesSuffice
  <2>4. FrameNumbers(text) \in Nat
    BY <2>1 DEF FrameNumbers, Texts
  <2>5. frame < FrameNumbers(text)
    BY <2>2, <2>3, <2>4
  <2>6. SentLength(text, length) < LengthField(text)
    BY <2>1, SentLengthBound DEF LengthField, MaxLength, Texts
  <2>7. ControlLength(control) < 32
    BY DEF TextIInv, TextTypeOK, ControlLength
  <2> QED BY <2>3, <2>5, <2>6, <2>7 DEF HeadersFit
<1> QED BY <1>1, Invariance, PTL
------------------------------------------------------------------------------
\* The encoder with its schedules.

Payloads(items) == {<<i>> : i \in items} \cup (items \X items)
Plain == {ID, SN, LN, LOC, MSG, SVC, PAR, USSN, SLOGAN}

LEMMA PayloadType ==
    ASSUME NEW S, NEW p \in Payloads(S)
    PROVE  \/ Len(p) = 1 /\ p[1] \in S
           \/ Len(p) = 2 /\ p[1] \in S /\ p[2] \in S
<1>1. CASE p \in {<<i>> : i \in S}
  <2>1. PICK i \in S : p = <<i>>
    BY <1>1
  <2> QED BY <2>1
<1>2. CASE p \in S \X S
  <2>1. p[1] \in S /\ p[2] \in S
    BY <1>2
  <2>2. p = <<p[1], p[2]>>
    BY <1>2
  <2>3. \A a, b : Len(<<a, b>>) = 2
    OBVIOUS
  <2>4. Len(<<p[1], p[2]>>) = 2
    BY <2>3
  <2> QED BY <2>1, <2>2, <2>4
<1> QED BY <1>1, <1>2 DEF Payloads

\* Without an alert no block of the schedule holds one.
LEMMA PlainSchedules ==
    ASSUME NEW m \in {"FM", "AM"}
    PROVE  /\ ShortNoEA(m) \in [1 .. BlocksPerFrame(m) -> Payloads(Plain)]
           /\ LongNoEA(m) \in [1 .. BlocksPerFrame(m) -> Payloads(Plain)]
<1>1. CASE m = "FM"
  BY <1>1 DEF ShortNoEA, LongNoEA, Payloads, Plain, BlocksPerFrame
<1>2. CASE m = "AM"
  BY <1>2 DEF ShortNoEA, LongNoEA, Payloads, Plain, BlocksPerFrame
<1> QED BY <1>1, <1>2

LEMMA AlertSchedules ==
    ASSUME NEW m \in {"FM", "AM"}
    PROVE  /\ ShortEA(m) \in [1 .. BlocksPerFrame(m) -> Payloads(Plain \cup {EA})]
           /\ LongEA(m) \in [1 .. BlocksPerFrame(m) -> Payloads(Plain \cup {EA})]
<1>1. CASE m = "FM"
  BY <1>1 DEF ShortEA, LongEA, Payloads, Plain, BlocksPerFrame
<1>2. CASE m = "AM"
  BY <1>2 DEF ShortEA, LongEA, Payloads, Plain, BlocksPerFrame
<1> QED BY <1>1, <1>2

\* The items whose frame must be in range: all, but for the alert if none is set.
InUse == Items \ (IF emergency_alert = NoAlert THEN {EA} ELSE {})

LEMMA ScheduledInUse ==
    ASSUME mode \in {"FM", "AM"}, NEW b \in 1 .. BlocksPerFrame(mode)
    PROVE  \/ Len(Schedule[b]) = 1 /\ Schedule[b][1] \in InUse
           \/ Len(Schedule[b]) = 2 /\ Schedule[b][1] \in InUse /\ Schedule[b][2] \in InUse
<1>1. /\ Plain \subseteq Items \ {EA}
      /\ Plain \cup {EA} = Items
  BY DEF Plain, Items, ID, SN, LN, LOC, MSG, SVC, PAR, USSN, SLOGAN, EA
<1>2. CASE emergency_alert = NoAlert
  <2>1. Schedule[b] \in Payloads(Plain)
    BY <1>2, PlainSchedules DEF Schedule
  <2> QED BY <1>1, <1>2, <2>1, PayloadType DEF InUse
<1>3. CASE emergency_alert # NoAlert
  <2>1. Schedule[b] \in Payloads(Plain \cup {EA})
    BY <1>3, AlertSchedules DEF Schedule
  <2> QED BY <1>1, <1>3, <2>1, PayloadType DEF InUse
<1> QED BY <1>2, <1>3

LEMMA PlainFrames ==
    ASSUME NEW len \in Nat
    PROVE  /\ FrameCount("long_name", len) \in Nat \ {0}
           /\ FrameCount("message", len) \in Nat \ {0}
           /\ FrameCount("ussn", len) \in Nat \ {0}
           /\ FrameCount("slogan", len) \in Nat \ {0}
           /\ len <= 381 => FrameCount("alert", len) \in Nat \ {0}
<1>1. ASSUME NEW t \in Texts, t = "alert" => len <= 381
      PROVE  FrameCount(t, len) \in Nat \ {0}
  BY <1>1, FramesSuffice
<1>2. /\ "long_name" \in Texts /\ "message" \in Texts /\ "ussn" \in Texts
      /\ "slogan" \in Texts /\ "alert" \in Texts
  BY DEF Texts
<1>3. /\ "long_name" # "alert" /\ "message" # "alert"
      /\ "ussn" # "alert" /\ "slogan" # "alert"
  OBVIOUS
<1> QED BY <1>1, <1>2, <1>3

\* Every item has at least one frame.
LEMMA PeriodPositive ==
    ASSUME AlertReadable, emergency_alert = NoAlert \/ emergency_alert \in Alerts,
           NEW i \in InUse
    PROVE  Period(i) \in Nat \ {0}
<1>1. i \in Items
  BY DEF InUse
<1> USE DEF LN, MSG, USSN, SLOGAN, EA, LOC, SVC, PAR, ID, SN
<1>t. /\ FrameCount("long_name", LongName) \in Nat \ {0}
      /\ FrameCount("message", Message) \in Nat \ {0}
      /\ FrameCount("ussn", Ussn) \in Nat \ {0}
      /\ FrameCount("slogan", Slogan) \in Nat \ {0}
  BY TextsAssumption, PlainFrames
<1>2. CASE i = LN
  BY <1>2, <1>t DEF Period
<1>3. CASE i = MSG
  BY <1>3, <1>t DEF Period
<1>4. CASE i = USSN
  BY <1>4, <1>t DEF Period
<1>5. CASE i = SLOGAN
  BY <1>5, <1>t DEF Period
<1>6. CASE i = EA
  <2>1. emergency_alert # NoAlert
    BY <1>6 DEF InUse
  <2>2. /\ emergency_alert.cnt \in Nat /\ emergency_alert.text \in Nat
        /\ emergency_alert.cnt + emergency_alert.text <= 381
    BY <2>1, AlertsAssumption DEF AlertReadable, Accepts
  <2>3. AlertFrames(emergency_alert) \in Nat \ {0}
    BY <2>2, PlainFrames DEF AlertFrames
  <2> QED BY <1>6, <2>3 DEF Period
<1>7. CASE i \in {LOC, SVC, PAR}
  BY <1>7, CountsAssumption DEF Period
<1>8. CASE i \in {ID, SN}
  BY <1>8 DEF Period
<1> QED BY <1>1, <1>2, <1>3, <1>4, <1>5, <1>6, <1>7, <1>8 DEF Items

InRange(c) == c \in [Items -> Nat] /\ \A i \in InUse : c[i] < Period(i)

\* Sending a frame of an item keeps every item in range.
LEMMA AdvanceInRange ==
    ASSUME AlertReadable, emergency_alert = NoAlert \/ emergency_alert \in Alerts,
           NEW c, InRange(c), NEW i \in InUse
    PROVE  InRange(Advance(c, i))
<1>1. Period(i) \in Nat \ {0}
  BY PeriodPositive
<1>2. c \in [Items -> Nat] /\ i \in Items /\ InUse \subseteq Items
  BY DEF InRange, InUse
<1> DEFINE q == Period(i)
           v == c[i]
<1>3. v \in Nat /\ q \in Nat \ {0}
  BY <1>1, <1>2
<1> HIDE DEF q, v
<1>4. (v + 1) % q \in Nat /\ (v + 1) % q < q
  BY <1>3
<1>5. Advance(c, i) = [c EXCEPT ![i] = (v + 1) % q]
  BY DEF Advance, q, v
<1>6. Advance(c, i) \in [Items -> Nat]
  BY <1>2, <1>4, <1>5
<1>7. ASSUME NEW j \in InUse PROVE Advance(c, i)[j] < Period(j)
  <2>1. CASE j = i
    BY <2>1, <1>2, <1>4, <1>5 DEF q
  <2>2. CASE j # i
    BY <2>2, <1>2, <1>5 DEF InRange
  <2> QED BY <2>1, <2>2
<1> QED BY <1>6, <1>7 DEF InRange

\* The initial states satisfy the invariant.
LEMMA InitIInv == Init => IInv
<1> SUFFICES ASSUME Init PROVE IInv OBVIOUS
<1>1. mode \in {"FM", "AM"}
  BY SwitchesAssumption DEF Init
<1>2. emergency_alert = NoAlert /\ AlertReadable
  BY DEF Init, AlertReadable
<1>3. BlocksPerFrame(mode) \in {8, 16}
  BY DEF BlocksPerFrame
<1>4. TypeOK
  <2>1. blocks_allowed \in Nat /\ block \in 0 .. BlocksPerFrame(mode) - 1 /\ block = 0
    BY <1>3 DEF Init
  <2> QED BY <2>1, <1>2, CountsAssumption DEF Init, TypeOK
<1>5. FrameInRange
  <2>1. ASSUME NEW i \in InUse PROVE current[i] < Period(i)
    <3>1. Period(i) \in Nat \ {0}
      BY <1>2, PeriodPositive
    <3>2. current[i] = 0
      BY DEF Init, InUse
    <3> QED BY <3>1, <3>2
  <2> QED BY <2>1 DEF FrameInRange, InUse
<1> QED BY <1>2, <1>4, <1>5 DEF IInv

\* Every step preserves it.
LEMMA StepIInv == IInv /\ [Next]_vars => IInv'
<1> SUFFICES ASSUME IInv, [Next]_vars PROVE IInv' OBVIOUS
<1>1. /\ TypeOK /\ FrameInRange /\ AlertReadable
      /\ mode \in {"FM", "AM"}
      /\ BlocksPerFrame(mode) \in {8, 16}
      /\ emergency_alert = NoAlert \/ emergency_alert \in Alerts
  BY SwitchesAssumption DEF IInv, TypeOK, BlocksPerFrame
<1>2. CASE UNCHANGED vars
  BY <1>2, <1>1 DEF vars, settings, alertvars, IInv, TypeOK, FrameInRange, AlertReadable, Period
<1>3. CASE WriteBlock
  <2> USE <1>3
  <2> DEFINE p == Schedule[block + 1]
             n == BlocksPerFrame(mode)
  <2>1. block + 1 \in 1 .. n
    BY <1>1 DEF TypeOK
  <2>2. \/ Len(p) = 1 /\ p[1] \in InUse
        \/ Len(p) = 2 /\ p[1] \in InUse /\ p[2] \in InUse
    BY <1>1, <2>1, ScheduledInUse
  <2>3. InRange(current)
    BY <1>1 DEF TypeOK, FrameInRange, InRange, InUse
  <2>4. InRange(current')
    <3>1. current' = After(current, p)
      BY DEF WriteBlock
    <3> HIDE DEF p
    <3>2. CASE Len(p) = 1 /\ p[1] \in InUse
      BY <3>1, <3>2, <2>3, <1>1, AdvanceInRange DEF After
    <3>3. CASE Len(p) = 2 /\ p[1] \in InUse /\ p[2] \in InUse
      <4>1. InRange(Advance(current, p[1]))
        BY <3>3, <2>3, <1>1, AdvanceInRange
      <4>2. InRange(Advance(Advance(current, p[1]), p[2]))
        BY <4>1, <3>3, <1>1, AdvanceInRange
      <4> QED BY <3>1, <3>3, <4>2 DEF After
    <3> QED BY <2>2, <3>2, <3>3
  <2>5. UNCHANGED <<settings, alertvars>>
    BY DEF WriteBlock
  <2>6. FrameInRange' /\ current' \in [Items -> Nat]
    BY <2>4, <2>5 DEF FrameInRange, InRange, InUse, alertvars, Period
  <2>7. AlertReadable'
    BY <1>1, <2>5 DEF AlertReadable, alertvars
  <2>8. /\ n \in {8, 16} /\ n' = n
        /\ block \in 0 .. n - 1 /\ blocks_allowed \in Nat /\ blocks_allowed >= n
    BY <1>1, <2>5 DEF TypeOK, WriteBlock, MayWrite, settings, BlocksPerFrame
  <2>9. /\ block' = IF block + 1 = n THEN 0 ELSE block + 1
        /\ blocks_allowed' = IF block + 1 = n THEN blocks_allowed - n ELSE blocks_allowed
        /\ unseen' \in {0, unseen}
    BY DEF WriteBlock
  <2> HIDE DEF n
  <2>10. /\ block' \in 0 .. n - 1 /\ blocks_allowed' \in Nat
         /\ block' > 0 => blocks_allowed' >= n
    BY <2>8, <2>9
  <2>11. TypeOK'
    <3>1. unseen' \in 0 .. MaxUnseen
      BY <1>1, <2>9, CountsAssumption DEF TypeOK
    <3> QED BY <1>1, <2>5, <2>6, <2>8, <2>10, <3>1 DEF TypeOK, settings, alertvars, n
  <2> QED BY <2>6, <2>7, <2>11 DEF IInv
<1>4. CASE HandleClock
  <2>1. /\ UNCHANGED <<settings, block, current, alertvars, unseen>> /\ block = 0
        /\ blocks_allowed' = blocks_allowed + BlocksPerFrame(mode)
    BY <1>4 DEF HandleClock
  <2>2. blocks_allowed' \in Nat
    BY <1>1, <2>1 DEF TypeOK
  <2>3. TypeOK'
    BY <1>1, <2>1, <2>2 DEF TypeOK, settings, alertvars
  <2> QED BY <1>1, <2>1, <2>3 DEF IInv, FrameInRange, AlertReadable, settings, alertvars, Period
<1>5. ASSUME NEW a \in Alerts, SetAlert(a) PROVE IInv'
  <2>1. /\ UNCHANGED <<settings, blocks_allowed, block>>
        /\ emergency_alert' = a /\ Accepts(a.cnt, a.text)
        /\ current' = [current EXCEPT ![EA] = 0]
        /\ emergency_alert_seq' = (emergency_alert_seq + 1) % 4
        /\ unseen' = unseen + 1 /\ unseen < MaxUnseen
    BY <1>5 DEF SetAlert, Restarted, NextSeq
  <2>2. AlertReadable' /\ (emergency_alert' = NoAlert \/ emergency_alert' \in Alerts)
    BY <2>1 DEF AlertReadable
  <2>3. emergency_alert_seq' \in 0 .. 3 /\ unseen' \in 0 .. MaxUnseen
    BY <1>1, <2>1, CountsAssumption DEF TypeOK
  <2>4. current \in [Items -> Nat] /\ current' \in [Items -> Nat]
    BY <1>1, <2>1 DEF TypeOK
  <2>5. FrameInRange'
    <3>1. ASSUME NEW i \in InUse' PROVE current'[i] < Period(i)'
      <4>1. i \in Items
        BY DEF InUse
      <4>2. CASE i = EA
        <5>1. Period(EA)' \in Nat \ {0}
          <6>1. a.cnt \in Nat /\ a.text \in Nat /\ a.cnt + a.text <= 381
            BY <2>1, AlertsAssumption DEF Accepts
          <6>2. AlertFrames(a) \in Nat \ {0}
            BY <6>1, PlainFrames DEF AlertFrames
          <6>3. Period(EA)' = AlertFrames(emergency_alert)'
            BY DEF Period, LN, MSG, USSN, SLOGAN, EA, LOC, SVC, PAR
          <6>4. AlertFrames(emergency_alert)' = AlertFrames(a)
            BY <2>1 DEF AlertFrames
          <6> QED BY <6>2, <6>3, <6>4
        <5>2. current'[EA] = 0
          BY <2>1, <2>4, <4>1, <4>2
        <5> QED BY <5>1, <5>2, <4>2
      <4>3. CASE i # EA
        <5>1. current'[i] = current[i] /\ i \in InUse
          BY <2>1, <2>4, <4>1, <4>3 DEF InUse
        <5>2. Period(i)' = Period(i)
          BY <4>3 DEF Period
        <5> QED BY <5>1, <5>2, <1>1 DEF FrameInRange, InUse
      <4> QED BY <4>2, <4>3
    <3> QED BY <3>1 DEF FrameInRange, InUse
  <2>6. TypeOK'
    BY <1>1, <2>1, <2>2, <2>3, <2>4 DEF TypeOK, settings
  <2> QED BY <2>2, <2>5, <2>6 DEF IInv
<1>6. CASE ClearAlert
  <2>1. /\ UNCHANGED <<settings, blocks_allowed, block, current, emergency_alert_seq, unseen>>
        /\ emergency_alert' = NoAlert
    BY <1>6 DEF ClearAlert
  <2>2. AlertReadable'
    BY <2>1 DEF AlertReadable
  <2>3. TypeOK'
    BY <1>1, <2>1 DEF TypeOK, settings
  <2>4. FrameInRange'
    <3>1. ASSUME NEW i \in InUse' PROVE current'[i] < Period(i)'
      <4>1. i \in InUse /\ i # EA
        BY <2>1 DEF InUse
      <4>2. Period(i)' = Period(i)
        BY <4>1 DEF Period
      <4> QED BY <4>1, <4>2, <2>1, <1>1 DEF FrameInRange, InUse
    <3> QED BY <3>1 DEF FrameInRange, InUse
  <2> QED BY <2>2, <2>3, <2>4 DEF IInv
<1> QED BY <1>2, <1>3, <1>4, <1>5, <1>6 DEF Next

(***************************************************************************)
(* No item is ever at a frame it does not have: emergency_alert.at(i) and  *)
(* the texts' offsets stay in bounds however alerts replace each other.    *)
(***************************************************************************)
THEOREM AlwaysInRange == Spec => []FrameInRange
<1>1. IInv => FrameInRange BY DEF IInv
<1> QED BY <1>1, InitIInv, StepIInv, PTL DEF Spec

\* Type correctness; in particular the credit never becomes negative.
THEOREM TypeCorrect == Spec => []TypeOK
<1>1. IInv => TypeOK BY DEF IInv
<1> QED BY <1>1, InitIInv, StepIInv, PTL DEF Spec

\* A frame of the present alert joins frames of the same alert, or none.
LEMMA CollectUnmixed ==
    ASSUME NEW f \in Nat, emergency_alert \in Alerts,
           heard.seq = emergency_alert_seq =>
               \A k \in DOMAIN heard.ids : heard.ids[k] \in {0, emergency_alert.id}
    PROVE  /\ Collect(f).seq = emergency_alert_seq
           /\ \A k \in DOMAIN Collect(f).ids : Collect(f).ids[k] \in {0, emergency_alert.id}
<1> DEFINE A == 1 .. AlertFrames(emergency_alert)
           blank == [k \in A |-> 0]
           joined == [k \in DOMAIN blank \cup DOMAIN heard.ids |->
                         IF k \in DOMAIN heard.ids THEN heard.ids[k] ELSE 0]
           kept == IF heard.seq # emergency_alert_seq THEN blank ELSE joined
           id == emergency_alert.id
<1>1. /\ Collect(f).seq = emergency_alert_seq
      /\ Collect(f).ids = [kept EXCEPT ![f + 1] = id]
  BY DEF Collect
<1>2. \A k \in DOMAIN kept : kept[k] \in {0, id}
  <2>1. CASE heard.seq # emergency_alert_seq
    BY <2>1
  <2>2. CASE heard.seq = emergency_alert_seq
    <3>1. \A k \in DOMAIN joined : joined[k] \in {0, id}
      BY <2>2
    <3> QED BY <2>2, <3>1
  <2> QED BY <2>1, <2>2
<1> HIDE DEF kept, id
<1>3. /\ DOMAIN [kept EXCEPT ![f + 1] = id] = DOMAIN kept
      /\ \A k \in DOMAIN kept :
            [kept EXCEPT ![f + 1] = id][k] = IF k = f + 1 THEN id ELSE kept[k]
  OBVIOUS
<1>4. \A k \in DOMAIN [kept EXCEPT ![f + 1] = id] : [kept EXCEPT ![f + 1] = id][k] \in {0, id}
  BY <1>2, <1>3
<1> QED BY <1>1, <1>4 DEF id

\* Moved by one to three, a two-bit sequence number is another one.
LEMMA SeqMoves ==
    ASSUME NEW s \in 0 .. 3, NEW n \in 1 .. 3
    PROVE  (s + n) % 4 # s
OBVIOUS

LEMMA StepHeardInv ==
    ASSUME MaxUnseen <= 3
    PROVE  IInv /\ HeardInv /\ [Next]_vars => HeardInv'
<1> SUFFICES ASSUME IInv, HeardInv, [Next]_vars PROVE HeardInv' OBVIOUS
<1>1. /\ heard.seq \in 0 .. 3 /\ unseen \in 0 .. MaxUnseen
      /\ emergency_alert_seq = (heard.seq + unseen) % 4
      /\ emergency_alert = NoAlert \/ emergency_alert \in Alerts
      /\ emergency_alert_seq \in 0 .. 3
  BY DEF HeardInv, IInv, TypeOK
<1>2. CASE UNCHANGED vars
  BY <1>2 DEF vars, alertvars, HeardInv, AlertUnmixed
<1>3. CASE WriteBlock
  <2>1. UNCHANGED alertvars
    BY <1>3 DEF WriteBlock
  <2>2. CASE Schedule[block + 1][1] # EA
    <3>1. UNCHANGED <<heard, unseen>>
      BY <1>3, <2>2 DEF WriteBlock
    <3> QED BY <2>1, <3>1 DEF HeardInv, AlertUnmixed, alertvars
  <2>3. CASE Schedule[block + 1][1] = EA
    <3>1. heard' = Collect(current[EA]) /\ unseen' = 0
      BY <1>3, <2>3 DEF WriteBlock
    <3>2. emergency_alert # NoAlert
      <4>1. mode \in {"FM", "AM"} /\ block + 1 \in 1 .. BlocksPerFrame(mode)
        BY SwitchesAssumption DEF IInv, TypeOK, BlocksPerFrame
      <4>2. Schedule[block + 1][1] \in InUse
        BY <4>1, ScheduledInUse
      <4> QED BY <4>2, <2>3 DEF InUse
    <3>3. heard.seq = emergency_alert_seq =>
              \A k \in DOMAIN heard.ids : heard.ids[k] \in {0, emergency_alert.id}
      <4>1. CASE unseen = 0
        BY <4>1, <3>2 DEF HeardInv
      <4>2. CASE unseen # 0
        <5>1. unseen \in 1 .. 3
          BY <4>2, <1>1, CountsAssumption
        <5> QED BY <5>1, <1>1, SeqMoves
      <4> QED BY <4>1, <4>2
    <3>4. current[EA] \in Nat
      BY DEF IInv, TypeOK, Items, EA
    <3>5. /\ heard'.seq = emergency_alert_seq
          /\ \A k \in DOMAIN heard'.ids : heard'.ids[k] \in {0, emergency_alert.id}
      BY <3>1, <3>2, <3>3, <3>4, <1>1, CollectUnmixed
    <3>6. AlertUnmixed'
      BY <3>5 DEF AlertUnmixed
    <3>7. emergency_alert_seq' = (heard'.seq + unseen') % 4
      BY <2>1, <3>1, <3>5, <1>1 DEF alertvars
    <3> QED BY <2>1, <3>5, <3>6, <3>7, <1>1 DEF HeardInv, alertvars
  <2> QED BY <2>2, <2>3
<1>4. CASE HandleClock
  BY <1>4 DEF HandleClock, HeardInv, AlertUnmixed, alertvars
<1>5. ASSUME NEW a \in Alerts, SetAlert(a) PROVE HeardInv'
  <2>1. /\ UNCHANGED heard /\ unseen' = unseen + 1
        /\ emergency_alert_seq' = (emergency_alert_seq + 1) % 4
    BY <1>5 DEF SetAlert, NextSeq
  <2>2. emergency_alert_seq' = (heard.seq + unseen') % 4
    <3>1. unseen \in Nat
      BY <1>1, CountsAssumption
    <3> QED BY <1>1, <2>1, <3>1
  <2>3. unseen' # 0
    BY <1>1, <2>1, CountsAssumption
  <2> QED BY <1>1, <2>1, <2>2, <2>3 DEF HeardInv, AlertUnmixed
<1>6. CASE ClearAlert
  BY <1>6 DEF ClearAlert, HeardInv, AlertUnmixed
<1> QED BY <1>2, <1>3, <1>4, <1>5, <1>6 DEF Next

(***************************************************************************)
(* A receiver never mixes two alerts, whatever alerts are set and cleared  *)
(* in whatever order, if no more than three are set between two blocks of  *)
(* an alert.                                                               *)
(***************************************************************************)
THEOREM NeverMixed ==
    ASSUME MaxUnseen <= 3
    PROVE  Spec => []AlertUnmixed
<1>1. Init => HeardInv
  BY DEF Init, HeardInv, AlertUnmixed
<1>2. HeardInv => AlertUnmixed
  BY DEF HeardInv
<1>3. IInv /\ HeardInv /\ [Next]_vars => HeardInv'
  BY StepHeardInv
<1> QED BY <1>1, <1>2, <1>3, InitIInv, StepIInv, PTL DEF Spec
------------------------------------------------------------------------------
\* The client that makes the control data of an alert.

\* The digits of a location, and their number.
First == 0 .. 9
Middle == 0 .. 99
Last == 0 .. 999
Code(f, m, t) == f * 100000 + m * 1000 + t

\* The digits of a location are found again in it.
LEMMA DigitsOf ==
    ASSUME NEW f \in First, NEW m \in Middle, NEW t \in Last
    PROVE  /\ Client!middle_digits(Code(f, m, t)) = m
           /\ Client!compress(Code(f, m, t)) = f * 1000 + t
<1>1. Code(f, m, t) \div 100000 = f /\ Code(f, m, t) % 100000 = m * 1000 + t
  BY SMT DEF Code, First, Middle, Last
<1>2. Client!middle_digits(Code(f, m, t)) = m
  BY <1>1, SMT DEF Client!middle_digits, Middle, Last
<1>3. Code(f, m, t) % 1000 = t
  BY SMT DEF Code, First, Middle, Last
<1> QED BY <1>1, <1>2, <1>3, SMT DEF Client!compress, First, Last

\* Every field has bits enough for what is put into it.
LEMMA FieldsSuffice ==
    ASSUME location_format \in Client!Formats, NEW f \in First, NEW m \in Middle, NEW t \in Last,
           location_format # "same" => f = 0
    PROVE  /\ Client!Kept(Code(f, m, t), Client!full_len) = Code(f, m, t)
           /\ Client!Kept(f * 1000 + t, Client!compressed_len) = f * 1000 + t
<1>1. 2 ^ 20 = 1048576 /\ 2 ^ 17 = 131072 /\ 2 ^ 14 = 16384 /\ 2 ^ 10 = 1024
  BY SMT
<1>2. /\ Code(f, m, t) \in Nat /\ Code(f, m, t) <= 999999
      /\ f = 0 => Code(f, m, t) <= 99999
  BY SMT DEF Code, First, Middle, Last
<1>5. /\ f * 1000 + t \in Nat /\ f * 1000 + t <= 9999
      /\ f = 0 => f * 1000 + t <= 999
  BY SMT DEF First, Last
<1>3. CASE location_format = "same"
  BY <1>1, <1>2, <1>5, <1>3, SMT DEF Client!Kept, Client!full_len, Client!compressed_len
<1>4. CASE location_format # "same"
  BY <1>1, <1>2, <1>5, <1>4, SMT DEF Client!Kept, Client!full_len, Client!compressed_len
<1> QED BY <1>3, <1>4

\* What the receiver made of the last location, and what that may be.
ClientIInv ==
    /\ location_format \in Client!Formats
    /\ seen = last
    /\ \E f \in First, m \in Middle, t \in Last : last = Code(f, m, t)

LEMMA ClientStep == ClientIInv /\ Client!AddLocation => ClientIInv'
<1> SUFFICES ASSUME ClientIInv, Client!AddLocation PROVE ClientIInv'
  OBVIOUS
<1>1. PICK l \in Client!Locations(location_format) :
         /\ Client!FirstLocation(l) \/ Client!NextLocation(l)
         /\ last' = l /\ location_format' = location_format
  BY DEF Client!AddLocation
<1>2. PICK f \in First, m \in Middle, t \in Last :
         (location_format # "same" => f = 0) /\ l = Code(f, m, t)
  <2>1. PICK d \in Digits : /\ location_format # "same" => d.first = 0
                            /\ l = Code(d.first, d.middle, d.last)
    BY <1>1 DEF Client!Locations, Code
  <2>2. d.first \in First /\ d.middle \in Middle /\ d.last \in Last
    BY DigitsAssumption DEF First, Middle, Last
  <2> QED BY <2>1, <2>2
<1>3. location_format \in Client!Formats /\ seen = last
  BY DEF ClientIInv
<1>4. Client!middle_digits(l) = m /\ Client!compress(l) = f * 1000 + t
  BY <1>2, DigitsOf
<1>5. /\ Client!Kept(l, Client!full_len) = l
      /\ Client!Kept(Client!compress(l), Client!compressed_len) = f * 1000 + t
  BY <1>2, <1>3, <1>4, FieldsSuffice
<1>6. seen' = l => ClientIInv'
  BY <1>1, <1>2, <1>3 DEF ClientIInv
<1>7. ASSUME Client!Alike(l),
             seen' = Client!Expanded(Client!Kept(Client!compress(l), Client!compressed_len))
      PROVE  seen' = l
  <2>1. (f * 1000 + t) \div 1000 = f /\ (f * 1000 + t) % 1000 = t
    BY SMT DEF First, Last
  <2>2. Client!middle_digits(seen) = m
    BY <1>3, <1>4, <1>7 DEF Client!Alike
  <2> QED BY <1>2, <1>5, <1>7, <2>1, <2>2, SMT DEF Client!Expanded, Code, First, Middle, Last
<1> QED BY <1>1, <1>5, <1>6, <1>7 DEF Client!FirstLocation, Client!NextLocation

\* A receiver finds every location of an alert again, for any locations in any
\* number, in the order in which the client sorts them.
THEOREM LocationsAlwaysRecovered == SisSpec => []LocationsRecovered
<1>1. SisInit => ClientIInv
  <2>1. 0 = Code(0, 0, 0) /\ 0 \in First /\ 0 \in Middle /\ 0 \in Last
    BY SMT DEF Code, First, Middle, Last
  <2> QED BY <2>1 DEF SisInit, Client!Init, ClientIInv
<1>2. ClientIInv /\ [SisNext]_<<part, vars, textvars, clientvars>> => ClientIInv'
  <2> SUFFICES ASSUME ClientIInv, [SisNext]_<<part, vars, textvars, clientvars>> PROVE ClientIInv'
    OBVIOUS
  <2>1. UNCHANGED clientvars \/ Client!AddLocation
    BY DEF SisNext, Encoder, TextFrame, AddLocation, Finished
  <2>2. CASE UNCHANGED clientvars
    BY <2>2 DEF ClientIInv, clientvars
  <2> QED BY <2>1, <2>2, ClientStep
<1>3. ClientIInv => LocationsRecovered
  BY DEF ClientIInv, LocationsRecovered, Client!LocationsRecovered
<1> QED BY <1>1, <1>2, <1>3, PTL DEF SisSpec
==============================================================================
