---------------------------- MODULE Layer2_proofs ----------------------------
(***************************************************************************)
(* Proofs about the parts of layer 2, for any programs, packets and sizes: *)
(* the audio transport implements the pipe of packets, a section that      *)
(* starts with room enough stays in the PDU, and one program whose bit     *)
(* rate fits keeps up; a receiver undoes hdlc_encode; it can read the      *)
(* header in front of each section; decode_sig reads what generate_sig     *)
(* wrote; and header_spread fills a PDU with the whole header in it.       *)
(***************************************************************************)
EXTENDS Layer2, NumberTheorems, SequenceTheorems

\* Bytes the first packet of a program's section needs before the scan has begun.
Rest(p) == IF partial_bytes[p] > 0 THEN Overhead(1) + partial_bytes[p] + 1 ELSE Overhead(0)

SplitLen == IF begin_bytes > 0 THEN begin_bytes + 1 ELSE 0

AudioTypes ==
    /\ hdc \in [Programs -> Seq(AllLens)]
    /\ partial_bytes \in [Programs -> Nat] /\ rx \in [Programs -> Nat]
    /\ got \in [Programs -> Seq(Nat)]
    /\ prog \in 0 .. NumProgs /\ out_program \in Nat /\ scanning \in BOOLEAN
    /\ nop \in Nat /\ audio_length \in Nat /\ begin_bytes \in Nat /\ end_bytes \in Nat

\* What the receiver kept of a packet and what is still to be sent are the packet.
RestInv ==
    \A p \in Programs : partial_bytes[p] > 0 =>
        /\ Len(hdc[p]) > 0 /\ partial_bytes[p] < hdc[p][1]
        /\ rx[p] + partial_bytes[p] = hdc[p][1]

\* The packets that the scan counted are there; the last one may be split, but not
\* one that was split before.
ScanInv ==
    /\ scanning => prog # 0 /\ begin_bytes = 0
    /\ prog # 0 => /\ nop <= Len(hdc[prog])
                   /\ partial_bytes[prog] > 0 => nop > 0
                   /\ begin_bytes = 0 => end_bytes = 0
                   /\ begin_bytes > 0 => /\ nop > (IF partial_bytes[prog] > 0 THEN 1 ELSE 0)
                                         /\ end_bytes > 0 /\ begin_bytes + end_bytes = hdc[prog][nop]

\* audio_length counts what the section will hold, and it fits if it could at the start.
RoomInv ==
    prog # 0 =>
        /\ SumLens(Section(prog).segs) + nop = audio_length + SplitLen
        /\ Rest(prog) <= BytesLeft => Overhead(nop) + audio_length + SplitLen <= BytesLeft

AudioIInv == AudioTypes /\ RestInv /\ ScanInv /\ RoomInv

-------------------------------------------------------------------------------
LEMMA OverheadFacts ==
    ASSUME NEW n \in Nat
    PROVE  Overhead(n) \in Nat /\ Overhead(n + 1) >= Overhead(n)
<1>1. LcBits \in Nat /\ FixedLen \in Nat
  BY LcBitsAssumption, LengthsAssumption
<1>2. CASE LcBits = 12
  BY <1>1, <1>2 DEF Overhead, len_locators
<1>3. CASE LcBits = 16
  BY <1>1, <1>3 DEF Overhead, len_locators
<1> QED BY <1>2, <1>3, LcBitsAssumption

LEMMA LensFacts == AllLens \subseteq Nat \ {0} /\ 0 \notin Programs /\ NumProgs \in Nat \ {0}
BY ProgramsAssumption DEF AllLens, Programs

\* A sum of natural numbers is one.
LEMMA SumFacts ==
    ASSUME NEW n \in Nat, NEW s \in [1 .. n -> Nat]
    PROVE  SumLens(s) \in Nat
<1>1. SumLens(s) = Total(s)
  BY DEF SumLens, Total
<1> QED BY <1>1, TotalBounds

\* The packets of a section.
LEMMA SegmentsFacts ==
    ASSUME AudioIInv, prog # 0
    PROVE  /\ prog \in Programs /\ hdc[prog] \in Seq(AllLens) /\ Len(hdc[prog]) \in Nat
           /\ \A z \in 1 .. Len(hdc[prog]) : hdc[prog][z] \in Nat \ {0}
           /\ Section(prog).segs = [z \in 1 .. nop |-> Segment(prog, z)]
           /\ \A z \in 1 .. nop : Segment(prog, z) \in Nat
           /\ Section(prog).segs \in [1 .. nop -> Nat] /\ Len(Section(prog).segs) = nop
<1>1. prog \in Programs
  BY DEF AudioIInv, AudioTypes, Programs
<1>2. hdc[prog] \in Seq(AllLens) /\ Len(hdc[prog]) \in Nat /\ \A z \in 1 .. Len(hdc[prog]) : hdc[prog][z] \in AllLens
  BY <1>1 DEF AudioIInv, AudioTypes
<1>3. Section(prog).segs = [z \in 1 .. nop |-> Segment(prog, z)]
  BY DEF Section
<1>4. \A z \in 1 .. nop : Segment(prog, z) \in Nat
  <2> SUFFICES ASSUME NEW z \in 1 .. nop PROVE Segment(prog, z) \in Nat
    OBVIOUS
  <2>1. z \in 1 .. Len(hdc[prog])
    BY <1>2 DEF AudioIInv, ScanInv, AudioTypes
  <2>2. hdc[prog][z] \in Nat
    BY <1>2, <2>1, LensFacts
  <2>3. partial_bytes[prog] \in Nat /\ begin_bytes \in Nat
    BY <1>1 DEF AudioIInv, AudioTypes
  <2> QED BY <2>2, <2>3 DEF Segment
<1>5. nop \in Nat
  BY DEF AudioIInv, AudioTypes
<1>6. \A z \in 1 .. Len(hdc[prog]) : hdc[prog][z] \in Nat \ {0}
  BY <1>2, LensFacts
<1>7. [z \in 1 .. nop |-> Segment(prog, z)] \in [1 .. nop -> Nat]
  BY <1>4
<1>8. Len([z \in 1 .. nop |-> Segment(prog, z)]) = nop
  BY <1>5
<1> QED BY <1>1, <1>2, <1>3, <1>4, <1>6, <1>7, <1>8

\* One segment more.
LEMMA SumStep ==
    ASSUME NEW n \in Nat, NEW s \in [1 .. n -> Nat], NEW s2 \in [1 .. n + 1 -> Nat],
           \A k \in 1 .. n : s2[k] = s[k]
    PROVE  SumLens(s2) = SumLens(s) + s2[n + 1] /\ SumLens(s) \in Int
<1>1. s \in [1 .. n -> Int] /\ s2 \in [1 .. n + 1 -> Int]
  OBVIOUS
<1>2. Total(s2) = Total(s) + s2[n + 1] /\ Total(s) \in Int
  BY <1>1, TotalStep
<1> QED BY <1>2 DEF SumLens, Total

LEMMA SumOfNone ==
    ASSUME NEW s \in [1 .. 0 -> Nat]
    PROVE  SumLens(s) = 0
<1>1. s = << >>
  OBVIOUS
<1> QED BY <1>1, TotalEmpty DEF SumLens, Total

\* The scan of a program starts with the rest of its split packet.
LEMMA BeginScanFacts ==
    ASSUME NEW p \in Programs, AudioTypes', RestInv', prog' = p, BeginScan(p), partial_bytes'[p] = partial_bytes[p]
    PROVE  ScanInv' /\ RoomInv'
<1>1. /\ scanning' = TRUE /\ begin_bytes' = 0 /\ end_bytes' = 0
      /\ nop' = (IF partial_bytes'[p] > 0 THEN 1 ELSE 0)
      /\ audio_length' = (IF partial_bytes'[p] > 0 THEN partial_bytes'[p] + 1 ELSE 0)
  BY DEF BeginScan
<1>2. partial_bytes'[p] \in Nat /\ hdc'[p] \in Seq(AllLens) /\ Len(hdc'[p]) \in Nat /\ p # 0
  <2>1. partial_bytes' \in [Programs -> Nat] /\ hdc' \in [Programs -> Seq(AllLens)]
    BY DEF AudioTypes
  <2>2. partial_bytes'[p] \in Nat /\ hdc'[p] \in Seq(AllLens)
    BY <2>1
  <2> QED BY <2>2, LensFacts
<1>3. ScanInv'
  BY <1>1, <1>2 DEF ScanInv, RestInv
<1>4. SumLens(Section(prog)'.segs) + nop' = audio_length'
  <2>1. Section(prog)'.segs = [z \in 1 .. nop' |-> Segment(prog, z)']
    BY DEF Section
  <2> DEFINE s == Section(prog)'.segs
  <2>2. CASE partial_bytes'[p] > 0
    <3>1. nop' = 1 /\ Segment(prog, 1)' = partial_bytes'[p]
      BY <1>1, <2>2 DEF Segment
    <3>2. s \in [1 .. 0 + 1 -> Nat] /\ s[0 + 1] = partial_bytes'[p]
      BY <1>2, <2>1, <3>1
    <3>3. << >> \in [1 .. 0 -> Nat] /\ 1 .. 0 = {} /\ 0 \in Nat
      OBVIOUS
    <3> HIDE DEF s
    <3>4. \A k \in 1 .. 0 : s[k] = << >>[k]
      BY <3>3
    <3>5. SumLens(s) = SumLens(<< >>) + s[0 + 1]
      BY <3>2, <3>3, <3>4, SumStep
    <3>6. SumLens(<< >>) = 0
      BY <3>3, SumOfNone
    <3>7. SumLens(s) = partial_bytes'[p]
      BY <1>2, <3>2, <3>5, <3>6
    <3> QED BY <1>1, <1>2, <2>2, <3>1, <3>7 DEF s
  <2>3. CASE ~ (partial_bytes'[p] > 0)
    <3>1. nop' = 0 /\ audio_length' = 0
      BY <1>1, <2>3
    <3>2. s \in [1 .. 0 -> Nat]
      BY <2>1, <3>1
    <3> HIDE DEF s
    <3>3. SumLens(s) = 0
      BY <3>2, SumOfNone
    <3> QED BY <3>1, <3>3 DEF s
  <2> QED BY <2>2, <2>3
<1>5. SplitLen' = 0
  BY <1>1 DEF SplitLen
<1>6. Rest(prog)' = Overhead(nop') + audio_length' + 0
  <2>1. Overhead(0) \in Nat /\ Overhead(1) \in Nat
    <3>1. 0 \in Nat /\ 1 \in Nat
      OBVIOUS
    <3> QED BY <3>1, OverheadFacts
  <2>2. Rest(prog)' = IF partial_bytes'[p] > 0 THEN Overhead(1) + partial_bytes'[p] + 1 ELSE Overhead(0)
    BY DEF Rest
  <2>3. CASE partial_bytes'[p] > 0
    <3>1. nop' = 1 /\ audio_length' = partial_bytes'[p] + 1
      BY <1>1, <2>3
    <3> QED BY <1>2, <2>1, <2>2, <2>3, <3>1
  <2>4. CASE ~ (partial_bytes'[p] > 0)
    <3>1. nop' = 0 /\ audio_length' = 0
      BY <1>1, <2>4
    <3> QED BY <2>1, <2>2, <2>4, <3>1
  <2> QED BY <2>3, <2>4
<1>7. audio_length' \in Nat
  BY DEF AudioTypes
<1>8. RoomInv'
  BY <1>4, <1>5, <1>6, <1>7 DEF RoomInv, Overhead, BytesLeft
<1> QED BY <1>3, <1>8

LEMMA StartPduAudioIInv == ASSUME AudioIInv, StartPdu PROVE AudioIInv'
<1>1. /\ UNCHANGED <<hdc, partial_bytes, rx, got>> /\ prog' = 1 /\ out_program' = 0 /\ BeginScan(1)
  BY DEF StartPdu
<1>2. 1 \in Programs /\ partial_bytes[1] \in Nat
  BY LensFacts DEF Programs, AudioIInv, AudioTypes
<1>3. AudioTypes'
  BY <1>1, <1>2, LensFacts DEF AudioIInv, AudioTypes, BeginScan
<1>4. RestInv'
  BY <1>1 DEF AudioIInv, RestInv
<1> QED BY <1>1, <1>2, <1>3, <1>4, BeginScanFacts DEF AudioIInv

LEMMA ArriveAudioIInv == ASSUME AudioIInv, NEW p \in Programs, NEW len \in PacketLens[p], Arrive(p, len) PROVE AudioIInv'
<1>1. /\ prog = 0 /\ hdc' = [hdc EXCEPT ![p] = Append(@, len)]
      /\ UNCHANGED <<partial_bytes, prog, out_program, scanning, nop, audio_length, begin_bytes, end_bytes, rx, got>>
  BY DEF Arrive, scanvars
<1>2. len \in AllLens
  BY DEF AllLens
<1>3. hdc \in [Programs -> Seq(AllLens)]
  BY DEF AudioIInv, AudioTypes
<1>4. hdc' \in [Programs -> Seq(AllLens)]
  BY <1>1, <1>2, <1>3
<1>5. \A q \in Programs : Len(hdc[q]) > 0 => Len(hdc'[q]) > 0 /\ hdc'[q][1] = hdc[q][1]
  <2> SUFFICES ASSUME NEW q \in Programs, Len(hdc[q]) > 0
               PROVE  Len(hdc'[q]) > 0 /\ hdc'[q][1] = hdc[q][1]
    OBVIOUS
  <2>1. CASE q = p
    BY <1>1, <1>2, <1>3, <2>1
  <2>2. CASE q # p
    BY <1>1, <1>3, <2>2
  <2> QED BY <2>1, <2>2
<1>6. AudioTypes'
  BY <1>1, <1>4 DEF AudioIInv, AudioTypes
<1>7. RestInv'
  BY <1>1, <1>5 DEF AudioIInv, RestInv
<1> QED BY <1>1, <1>6, <1>7 DEF AudioIInv, ScanInv, RoomInv

\* A scan step counts one packet more, or the first bytes of it.
LEMMA ScanStep ==
    ASSUME AudioIInv, MayScan, nop' = nop + 1, begin_bytes' \in Nat,
           UNCHANGED <<hdc, partial_bytes, prog, out_program, rx, got>>
    PROVE  /\ prog # 0 /\ nop + 1 \in 1 .. Len(hdc[prog]) /\ NextLen \in Nat \ {0}
           /\ nop + 1 > (IF partial_bytes[prog] > 0 THEN 1 ELSE 0)
           /\ SumLens(Section(prog)'.segs) = SumLens(Section(prog).segs)
                                             + (IF begin_bytes' > 0 THEN begin_bytes' ELSE NextLen)
           /\ SumLens(Section(prog).segs) \in Int
<1>1. prog # 0 /\ begin_bytes = 0 /\ nop < Len(hdc[prog])
  <2>1. scanning /\ Len(hdc[prog]) - nop > 0
    BY DEF MayScan, Unscanned
  <2>2. prog # 0 /\ begin_bytes = 0
    BY <2>1 DEF AudioIInv, ScanInv
  <2>3. Len(hdc[prog]) \in Nat /\ nop \in Nat
    BY <2>2, SegmentsFacts DEF AudioIInv, AudioTypes
  <2> QED BY <2>1, <2>2, <2>3
<1>2. /\ Len(hdc[prog]) \in Nat /\ prog \in Programs
      /\ \A z \in 1 .. Len(hdc[prog]) : hdc[prog][z] \in Nat \ {0}
      /\ Section(prog).segs = [z \in 1 .. nop |-> Segment(prog, z)]
      /\ Section(prog).segs \in [1 .. nop -> Nat]
  BY <1>1, SegmentsFacts
<1>3. nop \in Nat /\ partial_bytes[prog] \in Nat
  BY <1>2 DEF AudioIInv, AudioTypes
<1>4. nop + 1 \in 1 .. Len(hdc[prog]) /\ NextLen \in Nat \ {0}
  BY <1>1, <1>2, <1>3 DEF NextLen
<1>5. nop + 1 > (IF partial_bytes[prog] > 0 THEN 1 ELSE 0)
  BY <1>1, <1>3 DEF AudioIInv, ScanInv
<1> DEFINE s == Section(prog).segs
           t == Section(prog)'.segs
<1>6. t = [z \in 1 .. nop + 1 |-> Segment(prog, z)']
  BY DEF Section
<1>7. \A k \in 1 .. nop : Segment(prog, k)' = Segment(prog, k)
  BY <1>1, <1>3 DEF Segment
<1>8. \A k : k = nop + 1 => Segment(prog, k)' = IF begin_bytes' > 0 THEN begin_bytes' ELSE NextLen
  BY <1>3, <1>5 DEF Segment, NextLen
<1>9. \A k \in 1 .. nop + 1 : k \in 1 .. nop \/ k = nop + 1
  BY <1>3
<1>10. \A k \in 1 .. nop + 1 : Segment(prog, k)' \in Nat
  <2>1. \A k \in 1 .. nop : Segment(prog, k) \in Nat
    BY <1>1, SegmentsFacts
  <2> QED BY <1>4, <1>7, <1>8, <1>9, <2>1
<1>11. t \in [1 .. nop + 1 -> Nat] /\ s \in [1 .. nop -> Nat] /\ \A k \in 1 .. nop : t[k] = s[k]
  BY <1>2, <1>3, <1>6, <1>7, <1>10
<1>12. t[nop + 1] = IF begin_bytes' > 0 THEN begin_bytes' ELSE NextLen
  <2>1. \A k \in 1 .. nop + 1 : t[k] = Segment(prog, k)'
    BY <1>6
  <2>2. nop + 1 \in 1 .. nop + 1
    BY <1>3
  <2> HIDE DEF t
  <2>3. \A k : k = nop + 1 => t[k] = IF begin_bytes' > 0 THEN begin_bytes' ELSE NextLen
    BY <1>8, <2>1, <2>2
  <2> QED BY <2>3
<1> HIDE DEF s, t
<1>13. SumLens(t) = SumLens(s) + t[nop + 1] /\ SumLens(s) \in Int
  BY <1>3, <1>11, SumStep
<1> QED BY <1>1, <1>4, <1>5, <1>12, <1>13 DEF s, t

\* What the scan works with are numbers.
LEMMA RoomFacts ==
    ASSUME AudioIInv, prog # 0
    PROVE  /\ Overhead(nop) \in Nat /\ Overhead(nop + 1) \in Nat /\ Overhead(nop) <= Overhead(nop + 1)
           /\ BytesLeft \in Int /\ audio_length \in Nat /\ nop \in Nat
           /\ begin_bytes \in Nat /\ end_bytes \in Nat
           /\ Rest(prog) \in Nat
<1>1. nop \in Nat /\ nop + 1 \in Nat /\ prog \in Programs
  BY SegmentsFacts DEF AudioIInv, AudioTypes
<1>2. Overhead(nop) \in Nat /\ Overhead(nop + 1) \in Nat /\ Overhead(nop) <= Overhead(nop + 1)
  BY <1>1, OverheadFacts
<1>3. Rest(prog) \in Nat
  <2>1. 0 \in Nat /\ 1 \in Nat
    OBVIOUS
  <2>2. Overhead(0) \in Nat /\ Overhead(1) \in Nat
    BY <2>1, OverheadFacts
  <2> QED BY <1>1, <2>2 DEF Rest, AudioIInv, AudioTypes
<1> QED BY <1>1, <1>2, <1>3, LengthsAssumption DEF BytesLeft, AudioIInv, AudioTypes

LEMMA ScanWholeAudioIInv == ASSUME AudioIInv, ScanWhole PROVE AudioIInv'
<1>1. /\ MayScan /\ Overhead(nop + 1) + audio_length + NextLen + 1 <= BytesLeft
      /\ nop' = nop + 1 /\ audio_length' = audio_length + NextLen + 1
      /\ UNCHANGED <<hdc, partial_bytes, prog, out_program, scanning, begin_bytes, end_bytes, rx, got>>
  <2>1. prog # 0
    BY DEF ScanWhole, MayScan, AudioIInv, ScanInv
  <2>2. MayScan /\ nop' = nop + 1 /\ begin_bytes' = begin_bytes
        /\ UNCHANGED <<hdc, partial_bytes, prog, out_program, rx, got>>
    BY DEF ScanWhole
  <2>3. NextLen \in Nat
    BY <2>1, <2>2, RoomFacts, ScanStep
  <2> QED BY <2>1, <2>3, RoomFacts DEF ScanWhole, TooLong
<1>2. begin_bytes = 0 /\ begin_bytes' = 0 /\ scanning /\ begin_bytes' \in Nat
  BY <1>1 DEF MayScan, AudioIInv, ScanInv
<1>3. /\ prog # 0 /\ nop + 1 \in 1 .. Len(hdc[prog]) /\ NextLen \in Nat \ {0}
      /\ nop + 1 > (IF partial_bytes[prog] > 0 THEN 1 ELSE 0)
      /\ SumLens(Section(prog)'.segs) = SumLens(Section(prog).segs) + NextLen
      /\ SumLens(Section(prog).segs) \in Int
  BY <1>1, <1>2, ScanStep
<1>4. /\ Overhead(nop + 1) \in Nat /\ BytesLeft \in Int /\ audio_length \in Nat /\ nop \in Nat
  BY <1>3, RoomFacts
<1>5. AudioTypes'
  BY <1>1, <1>3, <1>4 DEF AudioIInv, AudioTypes
<1>6. RestInv'
  BY <1>1 DEF AudioIInv, RestInv
<1>7. ScanInv'
  BY <1>1, <1>2, <1>3, <1>4 DEF AudioIInv, ScanInv
<1>8. RoomInv'
  <2>1. SplitLen = 0 /\ SplitLen' = 0
    BY <1>2 DEF SplitLen
  <2>2. SumLens(Section(prog).segs) + nop = audio_length
    BY <1>3, <1>4, <2>1 DEF AudioIInv, RoomInv
  <2>3. SumLens(Section(prog)'.segs) + nop' = audio_length' + 0
    <3> DEFINE sum  == SumLens(Section(prog).segs)
               more == SumLens(Section(prog)'.segs)
               len  == NextLen
    <3>1. more = sum + len /\ sum + nop = audio_length
      <4>1. more = sum + len
        BY <1>3
      <4> QED BY <2>2, <4>1
    <3>2. nop' = nop + 1 /\ audio_length' = audio_length + len + 1
      BY <1>1
    <3>3. sum \in Int /\ len \in Int /\ nop \in Int /\ audio_length \in Int
      BY <1>3, <1>4
    <3> HIDE DEF sum, more, len
    <3>4. more + nop' = audio_length' + 0
      BY <3>1, <3>2, <3>3
    <3> QED BY <3>4 DEF more
  <2>4. Overhead(nop') = Overhead(nop + 1) /\ BytesLeft' = BytesLeft
    BY <1>1 DEF BytesLeft
  <2>5. Overhead(nop') + audio_length' + 0 <= BytesLeft'
    BY <1>1, <1>3, <1>4, <2>4
  <2> QED BY <2>1, <2>3, <2>5 DEF RoomInv, Overhead
<1> QED BY <1>5, <1>6, <1>7, <1>8 DEF AudioIInv

LEMMA ScanSplitAudioIInv == ASSUME AudioIInv, ScanSplit PROVE AudioIInv'
<1>1. /\ MayScan /\ nop' = nop + 1 /\ begin_bytes' = BeginBytes /\ end_bytes' = NextLen - BeginBytes
      /\ scanning' = FALSE
      /\ UNCHANGED <<hdc, partial_bytes, prog, out_program, audio_length, rx, got>>
      /\ ~ (Overhead(nop + 1) + audio_length + 2 > BytesLeft)
      /\ Overhead(nop + 1) + audio_length + NextLen + 1 > BytesLeft
  BY DEF ScanSplit, NoRoom, TooLong
<1>2. begin_bytes = 0 /\ scanning /\ prog # 0
  BY <1>1 DEF MayScan, AudioIInv, ScanInv
<1>3. /\ Overhead(nop + 1) \in Nat /\ BytesLeft \in Int /\ audio_length \in Nat /\ nop \in Nat
  BY <1>2, RoomFacts
<1>4. BeginBytes \in Nat \ {0} /\ Overhead(nop + 1) + audio_length + BeginBytes + 1 = BytesLeft
  BY <1>1, <1>3 DEF BeginBytes
<1>5. /\ nop + 1 \in 1 .. Len(hdc[prog]) /\ NextLen \in Nat \ {0}
      /\ nop + 1 > (IF partial_bytes[prog] > 0 THEN 1 ELSE 0)
      /\ SumLens(Section(prog)'.segs) = SumLens(Section(prog).segs) + BeginBytes
      /\ SumLens(Section(prog).segs) \in Int
  BY <1>1, <1>2, <1>4, ScanStep
<1>6. end_bytes' \in Nat \ {0} /\ begin_bytes' + end_bytes' = NextLen
  BY <1>1, <1>3, <1>4, <1>5
<1>7. AudioTypes'
  <2>1. /\ nop' \in Nat /\ audio_length' \in Nat /\ begin_bytes' \in Nat /\ end_bytes' \in Nat
    <3>1. begin_bytes' \in Nat /\ end_bytes' \in Nat
      BY <1>1, <1>4, <1>6
    <3>2. nop' \in Nat /\ audio_length' \in Nat
      BY <1>1, <1>3
    <3> QED BY <3>1, <3>2
  <2>2. scanning' \in BOOLEAN /\ UNCHANGED <<hdc, partial_bytes, prog, out_program, rx, got>>
    BY <1>1
  <2> QED BY <2>1, <2>2 DEF AudioIInv, AudioTypes
<1>8. RestInv'
  BY <1>1 DEF AudioIInv, RestInv
<1>9. ScanInv'
  <2>1. begin_bytes' > 0 /\ end_bytes' > 0 /\ begin_bytes' # 0
    BY <1>1, <1>4, <1>6
  <2>2. nop' <= Len(hdc[prog]) /\ nop' > 0
    BY <1>1, <1>3, <1>5, LensFacts
  <2>3. nop' > (IF partial_bytes[prog] > 0 THEN 1 ELSE 0)
    BY <1>1, <1>5
  <2>4. begin_bytes' + end_bytes' = hdc[prog][nop']
    BY <1>1, <1>6 DEF NextLen
  <2>5. ~ scanning' /\ UNCHANGED <<hdc, partial_bytes, prog>>
    BY <1>1
  <2> QED BY <2>1, <2>2, <2>3, <2>4, <2>5 DEF ScanInv
<1>10. RoomInv'
  <2>1. SplitLen = 0 /\ SplitLen' = BeginBytes + 1
    BY <1>1, <1>2, <1>4 DEF SplitLen
  <2>2. SumLens(Section(prog).segs) + nop = audio_length
    BY <1>2, <1>3, <2>1 DEF AudioIInv, RoomInv
  <2> DEFINE sum == SumLens(Section(prog).segs)
             sum2 == SumLens(Section(prog)'.segs)
             b == BeginBytes
  <2>3. sum2 + nop' = audio_length' + (b + 1)
    <3>1. sum2 = sum + b /\ sum \in Int /\ sum + nop = audio_length /\ b \in Nat
          /\ nop' = nop + 1 /\ audio_length' = audio_length /\ nop \in Nat
      BY <1>1, <1>3, <1>4, <1>5, <2>2
    <3> HIDE DEF sum, sum2, b
    <3> QED BY <3>1
  <2>4. Overhead(nop') = Overhead(nop + 1) /\ BytesLeft' = BytesLeft
    BY <1>1 DEF BytesLeft
  <2>5. Overhead(nop') + audio_length' + (BeginBytes + 1) <= BytesLeft'
    BY <1>1, <1>3, <1>4, <2>4
  <2> QED BY <2>1, <2>3, <2>5 DEF RoomInv, Overhead
<1> QED BY <1>7, <1>8, <1>9, <1>10 DEF AudioIInv

LEMMA ScanStopAudioIInv == ASSUME AudioIInv, ScanStop PROVE AudioIInv'
<1>1. /\ scanning' = FALSE
      /\ UNCHANGED <<hdc, partial_bytes, prog, out_program, nop, audio_length, begin_bytes, end_bytes, rx, got>>
  BY DEF ScanStop
<1>2. Section(prog)'.segs = Section(prog).segs
  BY <1>1 DEF Section, Segment
<1>3. RoomInv'
  BY <1>1, <1>2 DEF AudioIInv, RoomInv, SplitLen, Rest, BytesLeft, Overhead
<1> QED BY <1>1, <1>3 DEF AudioIInv, AudioTypes, RestInv, ScanInv
-------------------------------------------------------------------------------
\* What the section carries: the receiver's packets are the oldest ones of the pipe.
LEMMA CompletedFacts ==
    ASSUME AudioIInv, prog # 0
    PROVE  /\ Consumed \in 0 .. Len(hdc[prog])
           /\ Completed(prog, Section(prog)) = SubSeq(hdc[prog], 1, Consumed)
           /\ Kept(prog, Section(prog)) \in Nat
           /\ begin_bytes > 0 => /\ Kept(prog, Section(prog)) = begin_bytes
                                 /\ Consumed = nop - 1 /\ nop \in 1 .. Len(hdc[prog])
<1>1. /\ prog \in Programs /\ hdc[prog] \in Seq(AllLens) /\ Len(hdc[prog]) \in Nat
      /\ Section(prog).segs = [z \in 1 .. nop |-> Segment(prog, z)]
      /\ \A z \in 1 .. nop : Segment(prog, z) \in Nat
      /\ Len(Section(prog).segs) = nop
  BY SegmentsFacts
<1>2. /\ nop \in Nat /\ begin_bytes \in Nat /\ partial_bytes[prog] \in Nat /\ rx[prog] \in Nat
  BY <1>1 DEF AudioIInv, AudioTypes
<1>3. /\ nop <= Len(hdc[prog])
      /\ begin_bytes > 0 => nop > (IF partial_bytes[prog] > 0 THEN 1 ELSE 0)
  BY DEF AudioIInv, ScanInv
<1> DEFINE j == Joined(prog, Section(prog))
<1>4. /\ Section(prog).first = (partial_bytes[prog] > 0) /\ Section(prog).last = (begin_bytes > 0)
  BY DEF Section
<1>5. j = [z \in 1 .. nop |-> IF z = 1 /\ partial_bytes[prog] > 0 THEN rx[prog] + Segment(prog, z)
                                                                  ELSE Segment(prog, z)]
  BY <1>1, <1>4 DEF Joined
<1>6. \A z \in 1 .. nop : j[z] \in Nat
  BY <1>1, <1>2, <1>5
<1>7. Consumed \in 0 .. nop /\ Consumed = nop - (IF begin_bytes > 0 THEN 1 ELSE 0)
  BY <1>2, <1>3 DEF Consumed
<1>8. ASSUME NEW z \in 1 .. Consumed PROVE z \in 1 .. nop /\ j[z] = hdc[prog][z]
  <2>1. z \in 1 .. nop /\ (begin_bytes > 0 => z # nop)
    BY <1>2, <1>7
  <2>2. CASE z = 1 /\ partial_bytes[prog] > 0
    <3>1. j[z] = rx[prog] + partial_bytes[prog]
      BY <1>5, <2>1, <2>2 DEF Segment
    <3> QED BY <1>1, <2>1, <2>2, <3>1 DEF AudioIInv, RestInv
  <2>3. CASE ~ (z = 1 /\ partial_bytes[prog] > 0)
    BY <1>5, <2>1, <2>3 DEF Segment
  <2> QED BY <2>1, <2>2, <2>3
<1>9. Consumed \in Nat /\ Consumed <= Len(hdc[prog]) /\ Consumed \in Int /\ 1 \in Int
  BY <1>1, <1>2, <1>3, <1>7
<1> HIDE DEF j
<1>10. Completed(prog, Section(prog)) = SubSeq(j, 1, Consumed)
  BY <1>1, <1>4, <1>7 DEF Completed, j
<1>11. SubSeq(j, 1, Consumed) = SubSeq(hdc[prog], 1, Consumed)
  <2>1. SubSeq(j, 1, Consumed) = [z \in 1 .. Consumed |-> j[z]]
    BY <1>9 DEF SubSeq
  <2>2. SubSeq(hdc[prog], 1, Consumed) = [z \in 1 .. Consumed |-> hdc[prog][z]]
    BY <1>9 DEF SubSeq
  <2> QED BY <1>8, <2>1, <2>2
<1>12. CASE begin_bytes > 0
  <2>1. nop \in 1 .. nop /\ nop \in 1 .. Len(hdc[prog]) /\ ~ (nop = 1 /\ partial_bytes[prog] > 0)
    BY <1>1, <1>2, <1>3, <1>12
  <2>2. j[nop] = begin_bytes
    BY <1>5, <1>12, <2>1 DEF Segment
  <2>3. Kept(prog, Section(prog)) = begin_bytes
    BY <1>1, <1>4, <1>12, <2>2 DEF Kept, j
  <2> QED BY <1>2, <1>7, <1>9, <1>10, <1>11, <1>12, <2>1, <2>3
<1>13. CASE ~ (begin_bytes > 0)
  <2>1. Kept(prog, Section(prog)) = 0
    BY <1>4, <1>13 DEF Kept
  <2> QED BY <1>9, <1>10, <1>11, <1>13, <2>1
<1> QED BY <1>12, <1>13

\* What is left of a sequence behind its first n items, and these.
LEMMA PartFacts ==
    ASSUME NEW S, NEW s \in Seq(S), NEW n \in 0 .. Len(s)
    PROVE  /\ SubSeq(s, n + 1, Len(s)) \in Seq(S) /\ SubSeq(s, 1, n) \in Seq(S)
           /\ n < Len(s) => /\ Len(SubSeq(s, n + 1, Len(s))) > 0
                            /\ SubSeq(s, n + 1, Len(s))[1] = s[n + 1]
<1> DEFINE a == n + 1
           b == Len(s)
<1>1. a \in Int /\ b \in Int /\ n \in Int /\ 1 \in Int /\ a >= 1
  OBVIOUS
<1>2. \A k \in a .. b : s[k] \in S
  OBVIOUS
<1>3. \A k \in 1 .. n : s[k] \in S
  OBVIOUS
<1> HIDE DEF a, b
<1>4. /\ SubSeq(s, a, b) \in Seq(S)
      /\ Len(SubSeq(s, a, b)) = IF a <= b THEN b - a + 1 ELSE 0
      /\ \A k \in 1 .. b - a + 1 : SubSeq(s, a, b)[k] = s[a + k - 1]
  BY <1>1, <1>2, SubSeqProperties
<1>5. SubSeq(s, 1, n) \in Seq(S)
  BY <1>1, <1>3, SubSeqProperties
<1>6. a <= b => Len(SubSeq(s, a, b)) > 0 /\ SubSeq(s, a, b)[1] = s[a]
  <2> SUFFICES ASSUME a <= b PROVE Len(SubSeq(s, a, b)) > 0 /\ SubSeq(s, a, b)[1] = s[a]
    OBVIOUS
  <2>1. 1 \in 1 .. b - a + 1 /\ a + 1 - 1 = a /\ b - a + 1 > 0
    BY <1>1
  <2> QED BY <1>4, <2>1
<1>7. n < b => a <= b
  BY <1>1 DEF a
<1> QED BY <1>4, <1>5, <1>6, <1>7 DEF a, b

\* A sequence over a set is one over any larger set.
LEMMA SeqOver ==
    ASSUME NEW S, NEW T, S \subseteq T, NEW s \in Seq(S)
    PROVE  s \in Seq(T)
<1>1. s \in [1 .. Len(s) -> S] /\ Len(s) \in Nat
  OBVIOUS
<1>2. s \in [1 .. Len(s) -> T]
  BY <1>1
<1> QED BY <1>1, <1>2

\* The section is as long as the scan has counted.
LEMMA SectionLenFacts ==
    ASSUME AudioIInv, prog # 0
    PROVE  /\ SectionLen(Section(prog)) = Overhead(nop) + audio_length + SplitLen
           /\ SectionLen(Section(prog)) \in Nat
           /\ Rest(prog) <= BytesLeft => out_program + SectionLen(Section(prog)) <= Capacity
<1>1. Section(prog).segs \in [1 .. nop -> Nat] /\ Len(Section(prog).segs) = nop
  BY SegmentsFacts
<1>2. Overhead(nop) \in Nat /\ BytesLeft \in Int /\ audio_length \in Nat /\ nop \in Nat /\ begin_bytes \in Nat
  BY RoomFacts
<1>3. SumLens(Section(prog).segs) \in Nat
  BY <1>1, <1>2, SumFacts
<1>4. SumLens(Section(prog).segs) + nop = audio_length + SplitLen
  BY DEF AudioIInv, RoomInv
<1>5. SplitLen \in Nat
  BY <1>2 DEF SplitLen
<1>6. SectionLen(Section(prog)) = Overhead(nop) + SumLens(Section(prog).segs) + nop
  BY <1>1 DEF SectionLen
<1>7. SectionLen(Section(prog)) = Overhead(nop) + audio_length + SplitLen /\ SectionLen(Section(prog)) \in Nat
  <2> DEFINE l == SectionLen(Section(prog))
             sum == SumLens(Section(prog).segs)
             head == Overhead(nop)
             half == SplitLen
  <2>1. l = head + sum + nop /\ sum + nop = audio_length + half
    BY <1>4, <1>6
  <2>2. nop \in Nat /\ audio_length \in Nat /\ sum \in Nat /\ head \in Nat /\ half \in Nat
    BY <1>2, <1>3, <1>5
  <2> HIDE DEF l, sum, head, half
  <2>3. l = head + audio_length + half /\ l \in Nat
    BY <2>1, <2>2
  <2> QED BY <2>3 DEF l, head, half
<1>8. Rest(prog) <= BytesLeft => SectionLen(Section(prog)) <= BytesLeft
  BY <1>7 DEF AudioIInv, RoomInv
<1>9. out_program \in Nat /\ Capacity \in Nat
  BY LengthsAssumption DEF AudioIInv, AudioTypes
<1> QED BY <1>7, <1>8, <1>9 DEF BytesLeft

LEMMA WriteSectionAudioIInv == ASSUME AudioIInv, WriteSection PROVE AudioIInv'
<1>1. /\ prog # 0 /\ ~ scanning
      /\ out_program' = out_program + SectionLen(Section(prog))
      /\ got' = [got EXCEPT ![prog] = Completed(prog, Section(prog))]
      /\ rx' = [rx EXCEPT ![prog] = Kept(prog, Section(prog))]
      /\ hdc' = [hdc EXCEPT ![prog] = SubSeq(@, Consumed + 1, Len(@))]
      /\ partial_bytes' = [partial_bytes EXCEPT ![prog] = end_bytes]
      /\ IF prog < NumProgs THEN prog' = prog + 1 /\ BeginScan(prog + 1)
                            ELSE prog' = 0 /\ UNCHANGED scanvars
  BY DEF WriteSection
<1>2. /\ prog \in Programs /\ hdc[prog] \in Seq(AllLens) /\ Len(hdc[prog]) \in Nat
      /\ \A z \in 1 .. Len(hdc[prog]) : hdc[prog][z] \in Nat \ {0}
  BY <1>1, SegmentsFacts
<1>3. /\ Consumed \in 0 .. Len(hdc[prog])
      /\ Completed(prog, Section(prog)) = SubSeq(hdc[prog], 1, Consumed)
      /\ Kept(prog, Section(prog)) \in Nat
      /\ begin_bytes > 0 => /\ Kept(prog, Section(prog)) = begin_bytes
                            /\ Consumed = nop - 1 /\ nop \in 1 .. Len(hdc[prog])
  BY <1>1, CompletedFacts
<1>4. /\ SubSeq(hdc[prog], Consumed + 1, Len(hdc[prog])) \in Seq(AllLens)
      /\ SubSeq(hdc[prog], 1, Consumed) \in Seq(AllLens)
      /\ Consumed < Len(hdc[prog]) => /\ Len(SubSeq(hdc[prog], Consumed + 1, Len(hdc[prog]))) > 0
            /\ SubSeq(hdc[prog], Consumed + 1, Len(hdc[prog]))[1] = hdc[prog][Consumed + 1]
  BY <1>2, <1>3, PartFacts
<1>5. SubSeq(hdc[prog], 1, Consumed) \in Seq(Nat)
  <2>1. AllLens \subseteq Nat
    BY LensFacts
  <2> QED BY <1>4, <2>1, SeqOver
<1>6. /\ hdc \in [Programs -> Seq(AllLens)] /\ partial_bytes \in [Programs -> Nat] /\ rx \in [Programs -> Nat]
      /\ got \in [Programs -> Seq(Nat)] /\ end_bytes \in Nat /\ begin_bytes \in Nat /\ nop \in Nat
      /\ prog \in Nat /\ out_program \in Nat
  BY LensFacts DEF AudioIInv, AudioTypes
<1>7. /\ hdc' \in [Programs -> Seq(AllLens)] /\ partial_bytes' \in [Programs -> Nat] /\ rx' \in [Programs -> Nat]
      /\ got' \in [Programs -> Seq(Nat)]
  BY <1>1, <1>2, <1>3, <1>4, <1>5, <1>6
<1>8. prog' \in 0 .. NumProgs /\ out_program' \in Nat
  BY <1>1, <1>2, <1>6, SectionLenFacts, LensFacts
<1>9. AudioTypes'
  <2>1. CASE prog < NumProgs
    <3>1. BeginScan(prog + 1) /\ prog + 1 \in Programs
      BY <1>1, <1>6, <2>1, LensFacts DEF Programs
    <3>2. partial_bytes[prog + 1] \in Nat
      BY <1>6, <3>1
    <3>3. /\ scanning' \in BOOLEAN /\ nop' \in Nat /\ audio_length' \in Nat
          /\ begin_bytes' \in Nat /\ end_bytes' \in Nat
      BY <3>1, <3>2 DEF BeginScan
    <3> QED BY <1>7, <1>8, <3>3 DEF AudioTypes
  <2>2. CASE ~ (prog < NumProgs)
    <3>1. UNCHANGED <<scanning, nop, audio_length, begin_bytes, end_bytes>>
      BY <1>1, <2>2 DEF scanvars
    <3> QED BY <1>7, <1>8, <3>1 DEF AudioIInv, AudioTypes
  <2> QED BY <2>1, <2>2
<1>10. RestInv'
  <2> SUFFICES ASSUME NEW p \in Programs, partial_bytes'[p] > 0
               PROVE  /\ Len(hdc'[p]) > 0 /\ partial_bytes'[p] < hdc'[p][1]
                      /\ rx'[p] + partial_bytes'[p] = hdc'[p][1]
    BY DEF RestInv
  <2>1. CASE p = prog
    <3>1. /\ partial_bytes'[p] = end_bytes /\ rx'[p] = Kept(prog, Section(prog))
          /\ hdc'[p] = SubSeq(hdc[prog], Consumed + 1, Len(hdc[prog]))
      BY <1>1, <1>2, <1>6, <2>1
    <3>2. begin_bytes > 0 /\ begin_bytes + end_bytes = hdc[prog][nop] /\ end_bytes > 0
      BY <1>1, <1>6, <3>1 DEF AudioIInv, ScanInv
    <3>3. rx'[p] = begin_bytes /\ Consumed + 1 = nop /\ Consumed < Len(hdc[prog])
      BY <1>2, <1>3, <1>6, <3>1, <3>2
    <3>4. Len(hdc'[p]) > 0 /\ hdc'[p][1] = hdc[prog][nop]
      BY <1>4, <3>1, <3>3
    <3>5. begin_bytes \in Nat /\ end_bytes \in Nat
      BY DEF AudioIInv, AudioTypes
    <3>6. partial_bytes'[p] = end_bytes /\ rx'[p] = begin_bytes /\ hdc'[p][1] = begin_bytes + end_bytes
      BY <3>1, <3>2, <3>3, <3>4
    <3>7. end_bytes < begin_bytes + end_bytes
      BY <3>2, <3>5
    <3> QED BY <3>4, <3>5, <3>6, <3>7
  <2>2. CASE p # prog
    <3>1. partial_bytes'[p] = partial_bytes[p] /\ rx'[p] = rx[p] /\ hdc'[p] = hdc[p]
      BY <1>1, <1>2, <1>6, <2>2
    <3> QED BY <3>1 DEF AudioIInv, RestInv
  <2> QED BY <2>1, <2>2
<1>11. ScanInv' /\ RoomInv'
  <2>1. CASE prog < NumProgs
    <3>1. prog + 1 \in Programs /\ prog + 1 # prog /\ prog' = prog + 1 /\ BeginScan(prog + 1)
      BY <1>1, <1>6, <2>1, LensFacts DEF Programs
    <3>2. partial_bytes'[prog + 1] = partial_bytes[prog + 1]
      BY <1>1, <1>6, <3>1
    <3> DEFINE p == prog + 1
    <3> HIDE DEF p
    <3>3. \A q \in Programs : prog' = q /\ BeginScan(q) /\ partial_bytes'[q] = partial_bytes[q] => ScanInv' /\ RoomInv'
      BY <1>9, <1>10, BeginScanFacts
    <3> QED BY <3>1, <3>2, <3>3
  <2>2. CASE ~ (prog < NumProgs)
    <3>1. prog' = 0 /\ ~ scanning'
      BY <1>1, <2>2 DEF scanvars
    <3> QED BY <3>1 DEF ScanInv, RoomInv
  <2> QED BY <2>1, <2>2
<1> QED BY <1>9, <1>10, <1>11 DEF AudioIInv

LEMMA InitAudioIInv == Init => AudioIInv
<1> SUFFICES ASSUME Init PROVE AudioIInv
  OBVIOUS
<1>1. << >> \in Seq(AllLens) /\ << >> \in Seq(Nat)
  OBVIOUS
<1>2. AudioTypes
  <2>1. 0 \in 0 .. NumProgs /\ 0 \in Nat
    BY LensFacts
  <2>2. /\ hdc \in [Programs -> Seq(AllLens)] /\ got \in [Programs -> Seq(Nat)]
        /\ partial_bytes \in [Programs -> Nat] /\ rx \in [Programs -> Nat]
    BY <1>1, <2>1 DEF Init
  <2> QED BY <2>1, <2>2 DEF Init, AudioTypes
<1>3. RestInv /\ ScanInv /\ RoomInv
  BY DEF Init, RestInv, ScanInv, RoomInv
<1> QED BY <1>2, <1>3 DEF AudioIInv

LEMMA AudioStep == ASSUME AudioIInv, [Layer2Next]_allvars PROVE AudioIInv'
<1>1. CASE Next
  BY <1>1, ArriveAudioIInv, StartPduAudioIInv, ScanWholeAudioIInv, ScanSplitAudioIInv,
     ScanStopAudioIInv, WriteSectionAudioIInv DEF Next
<1>2. CASE UNCHANGED vars
  <2>1. UNCHANGED <<hdc, partial_bytes, prog, out_program, scanning, nop, audio_length,
                    begin_bytes, end_bytes, rx, got>>
    BY <1>2 DEF vars, scanvars
  <2>2. Section(prog)'.segs = Section(prog).segs
    BY <2>1 DEF Section, Segment
  <2>3. RoomInv'
    BY <2>1, <2>2 DEF AudioIInv, RoomInv, SplitLen, Rest, BytesLeft, Overhead
  <2> QED BY <2>1, <2>3 DEF AudioIInv, AudioTypes, RestInv, ScanInv
<1> QED BY <1>1, <1>2 DEF Layer2Next, Audio, SpreadByte, Hdlc, Written, ReadRecord, Returned, allvars

(***************************************************************************)
(* The invariant of the packet loop: what the scan counted is what is in   *)
(* the queues, and what the write loop takes is no more than it counted.   *)
(***************************************************************************)
THEOREM AudioInvariance == Layer2Spec => []AudioIInv
<1>1. Layer2Init => AudioIInv
  BY InitAudioIInv DEF Layer2Init
<1>2. AudioIInv /\ [Layer2Next]_allvars => AudioIInv'
  BY AudioStep
<1> QED BY <1>1, <1>2, PTL DEF Layer2Spec

\* Each step of the transport is one of the pipe, or none.
LEMMA PipeStep == ASSUME AudioIInv, [Layer2Next]_allvars PROVE [Pipe!Next]_(Pipe!vars)
<1>1. ASSUME NEW p \in Programs, NEW len \in PacketLens[p], Arrive(p, len)
      PROVE  Pipe!Next
  <2>1. len \in AllLens
    BY DEF AllLens
  <2>2. Pipe!Enter(p, len)
    BY <1>1 DEF Arrive, Pipe!Enter
  <2> QED BY <2>1, <2>2 DEF Pipe!Next
<1>2. CASE WriteSection
  <2>1. prog # 0 /\ prog \in Programs /\ hdc \in [Programs -> Seq(AllLens)] /\ got \in [Programs -> Seq(Nat)]
    BY <1>2, SegmentsFacts DEF WriteSection, AudioIInv, AudioTypes
  <2>2. /\ Consumed \in 0 .. Len(hdc[prog])
        /\ Completed(prog, Section(prog)) = SubSeq(hdc[prog], 1, Consumed)
    BY <2>1, CompletedFacts
  <2>3. Pipe!Deliver(prog, Consumed)
    BY <1>2, <2>1, <2>2 DEF WriteSection, Pipe!Deliver
  <2> QED BY <2>1, <2>2, <2>3 DEF Pipe!Next
<1>3. CASE UNCHANGED <<hdc, got>>
  BY <1>3 DEF Pipe!vars
<1>4. UNCHANGED <<hdc, got>> \/ Next
  BY DEF Layer2Next, Audio, SpreadByte, Hdlc, Written, ReadRecord, Returned, allvars, vars
<1>5. StartPdu \/ ScanWhole \/ ScanSplit \/ ScanStop => UNCHANGED <<hdc, got>>
  BY DEF StartPdu, ScanWhole, ScanSplit, ScanStop
<1> QED BY <1>1, <1>2, <1>3, <1>4, <1>5 DEF Next

(***************************************************************************)
(* The sections of general_work deliver every packet whole, once and in    *)
(* order, however packets are split over PDUs, for any number of programs, *)
(* packet lengths and capacity.                                            *)
(***************************************************************************)
THEOREM SectionsImplementPipe == Layer2Spec => ImplementsPipe
<1>1. Layer2Init => Pipe!Init
  BY DEF Layer2Init, Init, Pipe!Init
<1>2. AudioIInv /\ [Layer2Next]_allvars => [Pipe!Next]_(Pipe!vars)
  BY PipeStep
<1> QED BY <1>1, <1>2, AudioInvariance, PTL DEF Layer2Spec, ImplementsPipe, Pipe!Spec
-------------------------------------------------------------------------------
\* When a section starts, there is room for what it cannot do without.
RoomForRest == prog # 0 => Rest(prog) <= BytesLeft

\* The first section starts at the beginning of the PDU.
FirstAtStart == prog = 1 => out_program = 0

LEMMA StepStaysInPdu ==
    ASSUME AudioIInv, RoomForRest, NoOverrun, [Layer2Next]_allvars
    PROVE  NoOverrun'
<1>1. CASE WriteSection
  BY <1>1, SectionLenFacts DEF WriteSection, RoomForRest, NoOverrun
<1>2. CASE StartPdu
  BY <1>2, LengthsAssumption DEF StartPdu, NoOverrun
<1>3. CASE UNCHANGED out_program
  BY <1>3 DEF NoOverrun
<1> QED BY <1>1, <1>2, <1>3 DEF Layer2Next, Audio, Next, Arrive, ScanWhole, ScanSplit, ScanStop,
           SpreadByte, Hdlc, Written, ReadRecord, Returned, allvars, vars

LEMMA FirstAtStartStep ==
    ASSUME AudioIInv, FirstAtStart, [Layer2Next]_allvars
    PROVE  FirstAtStart'
<1>1. CASE WriteSection
  <2>1. prog \in Nat /\ prog # 0
    BY <1>1 DEF WriteSection, AudioIInv, AudioTypes
  <2>2. prog' = prog + 1 \/ prog' = 0
    BY <1>1 DEF WriteSection
  <2> QED BY <2>1, <2>2 DEF FirstAtStart
<1>2. CASE StartPdu
  BY <1>2 DEF StartPdu, FirstAtStart
<1>3. CASE UNCHANGED <<prog, out_program>>
  BY <1>3 DEF FirstAtStart
<1> QED BY <1>1, <1>2, <1>3 DEF Layer2Next, Audio, Next, Arrive, ScanWhole, ScanSplit, ScanStop,
           SpreadByte, Hdlc, Written, ReadRecord, Returned, allvars, vars

(***************************************************************************)
(* The scan counts every byte that the write loop writes (general_work):   *)
(* as long as each section starts with room for its own overhead and the   *)
(* rest of a packet split before, none runs into the fixed data.  That it  *)
(* does is the business of the programs' bit rates.                        *)
(***************************************************************************)
THEOREM RoomSuffices == Layer2Spec /\ []RoomForRest => []NoOverrun
<1>1. Layer2Init => NoOverrun
  BY LengthsAssumption DEF Layer2Init, Init, NoOverrun
<1>2. AudioIInv /\ RoomForRest /\ NoOverrun /\ [Layer2Next]_allvars => NoOverrun'
  BY StepStaysInPdu
<1> QED BY <1>1, <1>2, AudioInvariance, PTL DEF Layer2Spec

(***************************************************************************)
(* A single program needs no such condition: whatever its bit rate, its    *)
(* section never runs out of a PDU that has room for one packet.           *)
(***************************************************************************)
THEOREM OneProgramStays ==
    ASSUME NumProgs = 1, Overhead(0) <= Capacity, \A l \in AllLens : Overhead(1) + l <= Capacity
    PROVE  Layer2Spec => []NoOverrun
<1>1. Layer2Init => FirstAtStart
  BY DEF Layer2Init, Init, FirstAtStart
<1>2. AudioIInv /\ FirstAtStart /\ [Layer2Next]_allvars => FirstAtStart'
  BY FirstAtStartStep
<1>3. AudioIInv /\ FirstAtStart => RoomForRest
  <2> SUFFICES ASSUME AudioIInv, FirstAtStart, prog # 0 PROVE Rest(prog) <= BytesLeft
    BY DEF RoomForRest
  <2>1. prog = 1 /\ BytesLeft = Capacity /\ prog \in Programs
    BY LengthsAssumption DEF AudioIInv, AudioTypes, FirstAtStart, BytesLeft, Programs
  <2>2. CASE partial_bytes[prog] > 0
    <3>1. Len(hdc[prog]) > 0 /\ partial_bytes[prog] < hdc[prog][1]
      BY <2>1, <2>2 DEF AudioIInv, RestInv
    <3>2. hdc[prog][1] \in AllLens /\ partial_bytes[prog] \in Nat
      <4>1. hdc[prog] \in Seq(AllLens)
        BY <2>1 DEF AudioIInv, AudioTypes
      <4> QED BY <2>1, <3>1, <4>1 DEF AudioIInv, AudioTypes
    <3>3. hdc[prog][1] \in Nat
      BY <3>2, LensFacts
    <3>4. Overhead(1) \in Nat
      <4>1. 1 \in Nat
        OBVIOUS
      <4> QED BY <4>1, OverheadFacts
    <3>5. partial_bytes[prog] + 1 <= hdc[prog][1] /\ Overhead(1) + hdc[prog][1] <= Capacity
      BY <3>1, <3>2, <3>3
    <3> QED BY <2>1, <2>2, <3>2, <3>3, <3>4, <3>5, LengthsAssumption DEF Rest
  <2>3. CASE ~ (partial_bytes[prog] > 0)
    BY <2>1, <2>3 DEF Rest
  <2> QED BY <2>2, <2>3
<1> QED BY <1>1, <1>2, <1>3, AudioInvariance, RoomSuffices, PTL DEF Layer2Spec
-------------------------------------------------------------------------------
\* What a packet of the mean length takes up, with its CRC byte and its locator,
\* in eighths of a byte, because a locator may be of one byte and a half.
Cost == 8 * AvgLen[1] + 8 + LcBits

(***************************************************************************)
(* What the program's bit rate and its encoder's reservoir must be.  The   *)
(* packets due in a PDU fit into it at the mean rate, with a locator and a *)
(* CRC byte to spare for the packet that is split, and 12 eighths of what  *)
(* len_locators rounds and NoRoom leaves; forecast asks for as many bytes, *)
(* with an ADTS header for each packet that may be due and one packet that *)
(* is not yet complete; and what the reservoir holds is less than the      *)
(* packets that may be overdue.                                            *)
(***************************************************************************)
RateFits ==
    /\ \E longest \in PacketLens[1] : \A len \in PacketLens[1] : len <= longest
    /\ Cost * TargetNop + 8 * FixedLen + 2 * LcBits + 20 <= 8 * Capacity
    /\ Cost * TargetNop + 8 * (AdtsLen * (LagLimit + TargetNop + 1) + TornPacket(1)) <= 8 * (Forecast + 1)
    /\ 8 * Reservoir < Cost * LagLimit

\* Packets in the input buffer of which a part has been sent.
Begun == IF partial_bytes[1] > 0 THEN 1 ELSE 0

\* lv[k]: what the encoder had saved after the k-th packet of the input buffer.
Levels(lv) ==
    /\ lv \in [0 .. Len(hdc[1]) -> 0 .. Reservoir]
    /\ lv[Len(hdc[1])] = saved[1]
    /\ \A k \in 1 .. Len(hdc[1]) : lv[k] + hdc[1][k] <= lv[k - 1] + AvgLen[1]

(***************************************************************************)
(* How far the transport is behind, in eighths of a byte: packets due at   *)
(* their mean, the rest of a split one, and what the encoder had saved     *)
(* before the first packet not begun, which may be that much longer.  A    *)
(* full PDU takes away more than becomes due in it, whatever the lengths   *)
(* of the packets in it.                                                   *)
(***************************************************************************)
Behind(lv) == Cost * due[1] + 8 * partial_bytes[1] + 8 * lv[Begun]

\* Why a scan ends: no packet is due, none is there, or the PDU is full.
Stopped ==
    \/ begin_bytes = 0 /\ nop >= due[1]
    \/ begin_bytes = 0 /\ nop = Len(hdc[1])
    \/ 8 * Capacity <= 8 * FixedLen + LcBits * (nop + 1) + 12 + 8 * (audio_length + SplitLen)

BetweenPdus(lv) == Behind(lv) <= Cost + 8 * Reservoir

\* The scan has counted packets that the encoder could make from what it had saved.
InPdu(lv) ==
    /\ Behind(lv) <= Cost + 8 * Reservoir + Cost * TargetNop
    /\ due[1] <= LagLimit + TargetNop
    /\ Begun <= nop /\ (nop <= due[1] \/ nop <= 1)
    /\ lv[nop] + audio_length + SplitLen + end_bytes
         <= lv[Begun] + AvgLen[1] * (nop - Begun) + nop + partial_bytes[1]
    /\ Available(1) + AdtsLen + TornPacket(1) > Forecast
    /\ scanning \/ Stopped

KeepIInv ==
    /\ saved \in [Programs -> 0 .. Reservoir] /\ due \in [Programs -> Int]
    /\ \E lv : /\ Levels(lv)
               /\ prog = 0 => BetweenPdus(lv)
               /\ prog = 1 => InPdu(lv)

\* A sum is the first item and the sum of the others.
LEMMA SumOfTail ==
    ASSUME NEW n \in Nat, NEW s \in [1 .. n + 1 -> Nat], NEW t \in [1 .. n -> Nat],
           \A k \in 1 .. n : t[k] = s[k + 1]
    PROVE  SumLens(s) = s[1] + SumLens(t)
<1>1. s \in [1 .. n + 1 -> Int] /\ t \in [1 .. n -> Int] /\ n + 1 \in Nat
  OBVIOUS
<1>2. PICK u : IsSum(u, s, n + 1) /\ Total(s) = u[n + 1]
  BY <1>1, TotalSum
<1>3. PICK v : IsSum(v, t, n) /\ Total(t) = v[n]
  BY <1>1, TotalSum
<1> DEFINE w == [k \in 0 .. n |-> u[k + 1] - s[1]]
<1>4. u[1] = s[1]
  <2>1. 1 \in 1 .. n + 1 /\ 1 - 1 = 0
    OBVIOUS
  <2>2. u[1] = u[1 - 1] + s[1] /\ u[0] = 0
    BY <1>2, <2>1 DEF IsSum
  <2> QED BY <2>1, <2>2
<1>5. IsSum(w, t, n)
  <2>1. \A k \in 0 .. n : w[k] = u[k + 1] - s[1] /\ u[k + 1] \in Int /\ s[1] \in Int
    BY <1>2 DEF IsSum
  <2>2. w \in [0 .. n -> Int]
    BY <2>1
  <2>3. w[0] = 0
    <3>1. 0 \in 0 .. n /\ 0 + 1 = 1
      OBVIOUS
    <3>2. w[0] = u[0 + 1] - s[1]
      BY <2>1, <3>1
    <3> QED BY <1>4, <2>1, <3>1, <3>2
  <2>4. ASSUME NEW k \in 1 .. n PROVE w[k] = w[k - 1] + t[k]
    <3>1. k + 1 \in 1 .. n + 1 /\ (k + 1) - 1 = k /\ k \in 0 .. n /\ k - 1 \in 0 .. n /\ (k - 1) + 1 = k
      OBVIOUS
    <3>2. u[k + 1] = u[k] + s[k + 1]
      BY <1>2, <3>1 DEF IsSum
    <3>3. w[k] = u[k + 1] - s[1] /\ w[k - 1] = u[k] - s[1]
      BY <2>1, <3>1
    <3>4. u[k] \in Int /\ s[1] \in Int /\ t[k] = s[k + 1] /\ t[k] \in Int
      BY <1>1, <1>2, <3>1, SMTT(30) DEF IsSum
    <3> HIDE DEF w
    <3> QED BY <3>2, <3>3, <3>4
  <2> HIDE DEF w
  <2> QED BY <2>2, <2>3, <2>4 DEF IsSum
<1>6. v[n] = w[n]
  <2> HIDE DEF w
  <2> QED BY <1>3, <1>5, SumUnique
<1>7. w[n] = u[n + 1] - s[1] /\ u[n + 1] \in Int /\ s[1] \in Int
  BY <1>2 DEF IsSum
<1> HIDE DEF w
<1>8. SumLens(s) = Total(s) /\ SumLens(t) = Total(t)
  BY DEF SumLens, Total
<1>9. SumLens(s) = u[n + 1] /\ SumLens(t) = u[n + 1] - s[1]
  BY <1>2, <1>3, <1>6, <1>7, <1>8
<1> QED BY <1>7, <1>9

\* One program.
LEMMA OneFacts ==
    ASSUME NumProgs = 1, AudioIInv
    PROVE  /\ Programs = {1} /\ prog \in {0, 1}
           /\ hdc \in [Programs -> Seq(AllLens)] /\ hdc[1] \in Seq(AllLens) /\ Len(hdc[1]) \in Nat
           /\ \A k \in 1 .. Len(hdc[1]) : hdc[1][k] \in Nat \ {0}
           /\ partial_bytes \in [Programs -> Nat] /\ partial_bytes[1] \in Nat
           /\ nop \in Nat /\ audio_length \in Nat /\ begin_bytes \in Nat /\ end_bytes \in Nat
           /\ SplitLen \in Nat /\ Begun \in {0, 1} /\ Begun <= Len(hdc[1])
           /\ prog = 1 => nop <= Len(hdc[1])
<1>1. Programs = {1}
  BY DEF Programs
<1>2. prog \in {0, 1}
  BY DEF AudioIInv, AudioTypes
<1>3. /\ hdc \in [Programs -> Seq(AllLens)] /\ hdc[1] \in Seq(AllLens) /\ Len(hdc[1]) \in Nat
      /\ \A k \in 1 .. Len(hdc[1]) : hdc[1][k] \in AllLens
  BY <1>1 DEF AudioIInv, AudioTypes
<1>4. \A k \in 1 .. Len(hdc[1]) : hdc[1][k] \in Nat \ {0}
  BY <1>3, LensFacts
<1>5. /\ partial_bytes \in [Programs -> Nat] /\ partial_bytes[1] \in Nat
      /\ nop \in Nat /\ audio_length \in Nat /\ begin_bytes \in Nat /\ end_bytes \in Nat
  BY <1>1 DEF AudioIInv, AudioTypes
<1>6. SplitLen \in Nat /\ Begun \in {0, 1}
  BY <1>5 DEF SplitLen, Begun
<1>7. Begun <= Len(hdc[1])
  BY <1>1, <1>3 DEF Begun, AudioIInv, RestInv
<1>8. prog = 1 => nop <= Len(hdc[1])
  BY DEF AudioIInv, ScanInv
<1> QED BY <1>1, <1>2, <1>3, <1>4, <1>5, <1>6, <1>7, <1>8

\* A scan that has emptied the buffer has counted what forecast saw.
LEMMA EmptiedFacts ==
    ASSUME NumProgs = 1, AudioIInv, prog = 1, begin_bytes = 0, nop = Len(hdc[1])
    PROVE  Available(1) + nop = audio_length + AdtsLen * (nop - Begun)
<1>1. /\ Programs = {1} /\ hdc[1] \in Seq(AllLens) /\ nop \in Nat /\ audio_length \in Nat
      /\ \A k \in 1 .. nop : hdc[1][k] \in Nat \ {0}
      /\ partial_bytes[1] \in Nat
  BY OneFacts
<1> DEFINE segs == Section(1).segs
<1>2. segs = [z \in 1 .. nop |-> Segment(1, z)] /\ segs \in [1 .. nop -> Nat]
  BY SegmentsFacts
<1>3. SumLens(segs) + nop = audio_length
  <2>1. SumLens(segs) + nop = audio_length + SplitLen
    BY DEF AudioIInv, RoomInv
  <2> QED BY <1>1, <2>1 DEF SplitLen
<1>4. SumLens(segs) \in Nat /\ AdtsLen \in Nat
  BY <1>1, <1>2, SumFacts, LengthsAssumption
<1>5. CASE partial_bytes[1] > 0
  <2>1. nop > 0 /\ Begun = 1
    BY <1>1, <1>5 DEF AudioIInv, ScanInv, Begun
  <2> DEFINE n == nop - 1
             t == Tail(hdc[1])
  <2>2. n \in Nat /\ nop = n + 1
    BY <1>1, <2>1
  <2>3. t \in Seq(AllLens) /\ Len(t) = n /\ \A k \in 1 .. n : t[k] = hdc[1][k + 1]
    BY <1>1, <2>1
  <2>4. segs[1] = partial_bytes[1] /\ \A k \in 1 .. n : segs[k + 1] = hdc[1][k + 1]
    <3>1. \A z \in 1 .. nop : segs[z] = Segment(1, z)
      BY <1>2
    <3>2. 1 \in 1 .. nop /\ \A k \in 1 .. n : k + 1 \in 1 .. nop /\ k + 1 # 1
      BY <2>2
    <3> HIDE DEF segs
    <3> QED BY <1>5, <3>1, <3>2 DEF Segment
  <2>5. t \in [1 .. n -> Nat]
    <3>1. DOMAIN t = 1 .. n /\ t = [k \in DOMAIN t |-> t[k]]
      BY <2>3
    <3>2. \A k \in 1 .. n : t[k] \in Nat
      BY <1>1, <2>2, <2>3
    <3> HIDE DEF t
    <3> QED BY <3>1, <3>2
  <2> HIDE DEF segs, t
  <2>6. segs \in [1 .. n + 1 -> Nat]
    BY <1>2, <2>2
  <2>7. SumLens(segs) = segs[1] + SumLens(t)
    BY <2>2, <2>3, <2>4, <2>5, <2>6, SumOfTail
  <2>8. Available(1) = partial_bytes[1] + SumLens(t) + AdtsLen * (nop - 1)
    BY <1>5 DEF Available, t
  <2>9. SumLens(t) \in Nat
    BY <2>2, <2>5, SumFacts
  <2>10. PICK avail, sum, rest, heads, begun, counted : /\ counted = nop
                                               /\ avail = Available(1) /\ sum = SumLens(segs) /\ rest = SumLens(t)
                                               /\ heads = AdtsLen * (nop - 1) /\ begun = partial_bytes[1]
    OBVIOUS
  <2>11. /\ avail = begun + rest + heads /\ sum + counted = audio_length
         /\ sum = begun + rest
    BY <1>3, <2>4, <2>7, <2>8, <2>10
  <2>12. sum \in Nat /\ rest \in Nat /\ heads \in Int /\ begun \in Nat /\ counted \in Nat /\ audio_length \in Nat
    BY <1>1, <1>4, <2>9, <2>10
  <2>13. avail + counted = audio_length + heads
    BY <2>11, <2>12
  <2> QED BY <2>1, <2>10, <2>13
<1>6. CASE ~ (partial_bytes[1] > 0)
  <2>1. segs = hdc[1]
    <3>1. \A z \in 1 .. nop : segs[z] = hdc[1][z]
      BY <1>2, <1>6 DEF Segment
    <3>2. DOMAIN hdc[1] = 1 .. nop /\ hdc[1] = [z \in DOMAIN hdc[1] |-> hdc[1][z]]
      BY <1>1
    <3>3. segs = [z \in 1 .. nop |-> segs[z]]
      BY <1>2
    <3> HIDE DEF segs
    <3> QED BY <3>1, <3>2, <3>3
  <2>2. Available(1) = SumLens(hdc[1]) + AdtsLen * nop /\ Begun = 0
    BY <1>6 DEF Available, Begun
  <2> HIDE DEF segs
  <2> QED BY <1>1, <1>3, <1>4, <2>1, <2>2, SMTT(30)
<1> QED BY <1>5, <1>6

LEMMA RateFacts ==
    ASSUME NumProgs = 1, RateFits
    PROVE  /\ AvgLen[1] \in Nat /\ Reservoir \in Nat /\ TargetNop \in Nat \ {0} /\ LcBits \in {12, 16}
           /\ Cost \in Nat \ {0} /\ Cost = 8 * AvgLen[1] + 8 + LcBits
           /\ FixedLen \in Nat /\ Capacity \in Nat /\ AdtsLen \in Nat /\ Forecast \in Nat /\ LagLimit \in Nat
           /\ MaxDue \in Nat /\ TornPacket(1) \in Nat
           /\ PacketLens[1] \subseteq Nat \ {0}
<1>1. Programs = {1}
  BY DEF Programs
<1>2. /\ AvgLen[1] \in Nat /\ Reservoir \in Nat /\ TargetNop \in Nat \ {0} /\ LcBits \in {12, 16}
      /\ FixedLen \in Nat /\ Capacity \in Nat /\ AdtsLen \in Nat /\ Forecast \in Nat /\ LagLimit \in Nat /\ MaxDue \in Nat
  BY <1>1, LengthsAssumption, LcBitsAssumption
<1>3. Cost \in Nat \ {0} /\ Cost = 8 * AvgLen[1] + 8 + LcBits
  BY <1>2 DEF Cost
<1>4. PacketLens[1] \subseteq Nat \ {0}
  BY <1>1, ProgramsAssumption
<1>5. TornPacket(1) \in Nat
  <2>1. \E longest \in PacketLens[1] : \A len \in PacketLens[1] : len <= longest
    BY DEF RateFits
  <2>2. TornPacket(1) \in PacketLens[1]
    BY <2>1 DEF TornPacket
  <2> QED BY <1>4, <2>2
<1> QED BY <1>2, <1>3, <1>4, <1>5

\* The locators of a section, in eighths of a byte.
LEMMA OverheadBound ==
    ASSUME NEW n \in Nat
    PROVE  8 * Overhead(n) <= 8 * FixedLen + LcBits * n + 4
<1>1. LcBits \in {12, 16} /\ FixedLen \in Nat
  BY LcBitsAssumption, LengthsAssumption
<1>2. CASE LcBits = 12
  BY <1>1, <1>2 DEF Overhead, len_locators
<1>3. CASE LcBits = 16
  BY <1>1, <1>3 DEF Overhead, len_locators
<1> QED BY <1>1, <1>2, <1>3

\* What a PDU takes away, in the letters of WriteKeeps: c is Cost, t TargetNop, d due,
\* n the packets in the section, b those of them begun before, p and e the rests of
\* packets before and after, l0 and l1 the levels, a what the section holds.
LEMMA Taken ==
    ASSUME NEW c \in Nat, NEW l \in Nat, NEW avg \in Nat, c = 8 * avg + 8 + l,
           NEW n \in Nat, NEW b \in {0, 1}, b <= n, NEW d \in Int, NEW p \in Nat, NEW e \in Nat,
           NEW l0 \in Nat, NEW l1 \in Nat, NEW a \in Nat,
           l1 + a + e <= l0 + avg * (n - b) + n + p
    PROVE  c * (d - (n - b)) + 8 * e + 8 * l1 + 8 * a
             <= c * d + 8 * p + 8 * l0 + 8 * b - l * (n - b)
<1> DEFINE k == n - b
<1>1. k \in Nat /\ n = k + b
  OBVIOUS
<1> HIDE DEF k
<1>2. c * (d - k) = c * d - c * k /\ c * k = 8 * (avg * k) + 8 * k + l * k
  BY <1>1
<1>3. c * d \in Int /\ c * k \in Int /\ avg * k \in Int /\ l * k \in Int
  BY <1>1
<1>4. l1 + a + e <= l0 + avg * k + n + p
  BY DEF k
<1>5. c * (d - k) + 8 * e + 8 * l1 + 8 * a <= c * d + 8 * p + 8 * l0 + 8 * b - l * k
  <2>1. PICK cd, ck, ak, lk : cd = c * d /\ ck = c * k /\ ak = avg * k /\ lk = l * k
    OBVIOUS
  <2>2. cd \in Int /\ ck \in Int /\ ak \in Int /\ lk \in Int
    BY <1>3, <2>1
  <2>3. ck = 8 * ak + 8 * k + lk /\ l1 + a + e <= l0 + ak + n + p /\ c * (d - k) = cd - ck
    BY <1>2, <1>4, <2>1
  <2>4. cd - ck + 8 * e + 8 * l1 + 8 * a <= cd + 8 * p + 8 * l0 + 8 * b - lk
    BY <1>1, <2>2, <2>3
  <2> QED BY <2>1, <2>3, <2>4
<1> QED BY <1>5 DEF k

\* What does not change while a PDU is filled.
LEMMA ScanKeeps ==
    ASSUME NumProgs = 1, AudioIInv, NEW lv, Levels(lv), UNCHANGED <<saved, hdc, partial_bytes, due, prog>>
    PROVE  /\ Levels(lv)' /\ Behind(lv)' = Behind(lv) /\ Begun' = Begun
           /\ Available(1)' = Available(1)
BY DEF Levels, Behind, Begun, Available

\* The scan counts one packet more, the whole of it or its first bytes.
LEMMA LedgerStep ==
    ASSUME NumProgs = 1, RateFits, AudioIInv, prog = 1, MayScan, NEW lv, Levels(lv), InPdu(lv)
    PROVE  /\ nop + 1 \in 1 .. Len(hdc[1]) /\ NextLen \in Nat /\ nop < due[1] /\ begin_bytes = 0 /\ end_bytes = 0
           /\ lv[nop + 1] + audio_length + NextLen
                <= lv[Begun] + AvgLen[1] * (nop + 1 - Begun) + nop + partial_bytes[1]
<1>1. /\ hdc[1] \in Seq(AllLens) /\ Len(hdc[1]) \in Nat /\ nop \in Nat /\ nop <= Len(hdc[1]) /\ begin_bytes \in Nat
      /\ \A k \in 1 .. Len(hdc[1]) : hdc[1][k] \in Nat \ {0}
      /\ Begun \in {0, 1} /\ Begun <= Len(hdc[1]) /\ partial_bytes[1] \in Nat /\ audio_length \in Nat
  BY OneFacts
<1>2. nop < due[1] /\ Len(hdc[1]) - nop > 0 /\ scanning
  BY DEF MayScan, Unscanned
<1>3. begin_bytes = 0 /\ end_bytes = 0
  BY <1>2 DEF AudioIInv, ScanInv
<1>4. nop + 1 \in 1 .. Len(hdc[1]) /\ NextLen \in Nat /\ NextLen = hdc[1][nop + 1]
  BY <1>1, <1>2 DEF NextLen
<1>5. /\ lv[nop + 1] + NextLen <= lv[nop] + AvgLen[1]
      /\ lv[nop + 1] \in Nat /\ lv[nop] \in Nat /\ lv[Begun] \in Nat
  <2>1. /\ lv \in [0 .. Len(hdc[1]) -> 0 .. Reservoir]
        /\ \A k \in 1 .. Len(hdc[1]) : lv[k] + hdc[1][k] <= lv[k - 1] + AvgLen[1]
    BY DEF Levels
  <2>2. (nop + 1) - 1 = nop /\ nop \in 0 .. Len(hdc[1]) /\ nop + 1 \in 0 .. Len(hdc[1]) /\ Begun \in 0 .. Len(hdc[1])
    BY <1>1, <1>4
  <2>3. lv[nop + 1] + hdc[1][nop + 1] <= lv[(nop + 1) - 1] + AvgLen[1]
    BY <1>4, <2>1
  <2>4. Reservoir \in Nat
    BY RateFacts
  <2>5. \A k \in 0 .. Len(hdc[1]) : lv[k] \in Nat
    BY <2>1, <2>4
  <2> QED BY <1>4, <2>2, <2>3, <2>5
<1>6. AvgLen[1] * (nop + 1 - Begun) = AvgLen[1] * (nop - Begun) + AvgLen[1] /\ AvgLen[1] * (nop - Begun) \in Int
      /\ AvgLen[1] \in Nat
  <2>1. AvgLen[1] \in Nat
    BY RateFacts
  <2>2. nop + 1 - Begun = (nop - Begun) + 1 /\ nop - Begun \in Int
    BY <1>1
  <2> QED BY <2>1, <2>2
<1>7. lv[nop] + audio_length <= lv[Begun] + AvgLen[1] * (nop - Begun) + nop + partial_bytes[1]
  <2>1. lv[nop] + audio_length + SplitLen + end_bytes
             <= lv[Begun] + AvgLen[1] * (nop - Begun) + nop + partial_bytes[1]
    BY DEF InPdu
  <2>2. SplitLen = 0
    BY <1>3 DEF SplitLen
  <2> QED BY <1>1, <1>3, <1>5, <2>1, <2>2
<1>8. lv[nop + 1] + audio_length + NextLen
                <= lv[Begun] + AvgLen[1] * (nop + 1 - Begun) + nop + partial_bytes[1]
  <2>1. PICK more, was, from, len, avg, prod, prod2, rest :
             /\ more = lv[nop + 1] /\ was = lv[nop] /\ from = lv[Begun] /\ len = NextLen /\ avg = AvgLen[1]
             /\ prod = AvgLen[1] * (nop - Begun) /\ prod2 = AvgLen[1] * (nop + 1 - Begun)
             /\ rest = partial_bytes[1]
    OBVIOUS
  <2>2. /\ more \in Nat /\ was \in Nat /\ from \in Nat /\ len \in Nat /\ avg \in Nat /\ prod \in Int /\ rest \in Nat
        /\ prod2 = prod + avg /\ audio_length \in Nat /\ nop \in Nat
        /\ more + len <= was + avg /\ was + audio_length <= from + prod + nop + rest
    BY <1>1, <1>4, <1>5, <1>6, <1>7, <2>1
  <2>3. more + audio_length + len <= from + prod2 + nop + rest
    BY <2>2
  <2> QED BY <2>1, <2>3
<1> QED BY <1>2, <1>3, <1>4, <1>8

LEMMA ScanWholeKeeps ==
    ASSUME NumProgs = 1, RateFits, AudioIInv, prog = 1, NEW lv, Levels(lv), InPdu(lv), due[1] \in Int, ScanWhole
    PROVE  Levels(lv)' /\ InPdu(lv)'
<1>1. /\ MayScan /\ scanning /\ nop' = nop + 1 /\ audio_length' = audio_length + NextLen + 1
      /\ UNCHANGED <<saved, hdc, partial_bytes, due, prog, scanning, begin_bytes, end_bytes>>
  BY DEF ScanWhole, MayScan
<1>2. Levels(lv)' /\ Behind(lv)' = Behind(lv) /\ Begun' = Begun /\ Available(1)' = Available(1)
  BY <1>1, ScanKeeps
<1>3. /\ nop + 1 \in 1 .. Len(hdc[1]) /\ NextLen \in Nat /\ nop < due[1] /\ begin_bytes = 0 /\ end_bytes = 0
      /\ lv[nop + 1] + audio_length + NextLen
                <= lv[Begun] + AvgLen[1] * (nop + 1 - Begun) + nop + partial_bytes[1]
  BY <1>1, LedgerStep
<1>4. /\ nop \in Nat /\ Begun \in {0, 1} /\ audio_length \in Nat /\ partial_bytes[1] \in Nat /\ Programs = {1}
  BY OneFacts
<1>5. SplitLen' = 0 /\ end_bytes' = 0
  BY <1>1, <1>3 DEF SplitLen
<1>6. lv[nop'] + audio_length' + SplitLen' + end_bytes'
         <= lv[Begun'] + AvgLen[1] * (nop' - Begun') + nop' + partial_bytes'[1]
  <2>1. PICK more, from, len, prod, rest :
             /\ more = lv[nop + 1] /\ from = lv[Begun] /\ len = NextLen
             /\ prod = AvgLen[1] * (nop + 1 - Begun) /\ rest = partial_bytes[1]
    OBVIOUS
  <2>2. more \in Nat /\ from \in Nat /\ prod \in Int
    <3>1. lv \in [0 .. Len(hdc[1]) -> 0 .. Reservoir] /\ Reservoir \in Nat /\ AvgLen[1] \in Nat
      BY RateFacts DEF Levels
    <3>2. nop + 1 \in 0 .. Len(hdc[1]) /\ Begun \in 0 .. Len(hdc[1])
      BY <1>3, <1>4, OneFacts
    <3> QED BY <1>4, <2>1, <3>1, <3>2
  <2>3. more + audio_length + len <= from + prod + nop + rest /\ len \in Nat /\ rest \in Nat
    BY <1>3, <1>4, <2>1
  <2>4. more + (audio_length + len + 1) + 0 + 0 <= from + prod + (nop + 1) + rest
    BY <1>4, <2>2, <2>3
  <2>5. /\ lv[nop'] = more /\ audio_length' = audio_length + len + 1 /\ SplitLen' = 0 /\ end_bytes' = 0
        /\ lv[Begun'] = from /\ nop' = nop + 1 /\ nop' - Begun' = nop + 1 - Begun /\ partial_bytes'[1] = rest
    <3>1. nop' = nop + 1 /\ Begun' = Begun /\ partial_bytes' = partial_bytes
      BY <1>1, <1>2
    <3>2. lv[nop'] = more /\ lv[Begun'] = from /\ partial_bytes'[1] = rest
      BY <2>1, <3>1
    <3>3. audio_length' = audio_length + len + 1 /\ SplitLen' = 0 /\ end_bytes' = 0
      BY <1>1, <1>2, <1>5, <2>1
    <3>4. nop' - Begun' = nop + 1 - Begun
      BY <1>4, <3>1
    <3> QED BY <3>1, <3>2, <3>3, <3>4
  <2>6. AvgLen[1] * (nop' - Begun') = prod
    BY <2>1, <2>5
  <2> QED BY <2>4, <2>5, <2>6
<1>7. Begun' <= nop' /\ nop' <= due'[1]
  <2>1. Begun <= nop
    BY DEF InPdu
  <2> QED BY <1>1, <1>2, <1>3, <1>4, <2>1
<1> QED BY <1>1, <1>2, <1>6, <1>7 DEF InPdu

LEMMA ScanSplitKeeps ==
    ASSUME NumProgs = 1, RateFits, AudioIInv, FirstAtStart, prog = 1, NEW lv, Levels(lv), InPdu(lv),
           due[1] \in Int, ScanSplit
    PROVE  Levels(lv)' /\ InPdu(lv)'
<1>1. /\ MayScan /\ ~ NoRoom /\ nop' = nop + 1 /\ begin_bytes' = BeginBytes /\ end_bytes' = NextLen - BeginBytes
      /\ ~ scanning'
      /\ UNCHANGED <<saved, hdc, partial_bytes, due, prog, audio_length>>
  BY DEF ScanSplit
<1>2. Levels(lv)' /\ Behind(lv)' = Behind(lv) /\ Begun' = Begun /\ Available(1)' = Available(1)
  BY <1>1, ScanKeeps
<1>3. /\ nop + 1 \in 1 .. Len(hdc[1]) /\ NextLen \in Nat /\ nop < due[1] /\ begin_bytes = 0 /\ end_bytes = 0
      /\ lv[nop + 1] + audio_length + NextLen
                <= lv[Begun] + AvgLen[1] * (nop + 1 - Begun) + nop + partial_bytes[1]
  BY <1>1, LedgerStep
<1>4. /\ nop \in Nat /\ Begun \in {0, 1} /\ audio_length \in Nat /\ partial_bytes[1] \in Nat /\ Programs = {1}
  BY OneFacts
<1>5. /\ Overhead(nop + 1) \in Nat /\ Capacity \in Nat /\ LcBits \in {12, 16} /\ FixedLen \in Nat
      /\ 8 * Overhead(nop + 1) <= 8 * FixedLen + LcBits * (nop + 1) + 4
  <2>1. nop + 1 \in Nat
    BY <1>4
  <2> QED BY <2>1, RateFacts, OverheadFacts, OverheadBound
<1>6. BeginBytes = Capacity - (Overhead(nop + 1) + audio_length + 1) /\ BeginBytes \in Nat /\ BeginBytes > 0
  <2>1. BytesLeft = Capacity
    BY <1>5 DEF BytesLeft, FirstAtStart
  <2>2. ~ (Overhead(nop + 1) + audio_length + 2 > Capacity)
    BY <1>1, <2>1 DEF NoRoom
  <2> QED BY <1>4, <1>5, <2>1, <2>2 DEF BeginBytes
<1>7. SplitLen' = BeginBytes + 1
  BY <1>1, <1>6 DEF SplitLen
<1>8. lv[nop'] + audio_length' + SplitLen' + end_bytes'
         <= lv[Begun'] + AvgLen[1] * (nop' - Begun') + nop' + partial_bytes'[1]
  <2>1. PICK more, from, len, prod, rest, half :
             /\ more = lv[nop + 1] /\ from = lv[Begun] /\ len = NextLen
             /\ prod = AvgLen[1] * (nop + 1 - Begun) /\ rest = partial_bytes[1] /\ half = BeginBytes
    OBVIOUS
  <2>2. more \in Nat /\ from \in Nat /\ prod \in Int
    <3>1. lv \in [0 .. Len(hdc[1]) -> 0 .. Reservoir] /\ Reservoir \in Nat /\ AvgLen[1] \in Nat
      BY RateFacts DEF Levels
    <3>2. nop + 1 \in 0 .. Len(hdc[1]) /\ Begun \in 0 .. Len(hdc[1])
      BY <1>3, <1>4, OneFacts
    <3> QED BY <1>4, <2>1, <3>1, <3>2, SMTT(30)
  <2>3. more + audio_length + len <= from + prod + nop + rest /\ len \in Nat /\ rest \in Nat /\ half \in Nat
    BY <1>3, <1>4, <1>6, <2>1
  <2>4. more + audio_length + (half + 1) + (len - half) <= from + prod + (nop + 1) + rest
    BY <1>4, <2>2, <2>3
  <2>5. /\ lv[nop'] = more /\ audio_length' = audio_length /\ SplitLen' = half + 1 /\ end_bytes' = len - half
        /\ lv[Begun'] = from /\ nop' = nop + 1 /\ nop' - Begun' = nop + 1 - Begun /\ partial_bytes'[1] = rest
    <3>1. nop' = nop + 1 /\ Begun' = Begun /\ partial_bytes' = partial_bytes
      BY <1>1, <1>2
    <3>2. lv[nop'] = more /\ lv[Begun'] = from /\ partial_bytes'[1] = rest
      BY <2>1, <3>1
    <3>3. audio_length' = audio_length /\ SplitLen' = half + 1 /\ end_bytes' = len - half
      BY <1>1, <1>2, <1>7, <2>1
    <3>4. nop' - Begun' = nop + 1 - Begun
      BY <1>4, <3>1
    <3> QED BY <3>1, <3>2, <3>3, <3>4
  <2>6. AvgLen[1] * (nop' - Begun') = prod
    BY <2>1, <2>5
  <2> QED BY <2>4, <2>5, <2>6
<1>9. Begun' <= nop' /\ nop' <= due'[1]
  <2>1. Begun <= nop
    BY DEF InPdu
  <2> QED BY <1>1, <1>2, <1>3, <1>4, <2>1
<1>10. Stopped'
  <2>1. 8 * Capacity <= 8 * FixedLen + LcBits * (nop + 1 + 1) + 12 + 8 * (audio_length + (BeginBytes + 1))
    <3>1. LcBits * (nop + 1 + 1) = LcBits * (nop + 1) + LcBits /\ LcBits * (nop + 1) \in Int
      BY <1>4, <1>5
    <3>2. PICK head, loc : head = Overhead(nop + 1) /\ loc = LcBits * (nop + 1)
      OBVIOUS
    <3>3. Capacity = head + audio_length + 1 + BeginBytes /\ head \in Nat /\ loc \in Int
      BY <1>4, <1>5, <1>6, <3>1, <3>2
    <3>4. 8 * head <= 8 * FixedLen + loc + 4
      BY <1>5, <3>2
    <3>5. 8 * Capacity <= 8 * FixedLen + (loc + LcBits) + 12 + 8 * (audio_length + (BeginBytes + 1))
      BY <1>4, <1>5, <1>6, <3>3, <3>4
    <3> QED BY <3>1, <3>2, <3>5
  <2> QED BY <1>1, <1>7, <2>1 DEF Stopped
<1> QED BY <1>1, <1>2, <1>8, <1>9, <1>10 DEF InPdu

LEMMA ScanStopKeeps ==
    ASSUME NumProgs = 1, RateFits, AudioIInv, FirstAtStart, prog = 1, NEW lv, Levels(lv), InPdu(lv),
           due[1] \in Int, ScanStop
    PROVE  Levels(lv)' /\ InPdu(lv)'
<1>1. /\ scanning /\ (~ MayScan \/ NoRoom)
      /\ UNCHANGED <<saved, hdc, partial_bytes, due, prog, nop, audio_length, begin_bytes, end_bytes>>
  BY DEF ScanStop
<1>2. Levels(lv)' /\ Behind(lv)' = Behind(lv) /\ Begun' = Begun /\ Available(1)' = Available(1)
  BY <1>1, ScanKeeps
<1>3. begin_bytes = 0 /\ SplitLen = 0 /\ SplitLen' = SplitLen
  BY <1>1 DEF AudioIInv, ScanInv, SplitLen
<1>4. /\ nop \in Nat /\ nop <= Len(hdc[1]) /\ Len(hdc[1]) \in Nat /\ audio_length \in Nat
  BY OneFacts
<1>5. Stopped
  <2>1. CASE ~ MayScan
    <3>1. nop >= due[1] \/ nop = Len(hdc[1])
      BY <1>1, <1>4, <2>1 DEF MayScan, Unscanned
    <3> QED BY <1>3, <3>1 DEF Stopped
  <2>2. CASE NoRoom
    <3>1. /\ Overhead(nop + 1) \in Nat /\ Capacity \in Nat /\ LcBits \in {12, 16} /\ FixedLen \in Nat
          /\ 8 * Overhead(nop + 1) <= 8 * FixedLen + LcBits * (nop + 1) + 4
      <4>1. nop + 1 \in Nat
        BY <1>4
      <4> QED BY <4>1, RateFacts, OverheadFacts, OverheadBound
    <3>2. BytesLeft = Capacity
      BY <3>1 DEF BytesLeft, FirstAtStart
    <3>3. Overhead(nop + 1) + audio_length + 2 > Capacity
      BY <2>2, <3>2 DEF NoRoom
    <3>4. LcBits * (nop + 1) \in Int
      BY <1>4, <3>1
    <3>5. 8 * Capacity <= 8 * FixedLen + LcBits * (nop + 1) + 12 + 8 * (audio_length + 0)
      <4>1. PICK head, loc : head = Overhead(nop + 1) /\ loc = LcBits * (nop + 1)
        OBVIOUS
      <4>2. head \in Nat /\ loc \in Int /\ head + audio_length + 2 > Capacity /\ 8 * head <= 8 * FixedLen + loc + 4
        BY <3>1, <3>3, <3>4, <4>1
      <4>3. 8 * Capacity <= 8 * FixedLen + loc + 12 + 8 * (audio_length + 0)
        BY <1>4, <3>1, <4>2
      <4> QED BY <4>1, <4>3
    <3> QED BY <1>3, <3>5 DEF Stopped
  <2> QED BY <1>1, <2>1, <2>2
<1>6. Stopped'
  BY <1>1, <1>3, <1>5 DEF Stopped
<1> QED BY <1>1, <1>2, <1>3, <1>6 DEF InPdu

\* The encoder makes a packet that its mean and what it has saved allow.
LEMMA ArriveKeeps ==
    ASSUME NumProgs = 1, RateFits, AudioIInv, KeepIInv, NEW len \in PacketLens[1], Arrive(1, len)
    PROVE  KeepIInv'
<1>1. PICK lv : Levels(lv) /\ (prog = 0 => BetweenPdus(lv))
  BY DEF KeepIInv
<1>2. /\ Programs = {1} /\ hdc[1] \in Seq(AllLens) /\ Len(hdc[1]) \in Nat /\ hdc \in [Programs -> Seq(AllLens)]
      /\ Begun \in {0, 1} /\ Begun <= Len(hdc[1])
  BY OneFacts
<1>3. AvgLen[1] \in Nat /\ Reservoir \in Nat /\ len \in Nat
  BY RateFacts
<1>4. saved \in [Programs -> 0 .. Reservoir] /\ saved[1] \in 0 .. Reservoir /\ due \in [Programs -> Int]
  BY <1>2 DEF KeepIInv
<1>5. /\ prog = 0 /\ saved[1] + AvgLen[1] >= len
      /\ saved' = [saved EXCEPT ![1] = Min({@ + AvgLen[1] - len, Reservoir})]
      /\ hdc' = [hdc EXCEPT ![1] = Append(@, len)]
      /\ UNCHANGED <<partial_bytes, due, prog>>
  BY DEF Arrive
<1> DEFINE now == saved[1] + AvgLen[1] - len
           m == Min({now, Reservoir})
           n == Len(hdc[1])
<1>6. m \in 0 .. Reservoir /\ m <= now
  <2>1. now \in Nat
    BY <1>3, <1>4, <1>5
  <2> HIDE DEF now
  <2>2. CASE now <= Reservoir
    <3>1. \A y \in {now, Reservoir} : now <= y
      BY <1>3, <2>1, <2>2
    <3>2. m = now
      BY <1>3, <2>1, <3>1 DEF Min
    <3> QED BY <2>1, <2>2, <3>2, <1>3
  <2>3. CASE ~ (now <= Reservoir)
    <3>1. \A y \in {now, Reservoir} : Reservoir <= y
      BY <1>3, <2>1, <2>3
    <3>2. m = Reservoir
      BY <1>3, <2>1, <3>1 DEF Min
    <3> QED BY <2>1, <2>3, <3>2, <1>3
  <2> QED BY <2>2, <2>3
<1>7. saved'[1] = m /\ saved' \in [Programs -> 0 .. Reservoir]
  <2>1. saved' = [saved EXCEPT ![1] = m]
    BY <1>2, <1>4, <1>5
  <2> HIDE DEF m
  <2> QED BY <1>2, <1>4, <1>6, <2>1
<1> HIDE DEF m
<1>8. hdc'[1] = Append(hdc[1], len)
  BY <1>2, <1>5
<1>9. /\ Len(hdc'[1]) = n + 1 /\ hdc'[1][n + 1] = len
      /\ \A k \in 1 .. n : hdc'[1][k] = hdc[1][k]
  BY <1>2, <1>8
<1>10. /\ lv \in [0 .. n -> 0 .. Reservoir] /\ lv[n] = saved[1]
       /\ \A k \in 1 .. n : lv[k] + hdc[1][k] <= lv[k - 1] + AvgLen[1]
  BY <1>1 DEF Levels
<1>11. PICK more : /\ more \in [0 .. n + 1 -> 0 .. Reservoir]
                   /\ more[n + 1] = m /\ \A k \in 0 .. n : more[k] = lv[k]
  <2> DEFINE next == [k \in 0 .. n + 1 |-> IF k = n + 1 THEN m ELSE lv[k]]
  <2>1. /\ next \in [0 .. n + 1 -> 0 .. Reservoir] /\ next[n + 1] = m /\ \A k \in 0 .. n : next[k] = lv[k]
    BY <1>2, <1>6, <1>10
  <2> HIDE DEF next
  <2> QED BY <2>1
<1>12. ASSUME NEW k \in 1 .. n + 1 PROVE more[k] + hdc'[1][k] <= more[k - 1] + AvgLen[1]
  <2>1. CASE k = n + 1
    <3>1. k - 1 = n /\ n \in 0 .. n
      BY <1>2, <2>1
    <3>2. more[k] = m /\ more[k - 1] = saved[1] /\ hdc'[1][k] = len
      BY <1>9, <1>10, <1>11, <2>1, <3>1
    <3> QED BY <1>3, <1>4, <1>6, <3>2
  <2>2. CASE k # n + 1
    <3>1. k \in 1 .. n /\ k \in 0 .. n /\ k - 1 \in 0 .. n
      BY <1>2, <2>2
    <3> QED BY <1>9, <1>10, <1>11, <3>1
  <2> QED BY <2>1, <2>2
<1>13. Levels(more)'
  <2>1. /\ more \in [0 .. Len(hdc'[1]) -> 0 .. Reservoir] /\ more[Len(hdc'[1])] = saved'[1]
        /\ \A k \in 1 .. Len(hdc'[1]) : more[k] + hdc'[1][k] <= more[k - 1] + AvgLen[1]
    <3> HIDE DEF n
    <3> QED BY <1>7, <1>9, <1>11, <1>12
  <2> QED BY <2>1 DEF Levels
<1>14. BetweenPdus(more)'
  <2>1. Begun' = Begun /\ more[Begun] = lv[Begun]
    BY <1>2, <1>5, <1>11 DEF Begun
  <2>2. due' = due /\ partial_bytes' = partial_bytes /\ more[Begun'] = lv[Begun]
    BY <1>5, <2>1
  <2>3. Behind(more)' = Behind(lv)
    BY <2>2 DEF Behind, Cost
  <2> QED BY <1>1, <1>5, <2>3 DEF BetweenPdus, Cost
<1>15. prog' = 0 /\ due' = due
  BY <1>5
<1> QED BY <1>4, <1>7, <1>13, <1>14, <1>15 DEF KeepIInv

LEMMA DueFollows ==
    ASSUME NumProgs = 1, RateFits, AudioIInv, KeepIInv, prog = 0
    PROVE  due[1] <= LagLimit
<1>1. PICK lv : Levels(lv) /\ BetweenPdus(lv)
  BY DEF KeepIInv
<1>2. /\ Programs = {1} /\ Begun \in {0, 1} /\ Begun <= Len(hdc[1]) /\ Len(hdc[1]) \in Nat /\ partial_bytes[1] \in Nat
  BY OneFacts
<1>3. /\ Cost \in Nat \ {0} /\ Reservoir \in Nat /\ LagLimit \in Nat /\ 8 * Reservoir < Cost * LagLimit
  BY RateFacts DEF RateFits
<1>4. due[1] \in Int /\ lv[Begun] \in Nat
  <2>1. due \in [Programs -> Int] /\ 1 \in Programs
    BY <1>2 DEF KeepIInv
  <2>2. lv \in [0 .. Len(hdc[1]) -> 0 .. Reservoir] /\ Begun \in 0 .. Len(hdc[1])
    BY <1>1, <1>2 DEF Levels
  <2>3. lv[Begun] \in 0 .. Reservoir
    BY <2>2
  <2> QED BY <1>3, <2>1, <2>3
<1>5. Cost * due[1] + 8 * partial_bytes[1] + 8 * lv[Begun] <= Cost + 8 * Reservoir
  BY <1>1 DEF BetweenPdus, Behind
<1> SUFFICES ASSUME due[1] >= LagLimit + 1 PROVE FALSE
  BY <1>3, <1>4
<1>6. Cost * due[1] >= Cost * (LagLimit + 1)
  <2> DEFINE over == due[1] - (LagLimit + 1)
  <2>1. over \in Nat /\ due[1] = LagLimit + 1 + over
    BY <1>3, <1>4
  <2> HIDE DEF over
  <2>2. Cost * due[1] = Cost * (LagLimit + 1) + Cost * over /\ Cost * over \in Nat
    BY <1>3, <2>1
  <2> QED BY <1>3, <2>2
<1>7. Cost * (LagLimit + 1) = Cost * LagLimit + Cost /\ Cost * LagLimit \in Int /\ Cost * due[1] \in Int
  BY <1>3, <1>4
<1>8. PICK cd, cl, rest, level : /\ cd = Cost * due[1] /\ cl = Cost * LagLimit
                                /\ rest = partial_bytes[1] /\ level = lv[Begun]
  OBVIOUS
<1>9. /\ cd \in Int /\ cl \in Int /\ rest \in Nat /\ level \in Nat /\ Cost \in Nat /\ Reservoir \in Nat
      /\ cd + 8 * rest + 8 * level <= Cost + 8 * Reservoir /\ cd >= cl + Cost /\ 8 * Reservoir < cl
  BY <1>2, <1>3, <1>4, <1>5, <1>6, <1>7, <1>8
<1> QED BY <1>9

LEMMA StartKeeps ==
    ASSUME NumProgs = 1, RateFits, AudioIInv, KeepIInv, StartPdu
    PROVE  KeepIInv'
<1>1. PICK lv : Levels(lv) /\ (prog = 0 => BetweenPdus(lv))
  BY DEF KeepIInv
<1>2. /\ Programs = {1} /\ Begun \in {0, 1} /\ Begun <= Len(hdc[1]) /\ Len(hdc[1]) \in Nat
      /\ partial_bytes[1] \in Nat
  BY OneFacts
<1>3. /\ Cost \in Nat \ {0} /\ Reservoir \in Nat /\ LagLimit \in Nat /\ MaxDue \in Nat /\ TargetNop \in Nat \ {0}
      /\ AvgLen[1] \in Nat
  BY RateFacts
<1>4. /\ prog = 0 /\ prog' = 1 /\ UNCHANGED <<saved, hdc, partial_bytes>> /\ BeginScan(1)
      /\ Available(1) + AdtsLen + TornPacket(1) > Forecast
      /\ due' = [p \in Programs |-> IF due[p] + TargetNop > MaxDue THEN MaxDue ELSE due[p] + TargetNop]
  BY <1>2 DEF StartPdu
<1>5. due[1] \in Int /\ due[1] <= LagLimit
  BY <1>2, <1>4, DueFollows DEF KeepIInv
<1>6. due'[1] \in Int /\ due'[1] <= due[1] + TargetNop /\ due' \in [Programs -> Int]
  BY <1>2, <1>3, <1>4, <1>5
<1>7. Levels(lv)' /\ Begun' = Begun /\ Available(1)' = Available(1)
  BY <1>1, <1>4 DEF Levels, Begun, Available
<1>8. lv[Begun] \in Nat
  BY <1>1, <1>2, <1>3 DEF Levels
<1>9. /\ scanning' = TRUE /\ begin_bytes' = 0 /\ end_bytes' = 0 /\ nop' = Begun
      /\ audio_length' = IF partial_bytes[1] > 0 THEN partial_bytes[1] + 1 ELSE 0
  BY <1>4 DEF BeginScan, Begun
<1>10. Behind(lv)' <= Cost + 8 * Reservoir + Cost * TargetNop
  <2>1. Cost * due'[1] <= Cost * due[1] + Cost * TargetNop
    <3> DEFINE cut == due[1] + TargetNop - due'[1]
    <3>1. cut \in Nat /\ due[1] + TargetNop = due'[1] + cut
      BY <1>3, <1>5, <1>6
    <3> HIDE DEF cut
    <3>2. Cost * (due[1] + TargetNop) = Cost * due'[1] + Cost * cut /\ Cost * cut \in Nat
      BY <1>3, <1>6, <3>1
    <3>3. Cost * (due[1] + TargetNop) = Cost * due[1] + Cost * TargetNop
      BY <1>3, <1>5
    <3>4. Cost * due'[1] \in Int /\ Cost * due[1] \in Int /\ Cost * TargetNop \in Int
      BY <1>3, <1>5, <1>6
    <3> QED BY <3>2, <3>3, <3>4
  <2>2. Cost * due[1] + 8 * partial_bytes[1] + 8 * lv[Begun] <= Cost + 8 * Reservoir
    BY <1>1, <1>4 DEF BetweenPdus, Behind
  <2>3. Cost * due'[1] \in Int /\ Cost * due[1] \in Int /\ Cost * TargetNop \in Int
    BY <1>3, <1>5, <1>6
  <2>4. Behind(lv)' = Cost * due'[1] + 8 * partial_bytes[1] + 8 * lv[Begun]
    BY <1>4, <1>7 DEF Behind, Cost
  <2>5. PICK more, now, ct, rest, level : /\ more = Cost * due'[1] /\ now = Cost * due[1] /\ ct = Cost * TargetNop
                                          /\ rest = partial_bytes[1] /\ level = lv[Begun]
    OBVIOUS
  <2>6. /\ more \in Int /\ now \in Int /\ ct \in Int /\ rest \in Nat /\ level \in Nat /\ Cost \in Nat /\ Reservoir \in Nat
        /\ more <= now + ct /\ now + 8 * rest + 8 * level <= Cost + 8 * Reservoir
    BY <1>2, <1>3, <1>8, <2>1, <2>2, <2>3, <2>5
  <2>7. more + 8 * rest + 8 * level <= Cost + 8 * Reservoir + ct
    BY <2>6
  <2> QED BY <2>4, <2>5, <2>7
<1>11. due'[1] <= LagLimit + TargetNop
  BY <1>3, <1>5, <1>6
<1>12. Begun' <= nop' /\ nop' <= 1
  BY <1>2, <1>7, <1>9
<1>13. SplitLen' = 0
  BY <1>9 DEF SplitLen
<1>14. lv[nop'] + audio_length' + SplitLen' + end_bytes'
         <= lv[Begun'] + AvgLen[1] * (nop' - Begun') + nop' + partial_bytes'[1]
  <2>1. AvgLen[1] * (nop' - Begun') = 0
    <3>1. nop' - Begun' = 0
      BY <1>2, <1>7, <1>9
    <3> QED BY <1>3, <3>1
  <2>2. lv[nop'] = lv[Begun] /\ lv[Begun'] = lv[Begun] /\ partial_bytes'[1] = partial_bytes[1]
    BY <1>4, <1>7, <1>9
  <2>3. CASE partial_bytes[1] > 0
    <3>1. nop' = 1 /\ audio_length' = partial_bytes[1] + 1
      BY <1>9, <2>3 DEF Begun
    <3> QED BY <1>2, <1>8, <1>9, <1>13, <2>1, <2>2, <3>1
  <2>4. CASE ~ (partial_bytes[1] > 0)
    <3>1. nop' = 0 /\ audio_length' = 0
      BY <1>9, <2>4 DEF Begun
    <3> QED BY <1>2, <1>8, <1>9, <1>13, <2>1, <2>2, <3>1
  <2> QED BY <2>3, <2>4
<1>15. InPdu(lv)'
  BY <1>4, <1>7, <1>9, <1>10, <1>11, <1>12, <1>14 DEF InPdu
<1>16. saved' \in [Programs -> 0 .. Reservoir] /\ prog' # 0
  BY <1>4 DEF KeepIInv
<1> QED BY <1>6, <1>7, <1>15, <1>16 DEF KeepIInv

\* The bytes of the buffer, and those behind its first packet, are numbers.
LEMMA TailSumFacts ==
    ASSUME NumProgs = 1, AudioIInv
    PROVE  /\ SumLens(hdc[1]) \in Int
           /\ partial_bytes[1] > 0 => SumLens(Tail(hdc[1])) \in Int
<1>1. /\ hdc[1] \in Seq(AllLens) /\ Len(hdc[1]) \in Nat /\ AllLens \subseteq Nat /\ Programs = {1}
  BY OneFacts, LensFacts
<1>2. hdc[1] \in [1 .. Len(hdc[1]) -> Nat]
  <2>1. hdc[1] \in Seq(Nat)
    BY <1>1, SeqOver
  <2> QED BY <2>1
<1>3. ASSUME partial_bytes[1] > 0 PROVE Tail(hdc[1]) \in [1 .. Len(Tail(hdc[1])) -> Nat] /\ Len(Tail(hdc[1])) \in Nat
  <2>1. Len(hdc[1]) > 0
    BY <1>1, <1>3 DEF AudioIInv, RestInv
  <2>2. Tail(hdc[1]) \in Seq(AllLens)
    BY <1>1, <2>1
  <2>3. Tail(hdc[1]) \in Seq(Nat)
    BY <1>1, <2>2, SeqOver
  <2>4. \A s \in Seq(Nat) : s \in [1 .. Len(s) -> Nat] /\ Len(s) \in Nat
    OBVIOUS
  <2> QED BY <2>3, <2>4
<1>4. SumLens(hdc[1]) \in Nat
  BY <1>1, <1>2, SumFacts
<1>5. partial_bytes[1] > 0 => SumLens(Tail(hdc[1])) \in Nat
  BY <1>3, SumFacts
<1> QED BY <1>4, <1>5

\* What the writing of a section does to the program's buffer.
LEMMA WriteFacts ==
    ASSUME NumProgs = 1, AudioIInv, prog = 1, due \in [Programs -> Int], WriteSection
    PROVE  /\ prog' = 0 /\ saved' = saved /\ partial_bytes'[1] = end_bytes
           /\ due' \in [Programs -> Int] /\ due'[1] = due[1] - (nop - Begun)
           /\ Begun' \in {0, 1} /\ Consumed \in Nat /\ Consumed + Begun' = nop /\ nop <= Len(hdc[1])
           /\ Len(hdc'[1]) = Len(hdc[1]) - Consumed
           /\ \A k \in 1 .. Len(hdc'[1]) : hdc'[1][k] = hdc[1][Consumed + k]
<1>1. /\ Programs = {1} /\ hdc \in [Programs -> Seq(AllLens)] /\ hdc[1] \in Seq(AllLens) /\ Len(hdc[1]) \in Nat
      /\ partial_bytes \in [Programs -> Nat] /\ nop \in Nat /\ begin_bytes \in Nat /\ end_bytes \in Nat
      /\ nop <= Len(hdc[1]) /\ partial_bytes[1] \in Nat
  BY OneFacts
<1>2. /\ hdc' = [hdc EXCEPT ![1] = SubSeq(@, Consumed + 1, Len(@))]
      /\ partial_bytes' = [partial_bytes EXCEPT ![1] = end_bytes]
      /\ due' = [due EXCEPT ![1] = @ - Started(1)]
      /\ prog' = 0 /\ saved' = saved
  BY DEF WriteSection
<1>3. partial_bytes'[1] = end_bytes /\ Begun' = IF end_bytes > 0 THEN 1 ELSE 0
  BY <1>1, <1>2 DEF Begun
<1>4. (begin_bytes > 0) = (end_bytes > 0) /\ (begin_bytes > 0 => nop > 0)
  BY <1>1 DEF AudioIInv, ScanInv
<1>5. Consumed + Begun' = nop /\ Begun' \in {0, 1} /\ Consumed \in Nat
  BY <1>1, <1>3, <1>4 DEF Consumed
<1>6. Started(1) = nop - Begun
  BY <1>1 DEF Started, Begun
<1>7. due'[1] = due[1] - (nop - Begun) /\ due' \in [Programs -> Int]
  <2>1. nop - Begun \in Int
    BY <1>1 DEF Begun
  <2> QED BY <1>1, <1>2, <1>6, <2>1
<1>8. PICK c : c = Consumed
  OBVIOUS
<1>9. hdc'[1] = SubSeq(hdc[1], c + 1, Len(hdc[1])) /\ c \in Nat /\ c <= Len(hdc[1])
  <2>1. hdc'[1] = SubSeq(hdc[1], Consumed + 1, Len(hdc[1]))
    BY <1>1, <1>2
  <2>2. hdc'[1] = SubSeq(hdc[1], c + 1, Len(hdc[1]))
    BY <1>8, <2>1
  <2>3. c \in Nat /\ c <= Len(hdc[1])
    <3>1. PICK g : g = Begun'
      OBVIOUS
    <3>2. c + g = nop /\ g \in {0, 1} /\ c \in Nat
      BY <1>5, <1>8, <3>1
    <3> QED BY <1>1, <3>2
  <2> QED BY <2>2, <2>3
<1>10. /\ Len(hdc'[1]) = Len(hdc[1]) - c
       /\ \A k \in 1 .. Len(hdc'[1]) : hdc'[1][k] = hdc[1][c + k]
  <2> DEFINE a == c + 1
             b == Len(hdc[1])
  <2>1. a \in Int /\ b \in Int /\ a >= 1
    BY <1>1, <1>9
  <2>2. \A k \in a .. b : hdc[1][k] \in AllLens
    BY <1>1, <1>9
  <2> HIDE DEF a, b
  <2>3. /\ Len(SubSeq(hdc[1], a, b)) = IF a <= b THEN b - a + 1 ELSE 0
        /\ \A k \in 1 .. b - a + 1 : SubSeq(hdc[1], a, b)[k] = hdc[1][a + k - 1]
    BY <2>1, <2>2, SubSeqProperties
  <2>4. b - a + 1 = b - c /\ (IF a <= b THEN b - a + 1 ELSE 0) = b - c /\ b - c \in Nat
        /\ \A k \in 1 .. b - c : a + k - 1 = c + k
    BY <1>1, <1>9 DEF a, b
  <2>5. Len(SubSeq(hdc[1], a, b)) = b - c /\ \A k \in 1 .. b - c : SubSeq(hdc[1], a, b)[k] = hdc[1][c + k]
    BY <2>3, <2>4
  <2> QED BY <1>9, <2>5 DEF a, b
<1> QED BY <1>1, <1>2, <1>3, <1>5, <1>7, <1>8, <1>10

\* What is left of the buffer has the levels it had.
LEMMA WriteLevels ==
    ASSUME NumProgs = 1, RateFits, AudioIInv, prog = 1, due \in [Programs -> Int], WriteSection,
           NEW lv, Levels(lv)
    PROVE  \E rest : Levels(rest)' /\ rest[Begun'] = lv[nop]
<1>1. /\ saved' = saved /\ Begun' \in {0, 1} /\ Consumed \in Nat /\ Consumed + Begun' = nop /\ nop <= Len(hdc[1])
      /\ Len(hdc'[1]) = Len(hdc[1]) - Consumed
      /\ \A k \in 1 .. Len(hdc'[1]) : hdc'[1][k] = hdc[1][Consumed + k]
  BY WriteFacts
<1>2. PICK c, n, g : c = Consumed /\ n = Len(hdc[1]) /\ g = Begun'
  OBVIOUS
<1>3. c \in Nat /\ n \in Nat /\ g \in {0, 1} /\ c + g = nop /\ c + g <= n /\ Len(hdc'[1]) = n - c
  BY <1>1, <1>2, OneFacts
<1>4. /\ lv \in [0 .. n -> 0 .. Reservoir] /\ lv[n] = saved[1]
      /\ \A k \in 1 .. n : lv[k] + hdc[1][k] <= lv[k - 1] + AvgLen[1]
  BY <1>2 DEF Levels
<1>5. PICK rest : rest = [k \in 0 .. n - c |-> lv[c + k]]
  OBVIOUS
<1>6. \A k \in 0 .. n - c : rest[k] = lv[c + k] /\ c + k \in 0 .. n
  BY <1>3, <1>5
<1>7. rest \in [0 .. n - c -> 0 .. Reservoir]
  BY <1>4, <1>5, <1>6
<1>8. rest[n - c] = saved'[1]
  <2>1. n - c \in 0 .. n - c /\ c + (n - c) = n
    BY <1>3
  <2>2. rest[n - c] = lv[c + (n - c)]
    BY <1>6, <2>1
  <2> QED BY <1>1, <1>4, <2>1, <2>2
<1>9. ASSUME NEW k \in 1 .. n - c PROVE rest[k] + hdc'[1][k] <= rest[k - 1] + AvgLen[1]
  <2>1. k \in 0 .. n - c /\ k - 1 \in 0 .. n - c /\ c + k \in 1 .. n /\ (c + k) - 1 = c + (k - 1)
    BY <1>3
  <2>2. lv[c + k] + hdc[1][c + k] <= lv[(c + k) - 1] + AvgLen[1]
    BY <1>4, <2>1
  <2>3. rest[k] = lv[c + k] /\ rest[k - 1] = lv[c + (k - 1)]
    BY <1>6, <2>1
  <2>4. hdc'[1][k] = hdc[1][c + k]
    BY <1>1, <1>2, <1>3
  <2> QED BY <2>1, <2>2, <2>3, <2>4
<1>10. Levels(rest)'
  <2>1. /\ rest \in [0 .. Len(hdc'[1]) -> 0 .. Reservoir] /\ rest[Len(hdc'[1])] = saved'[1]
        /\ \A k \in 1 .. Len(hdc'[1]) : rest[k] + hdc'[1][k] <= rest[k - 1] + AvgLen[1]
    BY <1>3, <1>7, <1>8, <1>9
  <2> QED BY <2>1 DEF Levels
<1>11. rest[Begun'] = lv[nop]
  <2>1. g \in 0 .. n - c
    BY <1>3
  <2> QED BY <1>2, <1>3, <1>6, <2>1
<1> QED BY <1>10, <1>11

(***************************************************************************)
(* A PDU takes away what became due in it: all that was due, or all that   *)
(* forecast saw in the buffer, or a PDU full.                              *)
(***************************************************************************)
LEMMA TakenEnough ==
    ASSUME NumProgs = 1, RateFits, AudioIInv, prog = 1, due[1] \in Int, ~ scanning, NEW lv, Levels(lv), InPdu(lv)
    PROVE  Cost * (due[1] - (nop - Begun)) + 8 * end_bytes + 8 * lv[nop] <= Cost + 8 * Reservoir
<1>1. /\ AvgLen[1] \in Nat /\ Reservoir \in Nat /\ TargetNop \in Nat \ {0} /\ LcBits \in {12, 16}
      /\ Cost \in Nat \ {0} /\ Cost = 8 * AvgLen[1] + 8 + LcBits
      /\ FixedLen \in Nat /\ Capacity \in Nat /\ AdtsLen \in Nat /\ Forecast \in Nat /\ LagLimit \in Nat
      /\ TornPacket(1) \in Nat
  BY RateFacts
<1>2. /\ partial_bytes[1] \in Nat /\ nop \in Nat /\ audio_length \in Nat /\ begin_bytes \in Nat /\ end_bytes \in Nat
      /\ SplitLen \in Nat /\ Begun \in {0, 1} /\ Begun <= nop /\ nop <= Len(hdc[1]) /\ Len(hdc[1]) \in Nat
  BY OneFacts DEF InPdu
<1>3. lv[nop] \in 0 .. Reservoir /\ lv[Begun] \in 0 .. Reservoir
  <2>1. lv \in [0 .. Len(hdc[1]) -> 0 .. Reservoir] /\ nop \in 0 .. Len(hdc[1]) /\ Begun \in 0 .. Len(hdc[1])
    BY <1>2 DEF Levels
  <2> QED BY <2>1
<1>4. begin_bytes = 0 => end_bytes = 0 /\ SplitLen = 0
  BY DEF AudioIInv, ScanInv, SplitLen
<1>5. PICK a, n, b, e, p, l0, l1, d : /\ a = audio_length + SplitLen /\ n = nop /\ b = Begun /\ e = end_bytes
                                      /\ p = partial_bytes[1] /\ l0 = lv[Begun] /\ l1 = lv[nop] /\ d = due[1]
  OBVIOUS
<1>6. /\ a \in Nat /\ n \in Nat /\ b \in {0, 1} /\ b <= n /\ e \in Nat /\ p \in Nat /\ d \in Int
      /\ l0 \in 0 .. Reservoir /\ l1 \in 0 .. Reservoir
  BY <1>2, <1>3, <1>5
<1>7. PICK left : left = Cost * (d - (n - b))
  OBVIOUS
<1>8. left \in Int
  BY <1>1, <1>6, <1>7
<1>9. PICK ct, ln, lb : ct = Cost * TargetNop /\ ln = LcBits * n /\ lb = LcBits * b
  OBVIOUS
<1>10. ct \in Int /\ ln \in Int /\ lb \in Int /\ LcBits * (n - b) = ln - lb /\ LcBits * (n + 1) = ln + LcBits
  BY <1>1, <1>6, <1>9
<1>11. left + 8 * e + 8 * l1 + 8 * a <= Cost + 8 * Reservoir + ct + 8 * b - (ln - lb)
  <2>1. l1 + a + e <= l0 + AvgLen[1] * (n - b) + n + p
    <3>1. lv[nop] + audio_length + SplitLen + end_bytes
             <= lv[Begun] + AvgLen[1] * (nop - Begun) + nop + partial_bytes[1]
      BY DEF InPdu
    <3>2. PICK prod : prod = AvgLen[1] * (n - b)
      OBVIOUS
    <3>3. prod \in Int
      BY <1>1, <1>6, <3>2
    <3>4. l1 + audio_length + SplitLen + e <= l0 + prod + n + p
      BY <1>5, <3>1, <3>2
    <3>5. l1 + a + e <= l0 + prod + n + p
      BY <1>2, <1>5, <1>6, <3>3, <3>4
    <3> QED BY <3>2, <3>5
  <2>2. LcBits \in Nat /\ Cost \in Nat /\ l0 \in Nat /\ l1 \in Nat
    BY <1>1, <1>6
  <2>3. Cost * (d - (n - b)) + 8 * e + 8 * l1 + 8 * a
             <= Cost * d + 8 * p + 8 * l0 + 8 * b - LcBits * (n - b)
    BY <1>1, <1>6, <2>1, <2>2, Taken
  <2>4. Cost * d + 8 * p + 8 * l0 <= Cost + 8 * Reservoir + ct
    BY <1>5, <1>9 DEF InPdu, Behind
  <2>5. PICK cd : cd = Cost * d
    OBVIOUS
  <2>6. cd \in Int
    BY <1>1, <1>6, <2>5
  <2>7. left + 8 * e + 8 * l1 + 8 * a <= cd + 8 * p + 8 * l0 + 8 * b - (ln - lb)
    BY <1>7, <1>10, <2>3, <2>5
  <2>8. cd + 8 * p + 8 * l0 <= Cost + 8 * Reservoir + ct
    BY <2>4, <2>5
  <2> QED BY <1>1, <1>6, <1>8, <1>10, <2>2, <2>6, <2>7, <2>8
<1>12. CASE begin_bytes = 0 /\ nop >= due[1]
  <2>1. e = 0 /\ d - (n - b) <= b
    BY <1>4, <1>5, <1>6, <1>12
  <2>2. left <= Cost
    <3> DEFINE spare == 1 - (d - (n - b))
    <3>1. spare \in Nat /\ d - (n - b) = 1 - spare
      BY <1>6, <2>1
    <3> HIDE DEF spare
    <3>2. left = Cost * (1 - spare)
      BY <1>7, <3>1
    <3>3. Cost * (1 - spare) = Cost - Cost * spare /\ Cost * spare \in Nat
      <4>1. \A x, y \in Nat : x * (1 - y) = x - x * y /\ x * y \in Nat
        OBVIOUS
      <4>2. Cost \in Nat
        BY <1>1
      <4> QED BY <3>1, <4>1, <4>2
    <3> QED BY <1>1, <3>2, <3>3
  <2>3. left + 8 * e + 8 * l1 <= Cost + 8 * Reservoir
    BY <1>1, <1>6, <1>8, <2>1, <2>2
  <2> QED BY <1>5, <1>7, <2>3
<1>13. CASE begin_bytes = 0 /\ nop = Len(hdc[1])
  <2>1. e = 0 /\ a = audio_length
    BY <1>2, <1>4, <1>5, <1>13
  <2>2. PICK avail, heads, torn, most : /\ avail = Available(1) /\ heads = AdtsLen * (nop - Begun)
                                        /\ torn = TornPacket(1) /\ most = AdtsLen * (LagLimit + TargetNop)
    OBVIOUS
  <2>3. avail + n = a + heads
    <3>1. Available(1) + nop = audio_length + AdtsLen * (nop - Begun)
      BY <1>13, EmptiedFacts
    <3> QED BY <1>5, <2>1, <2>2, <3>1
  <2>4. avail + AdtsLen + torn > Forecast
    BY <2>2 DEF InPdu
  <2>5. heads \in Int /\ torn \in Nat /\ most \in Int
    <3>1. nop - Begun \in Int /\ LagLimit + TargetNop \in Int
      BY <1>1, <1>2
    <3> QED BY <1>1, <2>2, <3>1
  <2>6. avail \in Int
    <3>1. Available(1) \in Int
      <4>1. partial_bytes[1] > 0 =>
               partial_bytes[1] + SumLens(Tail(hdc[1])) + AdtsLen * (Len(hdc[1]) - 1) \in Int
        BY <1>1, <1>2, TailSumFacts
      <4>2. SumLens(hdc[1]) + AdtsLen * Len(hdc[1]) \in Int
        BY <1>1, <1>2, TailSumFacts
      <4> QED BY <4>1, <4>2 DEF Available
    <3> QED BY <2>2, <3>1
  <2>7. heads <= most
    <3> DEFINE spare == LagLimit + TargetNop - (n - b)
    <3>1. (n <= d /\ d <= LagLimit + TargetNop) \/ n <= 1
      BY <1>5 DEF InPdu
    <3>2. spare \in Nat /\ n - b = LagLimit + TargetNop - spare
      BY <1>1, <1>6, <3>1
    <3> HIDE DEF spare
    <3>3. AdtsLen * (LagLimit + TargetNop - spare) = AdtsLen * (LagLimit + TargetNop) - AdtsLen * spare
          /\ AdtsLen * spare \in Nat
      BY <1>1, <3>2
    <3>4. heads = AdtsLen * (LagLimit + TargetNop - spare)
      BY <1>5, <2>2, <3>2
    <3>5. PICK prod : prod = AdtsLen * spare
      OBVIOUS
    <3>6. heads = most - prod /\ prod \in Nat
      BY <2>2, <3>3, <3>4, <3>5
    <3> QED BY <2>5, <3>6
  <2>8. ct + 8 * (most + AdtsLen + torn) <= 8 * (Forecast + 1)
    <3>1. Cost * TargetNop + 8 * (AdtsLen * (LagLimit + TargetNop + 1) + TornPacket(1)) <= 8 * (Forecast + 1)
      BY DEF RateFits
    <3>2. AdtsLen * (LagLimit + TargetNop + 1) = AdtsLen * (LagLimit + TargetNop) + AdtsLen
      BY <1>1
    <3>3. PICK all : all = AdtsLen * (LagLimit + TargetNop + 1)
      OBVIOUS
    <3>4. all = most + AdtsLen /\ ct + 8 * (all + torn) <= 8 * (Forecast + 1)
      BY <1>9, <2>2, <3>1, <3>2, <3>3
    <3> QED BY <1>1, <1>10, <2>5, <3>4
  <2>9. ln - lb >= 0
    <3>1. n - b \in Nat
      BY <1>6
    <3>2. LcBits * (n - b) >= 0
      BY <1>1, <3>1
    <3> QED BY <1>10, <3>2
  <2>10. left + 8 * e + 8 * l1 <= Cost + 8 * Reservoir
    <3>1. 8 * a >= ct + 8 * n
      BY <1>1, <1>6, <1>10, <2>3, <2>4, <2>5, <2>6, <2>7, <2>8
    <3>2. b <= n
      BY <1>6
    <3> QED BY <1>1, <1>6, <1>8, <1>10, <1>11, <2>9, <3>1, <3>2
  <2> QED BY <1>5, <1>7, <2>10
<1>14. CASE 8 * Capacity <= 8 * FixedLen + LcBits * (nop + 1) + 12 + 8 * (audio_length + SplitLen)
  <2>1. 8 * Capacity <= 8 * FixedLen + (ln + LcBits) + 12 + 8 * a
    BY <1>5, <1>10, <1>14
  <2>2. ct + 8 * FixedLen + 2 * LcBits + 20 <= 8 * Capacity
    BY <1>9 DEF RateFits
  <2>3. lb = IF b = 1 THEN LcBits ELSE 0
    BY <1>1, <1>6, <1>9
  <2>4. left + 8 * e + 8 * l1 <= Cost + 8 * Reservoir
    <3>1. ct <= ln - LcBits - 8 + 8 * a
      BY <1>1, <1>6, <1>10, <2>1, <2>2
    <3>2. 8 * b + lb <= LcBits + 8
      BY <1>1, <1>6, <2>3
    <3> QED BY <1>1, <1>6, <1>8, <1>10, <1>11, <3>1, <3>2
  <2> QED BY <1>5, <1>7, <2>4
<1>15. Stopped
  BY DEF InPdu
<1> QED BY <1>12, <1>13, <1>14, <1>15 DEF Stopped

LEMMA WriteKeeps ==
    ASSUME NumProgs = 1, RateFits, AudioIInv, KeepIInv, prog = 1, WriteSection
    PROVE  KeepIInv'
<1>1. PICK lv : Levels(lv) /\ InPdu(lv)
  BY DEF KeepIInv
<1>2. /\ saved \in [Programs -> 0 .. Reservoir] /\ due \in [Programs -> Int] /\ due[1] \in Int /\ ~ scanning
  BY OneFacts DEF KeepIInv, WriteSection
<1>3. /\ prog' = 0 /\ saved' = saved /\ partial_bytes'[1] = end_bytes
      /\ due' \in [Programs -> Int] /\ due'[1] = due[1] - (nop - Begun)
  BY <1>2, WriteFacts
<1>4. PICK rest : Levels(rest)' /\ rest[Begun'] = lv[nop]
  BY <1>1, <1>2, WriteLevels
<1>5. Cost * (due[1] - (nop - Begun)) + 8 * end_bytes + 8 * lv[nop] <= Cost + 8 * Reservoir
  BY <1>1, <1>2, TakenEnough
<1>6. BetweenPdus(rest)'
  <2>1. Cost * due'[1] + 8 * partial_bytes'[1] + 8 * rest[Begun'] <= Cost + 8 * Reservoir
    BY <1>3, <1>4, <1>5
  <2> QED BY <2>1 DEF BetweenPdus, Behind, Cost
<1> QED BY <1>2, <1>3, <1>4, <1>6 DEF KeepIInv

\* Before anything has arrived, the encoder has saved all it can.
LEMMA InitKeeps ==
    ASSUME NumProgs = 1, RateFits, Layer2Init
    PROVE  KeepIInv
<1>1. /\ saved = [p \in Programs |-> Reservoir] /\ hdc = [p \in Programs |-> << >>]
      /\ partial_bytes = [p \in Programs |-> 0] /\ due = [p \in Programs |-> 0] /\ prog = 0
  BY DEF Layer2Init, Init
<1>2. Programs = {1} /\ Reservoir \in Nat /\ Cost \in Nat
  BY RateFacts DEF Programs
<1>3. /\ saved[1] = Reservoir /\ hdc[1] = << >> /\ Len(hdc[1]) = 0 /\ partial_bytes[1] = 0 /\ due[1] = 0
      /\ saved \in [Programs -> 0 .. Reservoir] /\ due \in [Programs -> Int]
  BY <1>1, <1>2
<1>4. PICK lv : lv = [k \in 0 .. 0 |-> Reservoir]
  OBVIOUS
<1>5. lv \in [0 .. 0 -> 0 .. Reservoir] /\ lv[0] = Reservoir
  BY <1>2, <1>4
<1>6. Levels(lv)
  BY <1>3, <1>5 DEF Levels
<1>7. BetweenPdus(lv)
  <2>1. Begun = 0
    BY <1>3 DEF Begun
  <2>2. Cost * 0 = 0
    BY <1>2
  <2> QED BY <1>2, <1>3, <1>5, <2>1, <2>2 DEF BetweenPdus, Behind
<1> QED BY <1>1, <1>3, <1>6, <1>7 DEF KeepIInv

LEMMA KeepStep ==
    ASSUME NumProgs = 1, RateFits, AudioIInv, FirstAtStart, KeepIInv, [Layer2Next]_allvars
    PROVE  KeepIInv'
<1>1. ASSUME NEW p \in Programs, NEW len \in PacketLens[p], Arrive(p, len) PROVE KeepIInv'
  <2>1. p = 1
    BY OneFacts
  <2> QED BY <1>1, <2>1, ArriveKeeps
<1>2. CASE StartPdu
  BY <1>2, StartKeeps
<1>3. ASSUME prog = 1, ScanWhole \/ ScanSplit \/ ScanStop PROVE KeepIInv'
  <2>1. PICK lv : Levels(lv) /\ InPdu(lv)
    BY <1>3 DEF KeepIInv
  <2>2. due[1] \in Int /\ UNCHANGED <<saved, due, prog>>
    BY <1>3, OneFacts DEF KeepIInv, ScanWhole, ScanSplit, ScanStop
  <2>3. Levels(lv)' /\ InPdu(lv)'
    BY <1>3, <2>1, <2>2, ScanWholeKeeps, ScanSplitKeeps, ScanStopKeeps
  <2>4. prog' = 1 /\ (saved \in [Programs -> 0 .. Reservoir])' /\ (due \in [Programs -> Int])'
    BY <1>3, <2>2 DEF KeepIInv, Programs
  <2> QED BY <2>3, <2>4 DEF KeepIInv
<1>4. ASSUME prog = 1, WriteSection PROVE KeepIInv'
  BY <1>4, WriteKeeps
<1>5. ScanWhole \/ ScanSplit \/ ScanStop \/ WriteSection => prog = 1
  BY OneFacts DEF ScanWhole, ScanSplit, ScanStop, MayScan, WriteSection, AudioIInv, ScanInv
<1>6. ASSUME UNCHANGED vars PROVE KeepIInv'
  <2>1. UNCHANGED <<saved, hdc, partial_bytes, due, prog, scanning, nop, audio_length, begin_bytes, end_bytes>>
    BY <1>6 DEF vars, scanvars
  <2>2. Begun' = Begun /\ Available(1)' = Available(1) /\ SplitLen' = SplitLen /\ Stopped' = Stopped
    BY <2>1 DEF Begun, Available, SplitLen, Stopped
  <2>3. PICK lv : Levels(lv) /\ (prog = 0 => BetweenPdus(lv)) /\ (prog = 1 => InPdu(lv))
    BY DEF KeepIInv
  <2>4. Levels(lv)' /\ Behind(lv)' = Behind(lv)
    BY <2>1, <2>2, <2>3 DEF Levels, Behind
  <2>5. prog' = 0 => BetweenPdus(lv)'
    BY <2>1, <2>3, <2>4 DEF BetweenPdus
  <2>6. prog' = 1 => InPdu(lv)'
    BY <2>1, <2>2, <2>3, <2>4 DEF InPdu
  <2> QED BY <2>1, <2>4, <2>5, <2>6 DEF KeepIInv
<1> QED BY <1>1, <1>2, <1>3, <1>4, <1>5, <1>6 DEF Layer2Next, Audio, Next, SpreadByte, Hdlc, Written, ReadRecord,
           Returned, allvars

(***************************************************************************)
(* A program whose bit rate fits is never so far behind that general_work  *)
(* warns of it ("Audio bitrate it too high"), whatever its encoder makes   *)
(* of its reservoir and wherever its packets are split.                    *)
(***************************************************************************)
THEOREM OneProgramKeepsUp ==
    ASSUME NumProgs = 1, RateFits
    PROVE  Layer2Spec => []KeepsUp
<1>1. Layer2Init => FirstAtStart /\ KeepIInv
  BY InitKeeps DEF Layer2Init, Init, FirstAtStart
<1>2. AudioIInv /\ FirstAtStart /\ KeepIInv /\ [Layer2Next]_allvars => FirstAtStart' /\ KeepIInv'
  BY FirstAtStartStep, KeepStep
<1>3. AudioIInv /\ KeepIInv => KeepsUp
  BY OneFacts, DueFollows DEF KeepsUp
<1> QED BY <1>1, <1>2, <1>3, AudioInvariance, PTL DEF Layer2Spec
-------------------------------------------------------------------------------
\* h[n] is the receiver after the first n bytes of s.
IsReceiver(h, s) ==
    h = [n \in 0 .. Len(s) |-> IF n = 0 THEN [escaped |-> FALSE, pdu |-> << >>]
                                       ELSE Framing!Received(h[n - 1], s[n])]

\* A byte more: the receivers of the bytes before stay what they were.
LEMMA ReceiverStep ==
    ASSUME NEW s \in Seq(Nat), NEW c \in Nat, NEW h, IsReceiver(h, s)
    PROVE  \E g : /\ IsReceiver(g, Append(s, c))
                  /\ g[Len(s) + 1] = Framing!Received(h[Len(s)], c)
<1> DEFINE m == Len(s)
           t == Append(s, c)
           g == [n \in 0 .. m + 1 |-> IF n = m + 1 THEN Framing!Received(h[m], c) ELSE h[n]]
<1>1. m \in Nat /\ Len(t) = m + 1 /\ t[m + 1] = c /\ \A n \in 1 .. m : t[n] = s[n]
  OBVIOUS
<1> HIDE DEF m, t
<1>2. h = [n \in 0 .. m |-> IF n = 0 THEN [escaped |-> FALSE, pdu |-> << >>]
                                    ELSE Framing!Received(h[n - 1], s[n])]
  BY DEF IsReceiver, m
<1>3. ASSUME NEW n \in 0 .. m + 1
      PROVE  g[n] = IF n = 0 THEN [escaped |-> FALSE, pdu |-> << >>]
                             ELSE Framing!Received(g[n - 1], t[n])
  <2>1. CASE n = m + 1
    <3>1. g[n] = Framing!Received(h[m], c) /\ n - 1 = m /\ m \in 0 .. m + 1 /\ m # m + 1 /\ n # 0
      BY <1>1, <2>1
    <3>2. g[n - 1] = h[m]
      BY <3>1
    <3> HIDE DEF g
    <3> QED BY <1>1, <2>1, <3>1, <3>2
  <2>2. CASE n = 0
    <3>1. g[n] = h[0] /\ 0 \in 0 .. m
      BY <1>1, <2>2
    <3> HIDE DEF g
    <3> QED BY <1>2, <2>2, <3>1
  <2>3. CASE n # m + 1 /\ n # 0
    <3>1. g[n] = h[n] /\ n \in 1 .. m /\ n \in 0 .. m /\ n - 1 \in 0 .. m + 1 /\ n - 1 # m + 1
      BY <1>1, <2>3
    <3>2. g[n - 1] = h[n - 1]
      BY <3>1
    <3> HIDE DEF g
    <3> QED BY <1>1, <1>2, <2>3, <3>1, <3>2
  <2> QED BY <2>1, <2>2, <2>3
<1>4. g[m + 1] = Framing!Received(h[m], c)
  BY <1>1
<1>5. DOMAIN g = 0 .. m + 1 /\ g = [n \in DOMAIN g |-> g[n]]
  OBVIOUS
<1> HIDE DEF g
<1>6. IsReceiver(g, t)
  BY <1>1, <1>3, <1>5 DEF IsReceiver
<1> QED BY <1>4, <1>6 DEF m, t

\* There is only one receiver.
LEMMA ReceiverUnique ==
    ASSUME NEW s \in Seq(Nat), NEW h, NEW g, IsReceiver(h, s), IsReceiver(g, s)
    PROVE  g[Len(s)] = h[Len(s)]
<1> DEFINE N == {n \in Nat : n <= Len(s) => g[n] = h[n]}
<1>1. Len(s) \in Nat
  OBVIOUS
<1>2. 0 \in N
  <2>1. 0 \in 0 .. Len(s)
    BY <1>1
  <2> QED BY <2>1 DEF IsReceiver
<1>3. ASSUME NEW n \in Nat, n \in N PROVE n + 1 \in N
  <2> SUFFICES ASSUME n + 1 <= Len(s) PROVE g[n + 1] = h[n + 1]
    OBVIOUS
  <2>1. n + 1 \in 0 .. Len(s) /\ n + 1 # 0 /\ (n + 1) - 1 = n /\ g[n] = h[n]
    BY <1>1, <1>3
  <2>2. g[n + 1] = Framing!Received(g[n], s[n + 1])
    BY <2>1 DEF IsReceiver
  <2>3. h[n + 1] = Framing!Received(h[n], s[n + 1])
    BY <2>1 DEF IsReceiver
  <2> QED BY <2>1, <2>2, <2>3
<1> HIDE DEF N
<1>4. Nat \subseteq N
  BY <1>2, <1>3, SetInduction
<1> QED BY <1>1, <1>4 DEF N

LEMMA UnstuffedFacts ==
    ASSUME NEW s \in Seq(Nat), NEW h, IsReceiver(h, s)
    PROVE  Framing!Unstuffed(s) = h[Len(s)].pdu
<1> DEFINE g == CHOOSE g : IsReceiver(g, s)
<1>1. IsReceiver(g, s)
  OBVIOUS
<1>2. Framing!Unstuffed(s) = g[Len(s)].pdu
  BY DEF Framing!Unstuffed, IsReceiver
<1> HIDE DEF g
<1> QED BY <1>1, <1>2, ReceiverUnique

\* w frames the first n bytes: it has no flag, and a receiver has made them of it.
Frames(w, n) ==
    /\ w \in Seq(Nat) /\ \A k \in 1 .. Len(w) : w[k] # Framing!Flag
    /\ \E h : IsReceiver(h, w) /\ h[Len(w)] = [escaped |-> FALSE, pdu |-> SubSeq(in, 1, n)]

HdlcIInv ==
    /\ in \in Seq(Bytes) /\ coded \in 0 .. Len(in) + 1
    /\ coded <= Len(in) => Frames(out, coded)
    /\ coded > Len(in) => \E w : Frames(w, Len(in)) /\ out = Append(w, Framing!Flag)

LEMMA ReceivedFacts ==
    ASSUME NEW p, NEW c
    PROVE  /\ c # Framing!Escape => Framing!Received([escaped |-> FALSE, pdu |-> p], c)
                                        = [escaped |-> FALSE, pdu |-> Append(p, c)]
           /\ Framing!Received([escaped |-> FALSE, pdu |-> p], Framing!Escape) = [escaped |-> TRUE, pdu |-> p]
           /\ Framing!Received([escaped |-> TRUE, pdu |-> p], c)
                 = [escaped |-> FALSE, pdu |-> Append(p, Framing!Flipped(c))]
<1>1. \A b : [escaped |-> b, pdu |-> p].escaped = b /\ [escaped |-> b, pdu |-> p].pdu = p
  OBVIOUS
<1>2. [escaped |-> FALSE, pdu |-> p].escaped = FALSE /\ [escaped |-> FALSE, pdu |-> p].pdu = p
      /\ [escaped |-> TRUE, pdu |-> p].escaped = TRUE /\ [escaped |-> TRUE, pdu |-> p].pdu = p
  BY <1>1
<1> QED BY <1>2 DEF Framing!Received

LEMMA FlippedFacts ==
    /\ Framing!Flipped(125) = 93 /\ Framing!Flipped(126) = 94
    /\ Framing!Flipped(93) = 125 /\ Framing!Flipped(94) = 126
<1>1. 125 \div 32 = 3 /\ 126 \div 32 = 3 /\ 93 \div 32 = 2 /\ 94 \div 32 = 2 /\ 3 % 2 = 1 /\ 2 % 2 = 0
  BY SMT
<1> QED BY <1>1, SMT DEF Framing!Flipped

\* A byte that is sent as it is, and one that is escaped.
LEMMA FramesPlain ==
    ASSUME in \in Seq(Nat), NEW w, NEW n \in 0 .. Len(in) - 1, Frames(w, n),
           ~ Framing!Special(in[n + 1])
    PROVE  Frames(Append(w, in[n + 1]), n + 1)
<1> DEFINE c == in[n + 1]
<1>1. w \in Seq(Nat) /\ n \in Nat /\ n + 1 \in 1 .. Len(in) /\ c \in Nat /\ c # Framing!Flag /\ c # Framing!Escape
  BY DEF Frames, Framing!Special
<1>2. PICK h : IsReceiver(h, w) /\ h[Len(w)] = [escaped |-> FALSE, pdu |-> SubSeq(in, 1, n)]
  BY DEF Frames
<1>3. SubSeq(in, 1, n + 1) = Append(SubSeq(in, 1, n), c)
  BY <1>1
<1> HIDE DEF c
<1>4. PICK g : IsReceiver(g, Append(w, c)) /\ g[Len(w) + 1] = Framing!Received(h[Len(w)], c)
  BY <1>1, <1>2, ReceiverStep
<1>5. g[Len(w) + 1] = [escaped |-> FALSE, pdu |-> SubSeq(in, 1, n + 1)]
  <2>1. Framing!Received([escaped |-> FALSE, pdu |-> SubSeq(in, 1, n)], c)
          = [escaped |-> FALSE, pdu |-> Append(SubSeq(in, 1, n), c)]
    BY <1>1, ReceivedFacts
  <2> QED BY <1>2, <1>3, <1>4, <2>1 DEF c
<1>6. Append(w, c) \in Seq(Nat) /\ Len(Append(w, c)) = Len(w) + 1
      /\ \A k \in 1 .. Len(w) + 1 : Append(w, c)[k] # Framing!Flag
  <2> DEFINE x == Append(w, c)
  <2>1. \A k \in 1 .. Len(w) : w[k] # Framing!Flag
    BY DEF Frames
  <2>2. w \in Seq(Nat) /\ c \in Nat /\ c # Framing!Flag
    BY <1>1
  <2>3. x \in Seq(Nat) /\ Len(x) = Len(w) + 1 /\ Len(w) \in Nat
        /\ x[Len(w) + 1] = c /\ \A k \in 1 .. Len(w) : x[k] = w[k]
    BY <2>2
  <2> HIDE DEF x
  <2>4. \A k \in 1 .. Len(w) + 1 : x[k] # Framing!Flag
    <3> SUFFICES ASSUME NEW k \in 1 .. Len(w) + 1 PROVE x[k] # Framing!Flag
      OBVIOUS
    <3>1. k = Len(w) + 1 \/ k \in 1 .. Len(w)
      BY <2>3
    <3> QED BY <2>1, <2>2, <2>3, <3>1
  <2> QED BY <2>3, <2>4 DEF x
<1> QED BY <1>4, <1>5, <1>6 DEF Frames, c

LEMMA FramesEscaped ==
    ASSUME in \in Seq(Nat), NEW w, NEW n \in 0 .. Len(in) - 1, Frames(w, n),
           Framing!Special(in[n + 1])
    PROVE  Frames(Append(Append(w, Framing!Escape), Framing!Flipped(in[n + 1])), n + 1)
<1> DEFINE c == in[n + 1]
           e == Framing!Escape
           d == Framing!Flipped(c)
<1>1. w \in Seq(Nat) /\ n \in Nat /\ n + 1 \in 1 .. Len(in) /\ c \in {125, 126}
  BY DEF Frames, Framing!Special, Framing!Escape, Framing!Flag
<1>2. PICK h : IsReceiver(h, w) /\ h[Len(w)] = [escaped |-> FALSE, pdu |-> SubSeq(in, 1, n)]
  BY DEF Frames
<1>3. SubSeq(in, 1, n + 1) = Append(SubSeq(in, 1, n), c)
  BY <1>1
<1> HIDE DEF c
<1>4. /\ d \in {93, 94} /\ Framing!Flipped(d) = c /\ e = 125 /\ Framing!Flag = 126
      /\ d \in Nat /\ e \in Nat /\ d # Framing!Flag /\ e # Framing!Flag
  <2>1. CASE c = 125
    BY <2>1, FlippedFacts, SMT DEF Framing!Escape, Framing!Flag
  <2>2. CASE c = 126
    BY <2>2, FlippedFacts, SMT DEF Framing!Escape, Framing!Flag
  <2> QED BY <1>1, <2>1, <2>2
<1> HIDE DEF d, e
<1>5. PICK g : IsReceiver(g, Append(w, e)) /\ g[Len(w) + 1] = Framing!Received(h[Len(w)], e)
  <2>1. w \in Seq(Nat) /\ e \in Nat /\ IsReceiver(h, w)
    BY <1>1, <1>2, <1>4
  <2> QED BY <2>1, ReceiverStep
<1>6. g[Len(w) + 1] = [escaped |-> TRUE, pdu |-> SubSeq(in, 1, n)]
  <2>1. g[Len(w) + 1] = Framing!Received([escaped |-> FALSE, pdu |-> SubSeq(in, 1, n)], Framing!Escape)
    BY <1>2, <1>5 DEF e
  <2> QED BY <2>1, ReceivedFacts
<1> DEFINE v == Append(w, e)
<1>7. v \in Seq(Nat) /\ Len(v) = Len(w) + 1 /\ Len(w) \in Nat
      /\ \A k \in 1 .. Len(v) : v[k] # Framing!Flag
  BY <1>1, <1>4 DEF Frames
<1> HIDE DEF v
<1>8. IsReceiver(g, v) /\ g[Len(v)] = [escaped |-> TRUE, pdu |-> SubSeq(in, 1, n)]
  BY <1>5, <1>6, <1>7 DEF v
<1>9. PICK f : IsReceiver(f, Append(v, d)) /\ f[Len(v) + 1] = Framing!Received(g[Len(v)], d)
  <2>1. v \in Seq(Nat) /\ d \in Nat /\ IsReceiver(g, v)
    BY <1>4, <1>7, <1>8
  <2> QED BY <2>1, ReceiverStep
<1>10. f[Len(v) + 1] = [escaped |-> FALSE, pdu |-> SubSeq(in, 1, n + 1)]
  <2>1. f[Len(v) + 1] = [escaped |-> FALSE, pdu |-> Append(SubSeq(in, 1, n), Framing!Flipped(d))]
    BY <1>8, <1>9, ReceivedFacts
  <2> QED BY <1>3, <1>4, <2>1
<1>11. Append(v, d) \in Seq(Nat) /\ Len(Append(v, d)) = Len(v) + 1
       /\ \A k \in 1 .. Len(v) + 1 : Append(v, d)[k] # Framing!Flag
  <2>1. d \in Nat /\ d # Framing!Flag
    BY <1>4
  <2> QED BY <1>7, <2>1
<1> QED BY <1>9, <1>10, <1>11 DEF Frames, v, d, e, c

LEMMA InIsNat == in \in Seq(Bytes) => in \in Seq(Nat)
<1>1. Bytes \subseteq Nat
  BY BytesAssumption
<1> QED BY <1>1, SeqOver

LEMMA EncodeByteHdlcIInv == ASSUME HdlcIInv, Framing!EncodeByte PROVE HdlcIInv'
<1>1. /\ coded < Len(in) /\ coded' = coded + 1 /\ in' = in
      /\ out' = out \o Framing!Stuffed(in[coded + 1])
  BY DEF Framing!EncodeByte
<1>2. in \in Seq(Nat) /\ coded \in 0 .. Len(in) - 1 /\ Frames(out, coded) /\ out \in Seq(Nat) /\ Len(in) \in Nat
  <2>1. in \in Seq(Nat) /\ Len(in) \in Nat /\ coded \in 0 .. Len(in) + 1
    BY InIsNat DEF HdlcIInv
  <2>2. coded \in 0 .. Len(in) - 1 /\ coded <= Len(in)
    BY <1>1, <2>1
  <2>3. Frames(out, coded)
    BY <2>2 DEF HdlcIInv
  <2> QED BY <2>1, <2>2, <2>3 DEF Frames
<1>3. Frames(out', coded + 1)
  <2>1. CASE Framing!Special(in[coded + 1])
    <3>1. out' = out \o <<Framing!Escape, Framing!Flipped(in[coded + 1])>>
      BY <1>1, <2>1 DEF Framing!Stuffed
    <3>2. out \o <<Framing!Escape, Framing!Flipped(in[coded + 1])>>
            = Append(Append(out, Framing!Escape), Framing!Flipped(in[coded + 1]))
      BY <1>2
    <3> QED BY <1>2, <2>1, <3>1, <3>2, FramesEscaped
  <2>2. CASE ~ Framing!Special(in[coded + 1])
    <3>1. out' = out \o <<in[coded + 1]>>
      BY <1>1, <2>2 DEF Framing!Stuffed
    <3>2. out \o <<in[coded + 1]>> = Append(out, in[coded + 1])
      BY <1>2
    <3> QED BY <1>2, <2>2, <3>1, <3>2, FramesPlain
  <2> QED BY <2>1, <2>2
<1>4. Frames(out, coded)'
  BY <1>1, <1>3 DEF Frames
<1> QED BY <1>1, <1>2, <1>4 DEF HdlcIInv

LEMMA EncodeFlagHdlcIInv == ASSUME HdlcIInv, Framing!EncodeFlag PROVE HdlcIInv'
<1>1. coded = Len(in) /\ coded' = coded + 1 /\ in' = in /\ out' = Append(out, Framing!Flag)
  BY DEF Framing!EncodeFlag
<1>2. Len(in) \in Nat /\ Frames(out, Len(in))
  BY <1>1 DEF HdlcIInv
<1>3. \E w : Frames(w, Len(in))' /\ out' = Append(w, Framing!Flag)
  BY <1>1, <1>2 DEF Frames
<1> QED BY <1>1, <1>2, <1>3 DEF HdlcIInv

LEMMA InitHdlcIInv == Layer2Init => HdlcIInv
<1> SUFFICES ASSUME Framing!Init PROVE HdlcIInv
  BY DEF Layer2Init
<1>1. in \in Seq(Bytes) /\ coded = 0 /\ out = << >>
  <2>1. PICK pdu \in Framing!BoundedSeq(Bytes, MaxLen), fcs \in Bytes \X Bytes : in = pdu \o fcs
    BY DEF Framing!Init
  <2>2. pdu \in Seq(Bytes) /\ fcs \in Seq(Bytes)
    <3>1. PICK m \in 0 .. MaxLen : pdu \in [1 .. m -> Bytes]
      BY DEF Framing!BoundedSeq, Framing!SeqOf
    <3>2. m \in Nat
      BY BytesAssumption
    <3>3. fcs = <<fcs[1], fcs[2]>> /\ fcs[1] \in Bytes /\ fcs[2] \in Bytes
      OBVIOUS
    <3>4. pdu \in Seq(Bytes)
      BY <3>1, <3>2
    <3>5. <<fcs[1], fcs[2]>> \in Seq(Bytes)
      BY <3>3
    <3> QED BY <3>3, <3>4, <3>5
  <2> QED BY <2>1, <2>2 DEF Framing!Init
<1>2. << >> \in Seq(Nat) /\ Len(<< >>) = 0 /\ Len(in) \in Nat /\ SubSeq(in, 1, 0) = << >>
  BY <1>1
<1> DEFINE h == [n \in 0 .. 0 |-> [escaped |-> FALSE, pdu |-> << >>]]
<1>3. IsReceiver(h, << >>) /\ h[0] = [escaped |-> FALSE, pdu |-> << >>]
  BY <1>2 DEF IsReceiver
<1> HIDE DEF h
<1>4. Frames(out, 0)
  <2>1. IsReceiver(h, out) /\ h[Len(out)] = [escaped |-> FALSE, pdu |-> SubSeq(in, 1, 0)]
    BY <1>1, <1>2, <1>3
  <2>2. out \in Seq(Nat) /\ 1 .. Len(out) = {}
    BY <1>1, <1>2
  <2> QED BY <2>1, <2>2 DEF Frames
<1> QED BY <1>1, <1>2, <1>4 DEF HdlcIInv

LEMMA HdlcStep == ASSUME HdlcIInv, [Layer2Next]_allvars PROVE HdlcIInv'
<1>1. CASE UNCHANGED hdlcvars
  BY <1>1 DEF hdlcvars, HdlcIInv, Frames
<1> QED BY <1>1, EncodeByteHdlcIInv, EncodeFlagHdlcIInv DEF Layer2Next, Audio, SpreadByte, Hdlc,
           Written, ReadRecord, Returned, allvars

LEMMA FramedFollows == HdlcIInv => FramedWhole
<1> SUFFICES ASSUME HdlcIInv PROVE Framing!FramedWhole
  BY DEF FramedWhole
<1>1. Len(in) \in Nat /\ in \in Seq(Nat) /\ coded \in Nat
  BY InIsNat DEF HdlcIInv
<1>2. CASE coded <= Len(in)
  <2>1. out \in Seq(Nat) /\ \A k \in 1 .. Len(out) : out[k] # Framing!Flag
    BY <1>2 DEF HdlcIInv, Frames
  <2> QED BY <1>1, <1>2, <2>1 DEF Framing!FramedWhole
<1>3. CASE coded > Len(in)
  <2>1. PICK w : Frames(w, Len(in)) /\ out = Append(w, Framing!Flag)
    BY <1>3 DEF HdlcIInv
  <2>2. PICK h : IsReceiver(h, w) /\ h[Len(w)] = [escaped |-> FALSE, pdu |-> SubSeq(in, 1, Len(in))]
    BY <2>1 DEF Frames
  <2>3. w \in Seq(Nat) /\ Len(w) \in Nat /\ \A k \in 1 .. Len(w) : w[k] # Framing!Flag
    BY <2>1 DEF Frames
  <2>4. Framing!Flag \in Nat
    BY DEF Framing!Flag
  <2> HIDE DEF Framing!Flag
  <2>5. out \in Seq(Nat) /\ Len(out) = Len(w) + 1 /\ DOMAIN out = 1 .. Len(w) + 1 /\ out[Len(w) + 1] = Framing!Flag
        /\ \A k \in 1 .. Len(w) : out[k] = w[k]
    BY <2>1, <2>3, <2>4
  <2>6. \A n \in DOMAIN out : out[n] = Framing!Flag => n = Len(out)
    BY <2>3, <2>5
  <2>7. Last(out) = Framing!Flag /\ Framing!Last(out) = Framing!Flag
    BY <2>5 DEF Last, Framing!Last
  <2>8. Front(out) = w /\ Framing!Front(out) = w
    <3>1. SubSeq(out, 1, Len(out) - 1) = w
      BY <2>1, <2>3, <2>4, <2>5
    <3> QED BY <3>1 DEF Front, Framing!Front
  <2>9. Framing!Unstuffed(w) = in
    <3>1. SubSeq(in, 1, Len(in)) = in
      BY <1>1
    <3>2. Framing!Unstuffed(w) = h[Len(w)].pdu
      BY <2>2, <2>3, UnstuffedFacts
    <3> QED BY <2>2, <3>1, <3>2
  <2> QED BY <1>3, <2>6, <2>7, <2>8, <2>9 DEF Framing!FramedWhole
<1> QED BY <1>1, <1>2, <1>3

(***************************************************************************)
(* hdlc_encode ends every PDU with a flag and has no other, and a receiver *)
(* gets it back, for any bytes and FCS and any length.                     *)
(***************************************************************************)
THEOREM AlwaysFramedWhole == Layer2Spec => []FramedWhole
<1>1. HdlcIInv /\ [Layer2Next]_allvars => HdlcIInv'
  BY HdlcStep
<1> QED BY <1>1, InitHdlcIInv, FramedFollows, PTL DEF Layer2Spec
------------------------------------------------------------------------------
\* Where the first n packets of a section end.
EndAt(s, n) == Header!la_loc(s) + n * (s.len + 1) + (IF n > 0 /\ s.first > 0 THEN s.first - s.len ELSE 0)

\* The ends of all packets fit their locators, and where they begin fits a byte.
Fits(s) == /\ Header!la_loc(s) < 256
           /\ \A n \in 0 .. s.nop : EndAt(s, n) < (IF s.lc_bits = 16 THEN 65536 ELSE 4096)

\* The first n locators in h, of 16 and of 12 bits.
Locators16(h, s, n) == \A k \in 0 .. 63 : k < n => h[2 * k + 7] + 256 * h[2 * k + 8] = EndAt(s, k + 1)

Locators12(h, s, n) ==
    \A k \in 0 .. 31 :
        /\ 2 * k < n => h[3 * k + 7] + 256 * (h[3 * k + 8] % 16) = EndAt(s, 2 * k + 1)
        /\ 2 * k + 1 < n => (h[3 * k + 8] \div 16) + 16 * h[3 * k + 9] = EndAt(s, 2 * k + 2)
        /\ 2 * k + 1 = n => h[3 * k + 8] < 16

Locators(h, s, n) == IF s.lc_bits = 16 THEN Locators16(h, s, n) ELSE Locators12(h, s, n)

\* The control word in h.
ControlWord(h, s) ==
    /\ h[1] = (s.pdu_seq_no % 4) * 64 + Header!codec_mode(s)
    /\ h[2] % 2 = s.pdu_seq_no \div 4
    /\ h[4] = (s.start_seq_no % 32) * 8 + Header!Flag(s.split) * 4 + Header!Flag(s.first > 0) * 2 + 1
    /\ h[5] = 128 + s.nop * 2 + ((s.start_seq_no \div 32) % 2)
    /\ h[6] = Header!la_loc(s)

\* The header expansion fields behind the locators.
Hef(h, s) == LET at == 6 + Header!len_locators(s)
             IN  h[at + 1] = 144 + s.number * 2 /\ h[at + 2] = 160 /\ h[at + 3] = s.type

HeaderIInv ==
    /\ section \in Sections
    /\ header \in [1 .. 9 + Header!len_locators(section) -> 0 .. 255]
    /\ located \in Int /\ -1 <= located /\ located <= section.nop + 1
    /\ 0 <= located => /\ ControlWord(header, section)
                       /\ Locators(header, section, IF located > section.nop THEN section.nop ELSE located)
                       /\ end = EndAt(section, IF located > section.nop THEN section.nop ELSE located)
    /\ located > section.nop => Hef(header, section)

LEMMA SectionFacts ==
    ASSUME NEW s \in Sections
    PROVE  /\ s.lc_bits \in {12, 16} /\ s.nop \in Nat /\ s.nop <= 63 /\ s.len \in Nat /\ s.first \in Nat
           /\ s.split \in BOOLEAN /\ s.pdu_seq_no \in Nat /\ s.pdu_seq_no <= 7 /\ s.start_seq_no \in Nat
           /\ s.number \in Nat /\ s.number <= 7 /\ s.blend \in Nat /\ s.blend <= 2 /\ s.type \in Nat /\ s.type <= 127
           /\ Header!len_locators(s) \in Nat /\ Header!la_loc(s) \in Nat
           /\ s.lc_bits = 16 => Header!len_locators(s) = 2 * s.nop
           /\ s.lc_bits = 12 => \A k \in Nat : /\ s.nop >= 2 * k + 1 => Header!len_locators(s) >= 3 * k + 2
                                               /\ s.nop >= 2 * k + 2 => Header!len_locators(s) >= 3 * k + 3
           /\ Header!codec_mode(s) \in Nat /\ Header!codec_mode(s) < 64
           /\ Header!Flag(s.split) \in {0, 1} /\ Header!Flag(s.first > 0) \in {0, 1}
<1>1. /\ s.lc_bits \in {12, 16} /\ s.nop \in Nat /\ s.nop <= 63 /\ s.len \in Nat /\ s.first \in Nat
      /\ s.split \in BOOLEAN /\ s.pdu_seq_no \in Nat /\ s.pdu_seq_no <= 7 /\ s.start_seq_no \in Nat
      /\ s.number \in Nat /\ s.number <= 7 /\ s.blend \in Nat /\ s.blend <= 2 /\ s.type \in Nat /\ s.type <= 127
  BY SectionsAssumption
<1>2. Header!len_locators(s) \in Nat
  BY <1>1 DEF Header!len_locators
<1>3. Header!la_loc(s) \in Nat
  BY <1>1, <1>2 DEF Header!la_loc, Header!psd_bytes, Header!ParityLen, Header!ControlLen, Header!HefLen
<1>4. s.lc_bits = 16 => Header!len_locators(s) = 2 * s.nop
  BY <1>1, SMT DEF Header!len_locators
<1>5. ASSUME s.lc_bits = 12, NEW k \in Nat
      PROVE  /\ s.nop >= 2 * k + 1 => Header!len_locators(s) >= 3 * k + 2
             /\ s.nop >= 2 * k + 2 => Header!len_locators(s) >= 3 * k + 3
  BY <1>1, <1>5, SMT DEF Header!len_locators
<1>6. Header!codec_mode(s) \in Nat /\ Header!codec_mode(s) < 64
  BY <1>1 DEF Header!codec_mode
<1>7. Header!Flag(s.split) \in {0, 1} /\ Header!Flag(s.first > 0) \in {0, 1}
  BY DEF Header!Flag
<1> QED BY <1>1, <1>2, <1>3, <1>4, <1>5, <1>6, <1>7

\* Put replaces the bytes behind at, and no others.
LEMMA PutFacts ==
    ASSUME NEW L \in Nat, header \in [1 .. L -> 0 .. 255], NEW at \in Nat, NEW bytes \in Seq(Int),
           at + Len(bytes) <= L, Header!Put(at, bytes)
    PROVE  /\ header' \in [1 .. L -> 0 .. 255]
           /\ \A z \in 1 .. Len(bytes) : header'[at + z] = bytes[z] % 256
           /\ \A z \in 1 .. L : z <= at \/ z > at + Len(bytes) => header'[z] = header[z]
<1>1. DOMAIN bytes = 1 .. Len(bytes) /\ Len(bytes) \in Nat /\ DOMAIN header = 1 .. L
      /\ \A z \in 1 .. Len(bytes) : bytes[z] \in Int
  OBVIOUS
<1>2. header' = [z \in 1 .. L |-> IF z - at \in 1 .. Len(bytes) THEN bytes[z - at] % 256 ELSE header[z]]
  BY <1>1 DEF Header!Put
<1>3. \A z \in 1 .. Len(bytes) : bytes[z] % 256 \in 0 .. 255
  <2> SUFFICES ASSUME NEW b \in Int PROVE b % 256 \in 0 .. 255
    BY <1>1
  <2> QED BY SMT
<1>4. header' \in [1 .. L -> 0 .. 255]
  <2> SUFFICES ASSUME NEW z \in 1 .. L
               PROVE  (IF z - at \in 1 .. Len(bytes) THEN bytes[z - at] % 256 ELSE header[z]) \in 0 .. 255
    BY <1>2
  <2> DEFINE top == 255
  <2>1. header[z] \in 0 .. top
    OBVIOUS
  <2> QED BY <1>3, <2>1
<1>5. ASSUME NEW z \in 1 .. Len(bytes) PROVE header'[at + z] = bytes[z] % 256
  <2>1. at + z \in 1 .. L /\ (at + z) - at = z
    BY <1>1
  <2> QED BY <1>2, <2>1
<1>6. ASSUME NEW z \in 1 .. L, z <= at \/ z > at + Len(bytes) PROVE header'[z] = header[z]
  <2>1. ~ (z - at \in 1 .. Len(bytes))
    BY <1>1, <1>6
  <2> QED BY <1>2, <2>1
<1> QED BY <1>4, <1>5, <1>6

\* A number below 256 is a byte.
LEMMA Byte == ASSUME NEW n \in Nat, n < 256 PROVE n % 256 = n
BY SMT

\* One locator more ends a packet further.
LEMMA EndStep ==
    ASSUME NEW s \in Sections, NEW n \in Nat, n < s.nop
    PROVE  /\ EndAt(s, n) \in Int
           /\ EndAt(s, n + 1) = EndAt(s, n) + (IF n = 0 /\ s.first > 0 THEN s.first ELSE s.len) + 1
<1>1. s.len \in Nat /\ s.first \in Nat /\ Header!la_loc(s) \in Nat
  BY SectionFacts
<1> DEFINE l == s.len + 1
           p == n * l
<1>2. l \in Nat /\ p \in Nat /\ (n + 1) * l = p + l /\ (n = 0 => p = 0)
  BY <1>1
<1>3. EndAt(s, n) = Header!la_loc(s) + p + (IF n > 0 /\ s.first > 0 THEN s.first - s.len ELSE 0)
  BY DEF EndAt
<1>4. EndAt(s, n + 1) = Header!la_loc(s) + (p + l) + (IF s.first > 0 THEN s.first - s.len ELSE 0)
  <2>1. EndAt(s, n + 1) = Header!la_loc(s) + (n + 1) * l + (IF n + 1 > 0 /\ s.first > 0 THEN s.first - s.len ELSE 0)
    BY DEF EndAt
  <2> HIDE DEF l, p
  <2>2. n + 1 > 0
    OBVIOUS
  <2> QED BY <1>2, <2>1, <2>2
<1> HIDE DEF p
<1> QED BY <1>1, <1>2, <1>3, <1>4

\* Put at the front.
LEMMA PutFirst ==
    ASSUME NEW L \in Nat, header \in [1 .. L -> 0 .. 255], NEW bytes \in Seq(Int),
           Len(bytes) <= L, Header!Put(0, bytes)
    PROVE  /\ header' \in [1 .. L -> 0 .. 255]
           /\ \A z \in 1 .. Len(bytes) : header'[z] = bytes[z] % 256
<1>1. \E at \in Nat : at = 0 /\ at + Len(bytes) <= L /\ Header!Put(at, bytes)
  BY DEF Header!Put
<1>2. PICK at \in Nat : at = 0 /\ at + Len(bytes) <= L /\ Header!Put(at, bytes)
  BY <1>1
<1>3. /\ header' \in [1 .. L -> 0 .. 255]
      /\ \A z \in 1 .. Len(bytes) : header'[at + z] = bytes[z] % 256
  <2>1. at + Len(bytes) <= L /\ Header!Put(at, bytes)
    BY <1>2
  <2> QED BY <2>1, PutFacts, ZenonT(40)
<1>4. \A z \in 1 .. Len(bytes) : at + z = z
  BY <1>2
<1> QED BY <1>3, <1>4

LEMMA InitHeaderIInv == Layer2Init => HeaderIInv
<1> SUFFICES ASSUME Layer2Init PROVE HeaderIInv
  OBVIOUS
<1>1. section \in Sections
  <2>1. Sections # {} /\ (CHOOSE s \in Sections : TRUE) \in Sections
    BY SectionsAssumption
  <2> QED BY <2>1 DEF Layer2Init, Header!Init
<1>2. located = -1 /\ header = [k \in 1 .. 6 + Header!len_locators(section) + 3 |-> 0]
  BY DEF Layer2Init, Header!Init, Header!ControlLen, Header!HefLen
<1>3. section.nop \in Nat /\ Header!len_locators(section) \in Nat
  BY <1>1, SectionFacts
<1>4. header \in [1 .. 9 + Header!len_locators(section) -> 0 .. 255]
  <2>1. 6 + Header!len_locators(section) + 3 = 9 + Header!len_locators(section)
    BY <1>3
  <2>2. 0 \in 0 .. 255
    OBVIOUS
  <2> QED BY <1>2, <2>1, <2>2
<1> QED BY <1>1, <1>2, <1>3, <1>4 DEF HeaderIInv

LEMMA WriteControlWordStep ==
    ASSUME HeaderIInv, Fits(section), Header!WriteControlWord
    PROVE  HeaderIInv'
<1> DEFINE s == section
           ll == Header!len_locators(s)
           p == s.pdu_seq_no
           q == s.start_seq_no
           m == IF s.number = 0 THEN s.blend ELSE 0
           f == Header!Flag(s.split)
           g == Header!Flag(s.first > 0)
           c == Header!codec_mode(s)
           la == Header!la_loc(s)
<1>1. /\ s \in Sections /\ s.nop \in Nat /\ s.nop <= 63 /\ p \in Nat /\ p <= 7 /\ q \in Nat
      /\ m \in Nat /\ m <= 2 /\ f \in {0, 1} /\ g \in {0, 1} /\ c \in Nat /\ c < 64 /\ ll \in Nat
      /\ la \in Nat /\ la < 256
  BY SectionFacts DEF HeaderIInv, Fits
<1>2. header \in [1 .. 9 + ll -> 0 .. 255] /\ located' = 0 /\ end' = la /\ section' = section
  BY DEF HeaderIInv, Header!WriteControlWord
<1> DEFINE u == (p % 4) * 64 + c
           v == m * 2 + (p \div 4)
           w == ((Header!Latency % 4) * 64) + Header!Main(s, 24)
           x == (q % 32) * 8 + f * 4 + g * 2 + 1
           y == 128 + s.nop * 2 + ((q \div 32) % 2)
           b == <<u, v, w, x, y, la>>
<1>3. Header!Put(0, b)
  <2>1. Header!Latency \div 4 = 1
    BY DEF Header!Latency
  <2>2. Header!Main(s, s.blend) = m
    BY DEF Header!Main
  <2> QED BY <2>1, <2>2 DEF Header!WriteControlWord
<1> HIDE DEF s, ll, p, q, m, f, g, c, la
<1>4. u \in Nat /\ u < 256
  BY <1>1, SMT
<1>5. v \in Nat /\ v < 256 /\ v % 2 = p \div 4
  <2>1. p \div 4 \in Nat /\ p \div 4 < 2
    BY <1>1, SMT
  <2> DEFINE d == p \div 4
  <2> HIDE DEF d
  <2>2. d \in Nat /\ d < 2
    BY <2>1 DEF d
  <2>3. m * 2 + d \in Nat /\ m * 2 + d < 256 /\ (m * 2 + d) % 2 = d
    BY <1>1, <2>2, SMT
  <2> QED BY <2>3 DEF d
<1>6. w \in Int
  <2>1. Header!Main(s, 24) \in Int
    BY DEF Header!Main
  <2>2. Header!Latency % 4 = 0
    BY SMT DEF Header!Latency
  <2> QED BY <2>1, <2>2
<1>7. x \in Nat /\ x < 256
  BY <1>1, SMT
<1>8. y \in Nat /\ y < 256
  BY <1>1, SMT
<1> HIDE DEF u, v, w, x, y
<1>9. /\ header' \in [1 .. 9 + ll -> 0 .. 255]
      /\ header'[1] = u /\ header'[2] = v /\ header'[4] = x /\ header'[5] = y /\ header'[6] = la
  <2> DEFINE L == 9 + ll
  <2>1. /\ L \in Nat /\ 6 <= L /\ u \in Int /\ v \in Int /\ x \in Int /\ y \in Int /\ la \in Int
        /\ header \in [1 .. L -> 0 .. 255]
    BY <1>1, <1>2, <1>4, <1>5, <1>7, <1>8
  <2>4. b \in Seq(Int) /\ Len(b) = 6 /\ b[1] = u /\ b[2] = v /\ b[4] = x /\ b[5] = y /\ b[6] = la
        /\ 1 \in 1 .. 6 /\ 2 \in 1 .. 6 /\ 4 \in 1 .. 6 /\ 5 \in 1 .. 6 /\ 6 \in 1 .. 6
    BY <2>1, <1>6
  <2> HIDE DEF L, b
  <2>5. header' \in [1 .. L -> 0 .. 255] /\ \A k \in 1 .. Len(b) : header'[k] = b[k] % 256
    <3>1. Len(b) <= L /\ Header!Put(0, b)
      BY <2>1, <2>4, <1>3
    <3>2. L \in Nat /\ header \in [1 .. L -> 0 .. 255] /\ b \in Seq(Int)
      BY <2>1, <2>4
    <3> QED BY <3>1, <3>2, PutFirst, SMTT(30)
  <2>2. /\ header' \in [1 .. L -> 0 .. 255]
        /\ header'[1] = u % 256 /\ header'[2] = v % 256 /\ header'[4] = x % 256
        /\ header'[5] = y % 256 /\ header'[6] = la % 256
    <3>1. /\ header'[1] = b[1] % 256 /\ header'[2] = b[2] % 256 /\ header'[4] = b[4] % 256
          /\ header'[5] = b[5] % 256 /\ header'[6] = b[6] % 256
      BY <2>4, <2>5
    <3> QED BY <3>1, <2>4, <2>5
  <2>3. u % 256 = u /\ v % 256 = v /\ x % 256 = x /\ y % 256 = y /\ la % 256 = la
    BY <1>1, <1>4, <1>5, <1>7, <1>8, Byte
  <2> QED BY <2>2, <2>3 DEF L
<1>10. ControlWord(header', s)
  BY <1>5, <1>9 DEF ControlWord, u, x, y, p, q, c, f, g, la, s
<1>11. Locators(header', s, 0)
  <2>1. Locators16(header', s, 0)
    BY DEF Locators16
  <2>2. Locators12(header', s, 0)
    BY DEF Locators12
  <2> QED BY <2>1, <2>2 DEF Locators
<1>12. la = EndAt(s, 0)
  <2> DEFINE l == s.len + 1
  <2>1. 0 * l = 0
    <3>1. l \in Nat
      BY <1>1, SectionFacts
    <3> HIDE DEF l
    <3> QED BY <3>1
  <2>2. EndAt(s, 0) = la + 0 * l + (IF 0 > 0 /\ s.first > 0 THEN s.first - s.len ELSE 0)
    BY DEF EndAt, la
  <2> HIDE DEF l
  <2> QED BY <1>1, <2>1, <2>2
<1> QED
  <2>1. ~ (0 > s.nop) /\ -1 <= 0 /\ 0 <= s.nop + 1 /\ 0 \in Int
    BY <1>1
  <2>2. section' = s /\ located' = 0 /\ end' = EndAt(s, 0)
    BY <1>2, <1>12 DEF s
  <2>3. header' \in [1 .. 9 + Header!len_locators(s) -> 0 .. 255]
    BY <1>9 DEF ll
  <2> QED BY <1>1, <1>10, <1>11, <2>1, <2>2, <2>3 DEF HeaderIInv


\* A locator of 16 bits in two bytes, and one of 12 in a byte and a half.
LEMMA Halves ==
    ASSUME NEW n \in Nat
    PROVE  /\ n % 256 \in Nat /\ n % 256 < 256 /\ n \div 256 \in Nat /\ (n % 256) + 256 * (n \div 256) = n
           /\ n % 16 \in Nat /\ n % 16 < 16 /\ n \div 16 \in Nat /\ (n % 16) + 16 * (n \div 16) = n
           /\ n < 65536 => n \div 256 < 256
           /\ n < 4096 => n \div 256 < 16 /\ n \div 16 < 256
BY SMT

\* The byte two locators share.
LEMMA Shared ==
    ASSUME NEW b \in Nat, b < 16, NEW n \in Nat, n < 16
    PROVE  b + n * 16 \in Nat /\ b + n * 16 < 256 /\ (b + n * 16) % 16 = b /\ (b + n * 16) \div 16 = n
BY SMT

\* One locator of 16 bits more: g is the header before, h the one after.
LEMMA OneMore16 ==
    ASSUME NEW s, NEW g, NEW h, NEW n \in Nat, n < 64, NEW x, NEW y,
           \A z \in Nat \ {0} : z <= 2 * n + 6 => h[z] = g[z],
           h[2 * n + 7] = x, h[2 * n + 8] = y, x + 256 * y = EndAt(s, n + 1),
           Locators16(g, s, n)
    PROVE  Locators16(h, s, n + 1)
<1>1. ASSUME NEW k \in 0 .. 63, k < n + 1
      PROVE  h[2 * k + 7] + 256 * h[2 * k + 8] = EndAt(s, k + 1)
  <2>1. CASE k = n
    BY <2>1
  <2>2. CASE k < n
    <3>1. 2 * k + 7 \in Nat \ {0} /\ 2 * k + 8 \in Nat \ {0} /\ 2 * k + 7 <= 2 * n + 6 /\ 2 * k + 8 <= 2 * n + 6
      BY <2>2
    <3>2. h[2 * k + 7] = g[2 * k + 7] /\ h[2 * k + 8] = g[2 * k + 8]
      BY <3>1
    <3>3. g[2 * k + 7] + 256 * g[2 * k + 8] = EndAt(s, k + 1)
      BY <2>2 DEF Locators16
    <3> QED BY <3>2, <3>3
  <2> QED BY <1>1, <2>1, <2>2
<1> QED BY <1>1 DEF Locators16

\* Those of 12 bits stay, if a locator is written behind them.
LEMMA Kept12 ==
    ASSUME NEW s, NEW g, NEW h, NEW n \in Nat, NEW j \in Nat, n >= 2 * j, Locators12(g, s, n),
           \A z \in Nat \ {0} : z <= 3 * j + 6 => h[z] = g[z],
           NEW k \in 0 .. 31, k < j
    PROVE  /\ h[3 * k + 7] + 256 * (h[3 * k + 8] % 16) = EndAt(s, 2 * k + 1)
           /\ (h[3 * k + 8] \div 16) + 16 * h[3 * k + 9] = EndAt(s, 2 * k + 2)
<1>1. /\ 3 * k + 7 \in Nat \ {0} /\ 3 * k + 8 \in Nat \ {0} /\ 3 * k + 9 \in Nat \ {0}
      /\ 3 * k + 7 <= 3 * j + 6 /\ 3 * k + 8 <= 3 * j + 6 /\ 3 * k + 9 <= 3 * j + 6
  OBVIOUS
<1>2. h[3 * k + 7] = g[3 * k + 7] /\ h[3 * k + 8] = g[3 * k + 8] /\ h[3 * k + 9] = g[3 * k + 9]
  BY <1>1
<1>3. 2 * k < n /\ 2 * k + 1 < n
  OBVIOUS
<1>4. /\ g[3 * k + 7] + 256 * (g[3 * k + 8] % 16) = EndAt(s, 2 * k + 1)
      /\ (g[3 * k + 8] \div 16) + 16 * g[3 * k + 9] = EndAt(s, 2 * k + 2)
  BY <1>3 DEF Locators12
<1> QED BY <1>2, <1>4

\* One locator of 12 bits more, with a byte of its own and half of the next ...
LEMMA OneMore12Even ==
    ASSUME NEW s, NEW g, NEW h, NEW j \in Nat, Locators12(g, s, 2 * j),
           \A z \in Nat \ {0} : z <= 3 * j + 6 => h[z] = g[z],
           NEW x \in Nat, NEW y \in Nat, y < 16,
           h[3 * j + 7] = x, h[3 * j + 8] = y, x + 256 * y = EndAt(s, 2 * j + 1)
    PROVE  Locators12(h, s, 2 * j + 1)
<1>1. ASSUME NEW k \in 0 .. 31, 2 * k < 2 * j + 1
      PROVE  h[3 * k + 7] + 256 * (h[3 * k + 8] % 16) = EndAt(s, 2 * k + 1)
  <2>1. CASE k < j
    BY <2>1, Kept12
  <2>2. CASE k = j
    <3>1. y % 16 = y
      BY SMT
    <3> QED BY <2>2, <3>1
  <2> QED BY <1>1, <2>1, <2>2
<1>2. ASSUME NEW k \in 0 .. 31, 2 * k + 1 < 2 * j + 1
      PROVE  (h[3 * k + 8] \div 16) + 16 * h[3 * k + 9] = EndAt(s, 2 * k + 2)
  <2>1. k < j
    BY <1>2
  <2> QED BY <2>1, Kept12
<1>3. ASSUME NEW k \in 0 .. 31, 2 * k + 1 = 2 * j + 1 PROVE h[3 * k + 8] < 16
  <2>1. k = j
    BY <1>3
  <2> QED BY <2>1
<1> QED BY <1>1, <1>2, <1>3 DEF Locators12

\* ... or with the upper half of the byte b begun, and a byte of its own.
LEMMA OneMore12Odd ==
    ASSUME NEW s, NEW g, NEW h, NEW j \in Nat, j <= 31, Locators12(g, s, 2 * j + 1),
           \A z \in Nat \ {0} : z <= 3 * j + 7 => h[z] = g[z],
           NEW b \in Nat, b < 16, NEW f \in Nat, f < 16, NEW y \in Nat, g[3 * j + 8] = b,
           h[3 * j + 8] = b + f * 16, h[3 * j + 9] = y, f + 16 * y = EndAt(s, 2 * j + 2)
    PROVE  Locators12(h, s, 2 * j + 2)
<1> DEFINE x == b + f * 16
<1>1. x % 16 = b /\ x \div 16 = f /\ h[3 * j + 8] = x
  BY Shared
<1> HIDE DEF x
<1>2. \A z \in Nat \ {0} : z <= 3 * j + 6 => h[z] = g[z]
  OBVIOUS
<1>3. ASSUME NEW k \in 0 .. 31, 2 * k < 2 * j + 2
      PROVE  h[3 * k + 7] + 256 * (h[3 * k + 8] % 16) = EndAt(s, 2 * k + 1)
  <2>1. CASE k < j
    BY <1>2, <2>1, Kept12
  <2>2. CASE k = j
    <3>1. g[3 * j + 7] + 256 * (g[3 * j + 8] % 16) = EndAt(s, 2 * j + 1)
      <4>1. 2 * j < 2 * j + 1 /\ j \in 0 .. 31
        OBVIOUS
      <4> QED BY <4>1 DEF Locators12
    <3>2. h[3 * j + 7] = g[3 * j + 7]
      OBVIOUS
    <3>3. b % 16 = b
      BY SMT
    <3>4. h[3 * j + 7] + 256 * (h[3 * j + 8] % 16) = g[3 * j + 7] + 256 * (g[3 * j + 8] % 16)
      BY <1>1, <3>2, <3>3
    <3> QED BY <2>2, <3>1, <3>4
  <2> QED BY <1>3, <2>1, <2>2
<1>4. ASSUME NEW k \in 0 .. 31, 2 * k + 1 < 2 * j + 2
      PROVE  (h[3 * k + 8] \div 16) + 16 * h[3 * k + 9] = EndAt(s, 2 * k + 2)
  <2>1. CASE k < j
    BY <1>2, <2>1, Kept12
  <2>2. CASE k = j
    BY <1>1, <2>2
  <2> QED BY <1>4, <2>1, <2>2
<1>5. ASSUME NEW k \in 0 .. 31, 2 * k + 1 = 2 * j + 2 PROVE h[3 * k + 8] < 16
  <2>1. FALSE
    BY <1>5
  <2> QED BY <2>1
<1> QED BY <1>3, <1>4, <1>5 DEF Locators12

\* A locator leaves the bytes in front of it.
LEMMA PutLocator ==
    ASSUME NEW L \in Nat, header \in [1 .. L -> 0 .. 255], NEW at \in Nat, at + 2 <= L,
           NEW bytes \in Seq(Int), Len(bytes) = 2, bytes[1] \in 0 .. 255, bytes[2] \in 0 .. 255,
           Header!Put(at, bytes)
    PROVE  /\ header' \in [1 .. L -> 0 .. 255]
           /\ header'[at + 1] = bytes[1] /\ header'[at + 2] = bytes[2]
           /\ \A z \in Nat \ {0} : z <= at => header'[z] = header[z]
<1>1. /\ header' \in [1 .. L -> 0 .. 255]
      /\ \A z \in 1 .. Len(bytes) : header'[at + z] = bytes[z] % 256
      /\ \A z \in 1 .. L : z <= at \/ z > at + Len(bytes) => header'[z] = header[z]
  BY PutFacts
<1>2. header'[at + 1] = bytes[1] % 256 /\ header'[at + 2] = bytes[2] % 256
  <2>1. 1 \in 1 .. 2 /\ 2 \in 1 .. 2
    OBVIOUS
  <2> QED BY <1>1, <2>1
<1>3. \A n \in 0 .. 255 : n % 256 = n
  BY Byte
<1>4. ASSUME NEW z \in Nat \ {0}, z <= at PROVE header'[z] = header[z]
  <2>1. z \in 1 .. L
    BY <1>4
  <2> QED BY <1>1, <1>4, <2>1
<1>5. header'[at + 1] = bytes[1] /\ header'[at + 2] = bytes[2]
  BY <1>2, <1>3
<1> QED BY <1>1, <1>4, <1>5

\* The control word is in the first six bytes.
LEMMA ControlWordKept ==
    ASSUME NEW s, NEW g, NEW h, ControlWord(g, s), \A z \in Nat \ {0} : z <= 6 => h[z] = g[z]
    PROVE  ControlWord(h, s)
<1>1. h[1] = g[1] /\ h[2] = g[2] /\ h[4] = g[4] /\ h[5] = g[5] /\ h[6] = g[6]
  OBVIOUS
<1> QED BY <1>1 DEF ControlWord

LEMMA WriteLocatorStep ==
    ASSUME HeaderIInv, Fits(section), Header!WriteLocator
    PROVE  HeaderIInv'
<1> DEFINE s == section
           n == located
           L == 9 + Header!len_locators(s)
           e == EndAt(s, n + 1)
<1>1. /\ s \in Sections /\ s.nop \in Nat /\ s.nop <= 63 /\ s.lc_bits \in {12, 16} /\ L \in Nat
      /\ n \in Nat /\ n < s.nop
  <2>1. s \in Sections
    BY DEF HeaderIInv
  <2>2. s.nop \in Nat /\ s.nop <= 63 /\ s.lc_bits \in {12, 16} /\ Header!len_locators(s) \in Nat
    BY <2>1, SectionFacts
  <2>3. n \in 0 .. s.nop - 1
    BY DEF Header!WriteLocator
  <2> HIDE DEF n, s
  <2> QED BY <2>1, <2>2, <2>3
<1>2. header \in [1 .. L -> 0 .. 255] /\ ControlWord(header, s) /\ Locators(header, s, n) /\ end = EndAt(s, n)
  <2>1. 0 <= n /\ ~ (n > s.nop)
    BY <1>1
  <2> QED BY <2>1 DEF HeaderIInv
<1>3. section' = section /\ located' = n + 1
  BY DEF Header!WriteLocator
<1>4. e = end + (IF n = 0 /\ s.first > 0 THEN s.first ELSE s.len) + 1
  BY <1>1, <1>2, EndStep
<1>5. end' = e
  BY <1>4 DEF Header!WriteLocator
<1>6. e \in Nat /\ e < (IF s.lc_bits = 16 THEN 65536 ELSE 4096)
  <2>1. e \in Int
    <3>1. s.first \in Nat /\ s.len \in Nat /\ EndAt(s, n) \in Int
      BY <1>1, EndStep, SectionFacts
    <3> QED BY <1>2, <1>4, <3>1
  <2>2. n + 1 \in 0 .. s.nop
    BY <1>1
  <2>3. e < (IF s.lc_bits = 16 THEN 65536 ELSE 4096)
    BY <2>2 DEF Fits
  <2>4. e >= 0
    <3>1. Header!la_loc(s) \in Nat /\ s.first \in Nat /\ s.len \in Nat
      BY <1>1, SectionFacts
    <3> DEFINE l == s.len + 1
               p == n * l
    <3>2. p \in Nat /\ (n + 1) * l = p + l /\ l \in Nat
      BY <1>1, <3>1
    <3>3. e = Header!la_loc(s) + (p + l) + (IF n + 1 > 0 /\ s.first > 0 THEN s.first - s.len ELSE 0)
      <4>1. e = Header!la_loc(s) + (n + 1) * l + (IF n + 1 > 0 /\ s.first > 0 THEN s.first - s.len ELSE 0)
        BY DEF EndAt
      <4> HIDE DEF p, l, e
      <4> QED BY <3>2, <4>1
    <3> HIDE DEF p, e
    <3> QED BY <3>1, <3>2, <3>3
  <2> QED BY <2>1, <2>3, <2>4
<1> HIDE DEF s, n, L, e
<1>7. ASSUME s.lc_bits = 16
      PROVE  /\ header' \in [1 .. L -> 0 .. 255] /\ \A z \in Nat \ {0} : z <= 6 => header'[z] = header[z]
             /\ Locators(header', s, n + 1)
  <2> DEFINE at == 6 + 2 * n
             bytes == <<e % 256, e \div 256>>
             x == e % 256
             y == e \div 256
  <2>1. Header!Put(at, bytes)
    BY <1>4, <1>7 DEF Header!WriteLocator, Header!ControlLen, s, n
  <2>2. x \in Nat /\ x < 256 /\ y \in Nat /\ y < 256 /\ x + 256 * y = e
    BY <1>6, <1>7, Halves
  <2>3. bytes = <<x, y>>
    OBVIOUS
  <2> HIDE DEF bytes, x, y
  <2>4. bytes \in Seq(Int) /\ Len(bytes) = 2 /\ bytes[1] = x /\ bytes[2] = y
    BY <2>2, <2>3
  <2>5. at \in Nat /\ at + 2 <= L
    BY <1>1, <1>7, SectionFacts DEF L
  <2>6. at + 1 = 2 * n + 7 /\ at + 2 = 2 * n + 8 /\ 6 <= at /\ at = 2 * n + 6
    BY <1>1
  <2> HIDE DEF at
  <2>7. /\ header' \in [1 .. L -> 0 .. 255]
        /\ header'[at + 1] = x /\ header'[at + 2] = y
        /\ \A z \in Nat \ {0} : z <= at => header'[z] = header[z]
    <3>1. /\ L \in Nat /\ header \in [1 .. L -> 0 .. 255] /\ at \in Nat /\ at + 2 <= L
          /\ bytes \in Seq(Int) /\ Len(bytes) = 2 /\ bytes[1] \in 0 .. 255 /\ bytes[2] \in 0 .. 255
          /\ Header!Put(at, bytes)
      BY <1>1, <1>2, <2>1, <2>2, <2>4, <2>5
    <3>2. /\ header' \in [1 .. L -> 0 .. 255]
          /\ header'[at + 1] = bytes[1] /\ header'[at + 2] = bytes[2]
          /\ \A z \in Nat \ {0} : z <= at => header'[z] = header[z]
      BY <3>1, PutLocator
    <3> QED BY <3>2, <2>4
  <2>8. Locators16(header', s, n + 1)
    <3>1. /\ header'[2 * n + 7] = x /\ header'[2 * n + 8] = y
          /\ \A z \in Nat \ {0} : z <= 2 * n + 6 => header'[z] = header[z]
      BY <2>6, <2>7
    <3>2. n < 64 /\ Locators16(header, s, n) /\ x + 256 * y = EndAt(s, n + 1)
      BY <1>1, <1>2, <1>7, <2>2 DEF Locators, e
    <3> QED BY <1>1, <3>1, <3>2, OneMore16
  <2>9. Locators(header', s, n + 1)
    BY <1>7, <2>8 DEF Locators
  <2>10. header' \in [1 .. L -> 0 .. 255] /\ \A z \in Nat \ {0} : z <= 6 => header'[z] = header[z]
    <3>1. ASSUME NEW z \in Nat \ {0}, z <= 6 PROVE header'[z] = header[z]
      <4>1. z <= at
        BY <2>6, <2>5, <3>1
      <4> QED BY <2>7, <4>1
    <3> QED BY <2>7, <3>1
  <2> QED BY <2>9, <2>10
<1>8. ASSUME s.lc_bits = 12, n % 2 = 0
      PROVE  /\ header' \in [1 .. L -> 0 .. 255] /\ \A z \in Nat \ {0} : z <= 6 => header'[z] = header[z]
             /\ Locators(header', s, n + 1)
  <2> DEFINE j == n \div 2
             at == 6 + j * 3
             bytes == <<e % 256, e \div 256>>
             x == e % 256
             y == e \div 256
  <2>1. Header!Put(at, bytes)
    <3>1. ~ (s.lc_bits = 16) /\ ~ (n % 2 = 1)
      BY <1>8
    <3> QED BY <1>4, <1>8, <3>1 DEF Header!WriteLocator, Header!ControlLen, s, n
  <2>2. x \in Nat /\ x < 256 /\ y \in Nat /\ y < 16 /\ y < 256 /\ x + 256 * y = e
    BY <1>6, <1>8, Halves
  <2>3. bytes = <<x, y>>
    OBVIOUS
  <2> HIDE DEF bytes, x, y
  <2>4. bytes \in Seq(Int) /\ Len(bytes) = 2 /\ bytes[1] = x /\ bytes[2] = y
    BY <2>2, <2>3
  <2>5. j \in Nat /\ n = 2 * j
    BY <1>1, <1>8, SMT
  <2> HIDE DEF j
  <2>6. at \in Nat /\ at + 2 <= L
    <3>1. s.nop >= 2 * j + 1
      BY <1>1, <2>5
    <3>2. Header!len_locators(s) \in Nat /\ Header!len_locators(s) >= 3 * j + 2
      BY <1>1, <1>8, <2>5, <3>1, SectionFacts
    <3> QED BY <2>5, <3>2 DEF L
  <2>7. at + 1 = 3 * j + 7 /\ at + 2 = 3 * j + 8 /\ 6 <= at /\ at = 3 * j + 6
    BY <2>5
  <2> HIDE DEF at
  <2>8. /\ header' \in [1 .. L -> 0 .. 255]
        /\ header'[at + 1] = x /\ header'[at + 2] = y
        /\ \A z \in Nat \ {0} : z <= at => header'[z] = header[z]
    <3>1. /\ L \in Nat /\ header \in [1 .. L -> 0 .. 255] /\ at \in Nat /\ at + 2 <= L
          /\ bytes \in Seq(Int) /\ Len(bytes) = 2 /\ bytes[1] \in 0 .. 255 /\ bytes[2] \in 0 .. 255
          /\ Header!Put(at, bytes)
      BY <1>1, <1>2, <2>1, <2>2, <2>4, <2>6
    <3>2. /\ header' \in [1 .. L -> 0 .. 255]
          /\ header'[at + 1] = bytes[1] /\ header'[at + 2] = bytes[2]
          /\ \A z \in Nat \ {0} : z <= at => header'[z] = header[z]
      BY <3>1, PutLocator
    <3> QED BY <3>2, <2>4
  <2>9. Locators12(header', s, 2 * j + 1)
    <3>1. /\ header'[3 * j + 7] = x /\ header'[3 * j + 8] = y
          /\ \A z \in Nat \ {0} : z <= 3 * j + 6 => header'[z] = header[z]
      BY <2>7, <2>8
    <3>2. Locators12(header, s, 2 * j) /\ x + 256 * y = EndAt(s, 2 * j + 1)
      BY <1>2, <1>8, <2>2, <2>5 DEF Locators, e
    <3> QED BY <2>2, <2>5, <3>1, <3>2, OneMore12Even
  <2>10. Locators(header', s, n + 1)
    BY <1>8, <2>5, <2>9 DEF Locators
  <2>11. header' \in [1 .. L -> 0 .. 255] /\ \A z \in Nat \ {0} : z <= 6 => header'[z] = header[z]
    <3>1. ASSUME NEW z \in Nat \ {0}, z <= 6 PROVE header'[z] = header[z]
      <4>1. z <= at
        BY <2>7, <2>6, <3>1
      <4> QED BY <2>8, <4>1
    <3> QED BY <2>8, <3>1
  <2> QED BY <2>10, <2>11
<1>9. ASSUME s.lc_bits = 12, n % 2 = 1
      PROVE  /\ header' \in [1 .. L -> 0 .. 255] /\ \A z \in Nat \ {0} : z <= 6 => header'[z] = header[z]
             /\ Locators(header', s, n + 1)
  <2> DEFINE j == n \div 2
             before == 6 + j * 3
             b == header[before + 2]
             f == e % 16
             x == b + f * 16
             y == e \div 16
             bytes == <<x, y>>
  <2>1. Header!Put(before + 1, bytes)
    <3>1. ~ (s.lc_bits = 16) /\ ~ (n % 2 = 0)
      BY <1>9
    <3> QED BY <1>4, <1>9, <3>1 DEF Header!WriteLocator, Header!SharedByte, Header!ControlLen, s, n
  <2>2. f \in Nat /\ f < 16 /\ y \in Nat /\ y < 256 /\ f + 16 * y = e
    BY <1>6, <1>9, Halves
  <2> HIDE DEF f, y
  <2>3. j \in Nat /\ n = 2 * j + 1
    BY <1>1, <1>9, SMT
  <2> HIDE DEF j
  <2>4. j <= 31 /\ 3 * j + 9 <= L
    <3>1. s.nop >= 2 * j + 2
      BY <1>1, <2>3
    <3>2. Header!len_locators(s) \in Nat /\ Header!len_locators(s) >= 3 * j + 3
      BY <1>1, <1>9, <2>3, <3>1, SectionFacts
    <3> QED BY <1>1, <2>3, <3>1, <3>2 DEF L
  <2>5. before + 2 = 3 * j + 8 /\ before + 1 = 3 * j + 7
    BY <2>3
  <2>6. Locators12(header, s, 2 * j + 1)
    BY <1>2, <1>9, <2>3 DEF Locators
  <2>7. b \in Nat /\ b < 16 /\ b = header[3 * j + 8]
    <3>1. b = header[3 * j + 8]
      BY <2>5
    <3> HIDE DEF b
    <3>2. 3 * j + 8 \in 1 .. L
      BY <1>1, <2>3, <2>4
    <3>3. header[3 * j + 8] \in 0 .. 255
      BY <1>2, <3>2
    <3>4. header[3 * j + 8] < 16
      <4>1. j \in 0 .. 31 /\ 2 * j + 1 = 2 * j + 1
        BY <2>3, <2>4
      <4> QED BY <2>6, <4>1 DEF Locators12
    <3> QED BY <3>1, <3>3, <3>4
  <2> HIDE DEF b
  <2>8. x \in Nat /\ x < 256
    BY <2>2, <2>7, Shared
  <2> DEFINE at == before + 1
  <2>9. at \in Nat /\ at + 1 = 3 * j + 8 /\ at + 2 = 3 * j + 9 /\ 6 <= at /\ at = 3 * j + 7 /\ at + 2 <= L
    BY <2>3, <2>4, <2>5
  <2>10. Header!Put(at, bytes)
    BY <2>1
  <2> HIDE DEF x
  <2>11. bytes \in Seq(Int) /\ Len(bytes) = 2 /\ bytes[1] = x /\ bytes[2] = y
    BY <2>2, <2>8
  <2> HIDE DEF before, at, bytes
  <2>12. /\ header' \in [1 .. L -> 0 .. 255]
         /\ header'[at + 1] = x /\ header'[at + 2] = y
         /\ \A z \in Nat \ {0} : z <= at => header'[z] = header[z]
    <3>1. /\ L \in Nat /\ header \in [1 .. L -> 0 .. 255] /\ at \in Nat /\ at + 2 <= L
          /\ bytes \in Seq(Int) /\ Len(bytes) = 2 /\ bytes[1] \in 0 .. 255 /\ bytes[2] \in 0 .. 255
          /\ Header!Put(at, bytes)
      <4>1. bytes \in Seq(Int) /\ Len(bytes) = 2 /\ bytes[1] \in 0 .. 255 /\ bytes[2] \in 0 .. 255
        BY <2>2, <2>8, <2>11
      <4>2. L \in Nat /\ header \in [1 .. L -> 0 .. 255] /\ at \in Nat /\ at + 2 <= L
        BY <1>1, <1>2, <2>9
      <4> QED BY <2>10, <4>1, <4>2
    <3>2. /\ header' \in [1 .. L -> 0 .. 255]
          /\ header'[at + 1] = bytes[1] /\ header'[at + 2] = bytes[2]
          /\ \A z \in Nat \ {0} : z <= at => header'[z] = header[z]
      BY <3>1, PutLocator
    <3> QED BY <3>2, <2>11
  <2>13. Locators12(header', s, 2 * j + 2)
    <3>1. /\ header'[3 * j + 8] = x /\ header'[3 * j + 9] = y
          /\ \A z \in Nat \ {0} : z <= 3 * j + 7 => header'[z] = header[z]
      BY <2>9, <2>12
    <3>2. header'[3 * j + 8] = b + f * 16 /\ header[3 * j + 8] = b
      BY <2>7, <3>1 DEF x
    <3>3. f + 16 * y = EndAt(s, 2 * j + 2)
      <4>1. n + 1 = 2 * j + 2
        BY <2>3
      <4> QED BY <2>2, <4>1 DEF e
    <3> QED BY <2>2, <2>3, <2>4, <2>6, <2>7, <3>1, <3>2, <3>3, OneMore12Odd
  <2>14. Locators(header', s, n + 1)
    <3>1. n + 1 = 2 * j + 2 /\ ~ (s.lc_bits = 16)
      BY <1>9, <2>3
    <3> QED BY <2>13, <3>1 DEF Locators
  <2>15. header' \in [1 .. L -> 0 .. 255] /\ \A z \in Nat \ {0} : z <= 6 => header'[z] = header[z]
    <3>1. ASSUME NEW z \in Nat \ {0}, z <= 6 PROVE header'[z] = header[z]
      <4>1. z <= at
        BY <2>9, <3>1
      <4> QED BY <2>12, <4>1
    <3> QED BY <2>12, <3>1
  <2> QED BY <2>14, <2>15
<1>10. /\ header' \in [1 .. L -> 0 .. 255] /\ \A z \in Nat \ {0} : z <= 6 => header'[z] = header[z]
       /\ Locators(header', s, n + 1)
  <2>1. n % 2 = 0 \/ n % 2 = 1
    BY <1>1, SMT
  <2> QED BY <1>1, <1>7, <1>8, <1>9, <2>1
<1>11. ControlWord(header', s)
  BY <1>2, <1>10, ControlWordKept
<1> QED
  <2>1. ~ (n + 1 > s.nop) /\ -1 <= n + 1 /\ n + 1 <= s.nop + 1 /\ n + 1 \in Int
    BY <1>1
  <2>2. section' = s /\ located' = n + 1 /\ end' = EndAt(s, n + 1)
    BY <1>3, <1>5 DEF s, n, e
  <2>3. header' \in [1 .. 9 + Header!len_locators(s) -> 0 .. 255]
    BY <1>10 DEF L
  <2> QED BY <1>1, <1>10, <1>11, <2>1, <2>2, <2>3 DEF HeaderIInv

LEMMA WriteHefStep ==
    ASSUME HeaderIInv, Header!WriteHef
    PROVE  HeaderIInv'
<1> DEFINE s == section
           n == s.nop
           ll == Header!len_locators(s)
           L == 9 + ll
           at == 6 + ll
           d == s.type \div 128
           t == s.type % 128
           x == 144 + s.number * 2
           bytes == <<x, 160 + d, t>>
<1>1. /\ s \in Sections /\ n \in Nat /\ n <= 63 /\ s.lc_bits \in {12, 16} /\ ll \in Nat
      /\ s.number \in Nat /\ s.number <= 7 /\ s.type \in Nat /\ s.type <= 127
  <2>1. s \in Sections
    BY DEF HeaderIInv
  <2> QED BY <2>1, SectionFacts
<1>2. located = n /\ located' = n + 1 /\ section' = section /\ end' = end
  BY <1>1 DEF Header!WriteHef
<1>3. header \in [1 .. L -> 0 .. 255] /\ ControlWord(header, s) /\ Locators(header, s, n) /\ end = EndAt(s, n)
  <2>1. 0 <= n /\ ~ (n > n)
    BY <1>1
  <2> QED BY <1>2, <2>1 DEF HeaderIInv
<1>4. Header!Put(at, bytes)
  BY DEF Header!WriteHef, Header!ControlLen
<1>5. x \in Nat /\ x < 256 /\ d = 0 /\ t = s.type
  BY <1>1, SMT
<1> HIDE DEF x, d, t
<1>6. bytes \in Seq(Int) /\ Len(bytes) = 3 /\ bytes[1] = x /\ bytes[2] = 160 /\ bytes[3] = s.type
  BY <1>1, <1>5
<1>7. L \in Nat /\ at \in Nat /\ at + 3 <= L /\ at >= 6
  BY <1>1
<1> HIDE DEF s, n, ll, L, at, bytes
<1>8. /\ header' \in [1 .. L -> 0 .. 255]
      /\ \A z \in 1 .. Len(bytes) : header'[at + z] = bytes[z] % 256
      /\ \A z \in 1 .. L : z <= at \/ z > at + Len(bytes) => header'[z] = header[z]
  <2>1. at + Len(bytes) <= L /\ L \in Nat /\ at \in Nat /\ header \in [1 .. L -> 0 .. 255] /\ bytes \in Seq(Int)
    BY <1>3, <1>6, <1>7
  <2> QED BY <1>4, <2>1, PutFacts
<1>9. header'[at + 1] = x /\ header'[at + 2] = 160 /\ header'[at + 3] = s.type
  <2>1. header'[at + 1] = bytes[1] % 256 /\ header'[at + 2] = bytes[2] % 256 /\ header'[at + 3] = bytes[3] % 256
    <3>1. 1 \in 1 .. 3 /\ 2 \in 1 .. 3 /\ 3 \in 1 .. 3
      OBVIOUS
    <3> QED BY <1>6, <1>8, <3>1
  <2>2. x % 256 = x /\ 160 % 256 = 160 /\ s.type % 256 = s.type
    BY <1>1, <1>5, Byte
  <2> QED BY <1>6, <2>1, <2>2
<1>10. ASSUME NEW z \in Nat \ {0}, z <= at PROVE header'[z] = header[z]
  <2>1. z \in 1 .. L
    BY <1>7, <1>10
  <2> QED BY <1>8, <1>10, <2>1
<1>11. ControlWord(header', s)
  <2>1. \A z \in Nat \ {0} : z <= 6 => header'[z] = header[z]
    <3>1. \A z \in Nat \ {0} : z <= 6 => z <= at
      BY <1>7
    <3> QED BY <1>10, <3>1
  <2> QED BY <1>3, <2>1, ControlWordKept
<1>12. Locators(header', s, n)
  <2>1. CASE s.lc_bits = 16
    <3>1. Locators16(header, s, n) /\ at = 6 + 2 * n
      BY <1>1, <1>3, <2>1, SectionFacts DEF Locators, at, ll, n
    <3>2. ASSUME NEW k \in 0 .. 63, k < n
          PROVE  header'[2 * k + 7] + 256 * header'[2 * k + 8] = EndAt(s, k + 1)
      <4>1. 2 * k + 7 \in Nat \ {0} /\ 2 * k + 8 \in Nat \ {0} /\ 2 * k + 7 <= at /\ 2 * k + 8 <= at
        BY <1>1, <3>1, <3>2
      <4>2. header'[2 * k + 7] = header[2 * k + 7] /\ header'[2 * k + 8] = header[2 * k + 8]
        BY <1>10, <4>1
      <4>3. header[2 * k + 7] + 256 * header[2 * k + 8] = EndAt(s, k + 1)
        BY <3>1, <3>2 DEF Locators16
      <4> QED BY <4>2, <4>3
    <3>3. Locators16(header', s, n)
      BY <3>2 DEF Locators16
    <3> QED BY <2>1, <3>3 DEF Locators
  <2>2. CASE s.lc_bits = 12
    <3>1. Locators12(header, s, n) /\ ~ (s.lc_bits = 16)
      BY <1>3, <2>2 DEF Locators
    <3>2. ASSUME NEW k \in 0 .. 31, 2 * k < n
          PROVE  header'[3 * k + 7] = header[3 * k + 7] /\ header'[3 * k + 8] = header[3 * k + 8]
      <4>1. n >= 2 * k + 1
        BY <1>1, <3>2
      <4>2. ll >= 3 * k + 2
        BY <1>1, <2>2, <4>1, SectionFacts DEF ll, n
      <4>3. 3 * k + 7 \in Nat \ {0} /\ 3 * k + 8 \in Nat \ {0} /\ 3 * k + 7 <= at /\ 3 * k + 8 <= at
        BY <1>1, <4>2 DEF at
      <4> QED BY <1>10, <4>3
    <3>3. ASSUME NEW k \in 0 .. 31, 2 * k + 1 < n PROVE header'[3 * k + 9] = header[3 * k + 9]
      <4>1. n >= 2 * k + 2
        BY <1>1, <3>3
      <4>2. ll >= 3 * k + 3
        BY <1>1, <2>2, <4>1, SectionFacts DEF ll, n
      <4>3. 3 * k + 9 \in Nat \ {0} /\ 3 * k + 9 <= at
        BY <1>1, <4>2 DEF at
      <4> QED BY <1>10, <4>3
    <3>4. ASSUME NEW k \in 0 .. 31, 2 * k < n
          PROVE  header'[3 * k + 7] + 256 * (header'[3 * k + 8] % 16) = EndAt(s, 2 * k + 1)
      <4>1. header[3 * k + 7] + 256 * (header[3 * k + 8] % 16) = EndAt(s, 2 * k + 1)
        BY <3>1, <3>4 DEF Locators12
      <4> QED BY <3>2, <3>4, <4>1
    <3>5. ASSUME NEW k \in 0 .. 31, 2 * k + 1 < n
          PROVE  (header'[3 * k + 8] \div 16) + 16 * header'[3 * k + 9] = EndAt(s, 2 * k + 2)
      <4>1. (header[3 * k + 8] \div 16) + 16 * header[3 * k + 9] = EndAt(s, 2 * k + 2)
        BY <3>1, <3>5 DEF Locators12
      <4>2. 2 * k < n
        BY <1>1, <3>5
      <4> QED BY <3>2, <3>3, <3>5, <4>1, <4>2
    <3>6. ASSUME NEW k \in 0 .. 31, 2 * k + 1 = n PROVE header'[3 * k + 8] < 16
      <4>1. header[3 * k + 8] < 16
        BY <3>1, <3>6 DEF Locators12
      <4>2. 2 * k < n
        BY <1>1, <3>6
      <4> QED BY <3>2, <4>1, <4>2
    <3>7. Locators12(header', s, n)
      BY <3>4, <3>5, <3>6 DEF Locators12
    <3> QED BY <3>1, <3>7 DEF Locators
  <2> QED BY <1>1, <2>1, <2>2
<1>13. Hef(header', s)
  BY <1>9 DEF Hef, x, at, ll
<1> QED
  <2>1. n + 1 > n /\ -1 <= n + 1 /\ n + 1 <= n + 1 /\ n + 1 \in Int
    BY <1>1
  <2>2. section' = s /\ located' = s.nop + 1 /\ end' = EndAt(s, s.nop)
    BY <1>2, <1>3 DEF s, n
  <2>3. header' \in [1 .. 9 + Header!len_locators(s) -> 0 .. 255]
    BY <1>8 DEF L, ll
  <2>4. s.nop + 1 > s.nop /\ -1 <= s.nop + 1 /\ s.nop + 1 <= s.nop + 1 /\ s.nop + 1 \in Int
    BY <2>1 DEF n
  <2> QED BY <1>1, <1>11, <1>12, <1>13, <2>2, <2>3, <2>4 DEF HeaderIInv, n


\* What no part of layer 2 but the header does leaves HeaderIInv, and what that does keeps it.
LEMMA HeaderStep ==
    ASSUME \A s \in Sections : Fits(s)
    PROVE  HeaderIInv /\ [Layer2Next]_allvars => HeaderIInv'
<1> SUFFICES ASSUME HeaderIInv, [Layer2Next]_allvars PROVE HeaderIInv'
  OBVIOUS
<1>1. Fits(section)
  BY DEF HeaderIInv
<1>2. ASSUME UNCHANGED headervars PROVE HeaderIInv'
  BY <1>2, SMTT(30) DEF HeaderIInv, headervars, ControlWord, Locators, Locators16, Locators12, Hef, EndAt
<1>3. CASE Written(Header!WriteControlWord)
  BY <1>1, <1>3, WriteControlWordStep DEF Written
<1>4. CASE Written(Header!WriteLocator)
  BY <1>1, <1>4, WriteLocatorStep DEF Written
<1>5. CASE Written(Header!WriteHef)
  BY <1>5, WriteHefStep DEF Written
<1>6. CASE Audio \/ SpreadByte \/ ReadRecord \/ Returned
  BY <1>2, <1>6 DEF Audio, SpreadByte, ReadRecord, Returned, allvars
<1>7. CASE Hdlc(Framing!EncodeByte) \/ Hdlc(Framing!EncodeFlag)
  BY <1>2, <1>7 DEF Hdlc
<1>8. CASE UNCHANGED allvars
  BY <1>2, <1>8 DEF allvars
<1> QED BY <1>3, <1>4, <1>5, <1>6, <1>7, <1>8 DEF Layer2Next

\* What the fields of a control word are read as.
LEMMA ReadControlWord ==
    ASSUME NEW p \in Nat, p <= 7, NEW c \in Nat, c < 64, NEW q \in Nat, NEW f \in {0, 1}, NEW g \in {0, 1},
           NEW n \in Nat, n <= 63
    PROVE  /\ ((p % 4) * 64 + c) \div 64 = p % 4 /\ ((p % 4) * 64 + c) % 64 = c
           /\ (p % 4) + 4 * (p \div 4) = p
           /\ ((q % 32) * 8 + f * 4 + g * 2 + 1) \div 8 = q % 32
           /\ (((q % 32) * 8 + f * 4 + g * 2 + 1) \div 2) % 2 = g
           /\ (((q % 32) * 8 + f * 4 + g * 2 + 1) \div 4) % 2 = f
           /\ ((128 + n * 2 + ((q \div 32) % 2)) \div 2) % 64 = n
           /\ (128 + n * 2 + ((q \div 32) % 2)) % 2 = (q \div 32) % 2
           /\ (q % 32) + 32 * ((q \div 32) % 2) = q % 64
<1>1. /\ ((p % 4) * 64 + c) \div 64 = p % 4 /\ ((p % 4) * 64 + c) % 64 = c
      /\ (p % 4) + 4 * (p \div 4) = p
  BY SMT
<1> DEFINE r == q % 32
           b == (q \div 32) % 2
<1>2. r \in Nat /\ r < 32 /\ b \in {0, 1}
  BY SMT
<1>3. r + 32 * b = q % 64
  BY SMT
<1> HIDE DEF r, b
<1>4. (r * 8 + f * 4 + g * 2 + 1) \div 8 = r
  BY <1>2, SMT
<1>5. ((r * 8 + f * 4 + g * 2 + 1) \div 2) % 2 = g
  BY <1>2, SMT
<1>6. ((r * 8 + f * 4 + g * 2 + 1) \div 4) % 2 = f
  BY <1>2, SMT
<1>7. ((128 + n * 2 + b) \div 2) % 64 = n /\ (128 + n * 2 + b) % 2 = b
  BY <1>2, SMT
<1> QED BY <1>1, <1>3, <1>4, <1>5, <1>6, <1>7 DEF r, b


\* What is read from the locators, and from the fields behind them.
LEMMA LocatorsRead ==
    ASSUME NEW s \in Sections, section = s, Locators(header, s, s.nop), NEW z \in 0 .. s.nop - 1
    PROVE  Header!ReadLocator(z) = Header!PacketEnd(z)
<1>1. s.nop \in Nat /\ s.nop <= 63 /\ s.lc_bits \in {12, 16} /\ s.first \in Nat /\ s.len \in Nat
      /\ Header!la_loc(s) \in Nat
  BY SectionFacts
<1>2. Header!PacketEnd(z) = EndAt(s, z + 1)
  <2> DEFINE p == (z + 1) * (s.len + 1)
             la == Header!la_loc(s)
  <2>1. p \in Int
    BY <1>1
  <2>2. Header!PacketEnd(z) = la + p + (IF s.first > 0 THEN s.first ELSE s.len) - s.len
    BY DEF Header!PacketEnd
  <2>3. EndAt(s, z + 1) = la + p + (IF z + 1 > 0 /\ s.first > 0 THEN s.first - s.len ELSE 0)
    BY DEF EndAt
  <2>4. la \in Nat
    BY <1>1
  <2> HIDE DEF p, la
  <2>5. z + 1 > 0
    OBVIOUS
  <2> QED BY <1>1, <2>1, <2>2, <2>3, <2>4, <2>5
<1>3. CASE s.lc_bits = 16
  <2>1. header[2 * z + 7] + 256 * header[2 * z + 8] = EndAt(s, z + 1)
    <3>1. z \in 0 .. 63 /\ z < s.nop
      BY <1>1
    <3> QED BY <1>3, <3>1 DEF Locators, Locators16
  <2>2. 6 + 2 * z + 1 = 2 * z + 7 /\ 6 + 2 * z + 2 = 2 * z + 8
    BY <1>1
  <2>3. Header!ReadLocator(z) = header[6 + 2 * z + 1] + 256 * header[6 + 2 * z + 2]
    BY <1>3 DEF Header!ReadLocator, Header!ControlLen
  <2> QED BY <1>2, <2>1, <2>2, <2>3
<1>4. CASE s.lc_bits = 12
  <2> DEFINE k == z \div 2
  <2>1. k \in 0 .. 31 /\ (z % 2 = 0 => z = 2 * k) /\ (z % 2 = 1 => z = 2 * k + 1) /\ z % 2 \in {0, 1}
    BY <1>1, SMT
  <2>2. Locators12(header, s, s.nop) /\ ~ (s.lc_bits = 16)
    BY <1>4 DEF Locators
  <2>3. CASE z % 2 = 0
    <3>1. Header!ReadLocator(z) = header[6 + k * 3 + 1] + 256 * (header[6 + k * 3 + 2] % 16)
      <4>1. ~ (z % 2 = 1)
        BY <2>3
      <4> QED BY <1>4, <2>2, <2>3, <4>1 DEF Header!ReadLocator, Header!ControlLen
    <3> HIDE DEF k
    <3>2. 6 + k * 3 + 1 = 3 * k + 7 /\ 6 + k * 3 + 2 = 3 * k + 8 /\ 2 * k < s.nop /\ z + 1 = 2 * k + 1
      BY <1>1, <2>1, <2>3
    <3>3. header[3 * k + 7] + 256 * (header[3 * k + 8] % 16) = EndAt(s, 2 * k + 1)
      BY <2>1, <2>2, <3>2 DEF Locators12
    <3> QED BY <1>2, <3>1, <3>2, <3>3
  <2>4. CASE z % 2 = 1
    <3>1. Header!ReadLocator(z) = (header[6 + k * 3 + 2] \div 16) + 16 * header[6 + k * 3 + 3]
      <4>1. ~ (z % 2 = 0)
        BY <2>4
      <4> QED BY <1>4, <2>2, <2>4, <4>1 DEF Header!ReadLocator, Header!ControlLen
    <3> HIDE DEF k
    <3>2. 6 + k * 3 + 2 = 3 * k + 8 /\ 6 + k * 3 + 3 = 3 * k + 9 /\ 2 * k + 1 < s.nop /\ z + 1 = 2 * k + 2
      BY <1>1, <2>1, <2>4
    <3>3. (header[3 * k + 8] \div 16) + 16 * header[3 * k + 9] = EndAt(s, 2 * k + 2)
      BY <2>1, <2>2, <3>2 DEF Locators12
    <3> QED BY <1>2, <3>1, <3>2, <3>3
  <2> QED BY <2>1, <2>3, <2>4
<1> QED BY <1>1, <1>3, <1>4

LEMMA HeaderReadFollows ==
    ASSUME \A s \in Sections : Fits(s)
    PROVE  HeaderIInv => HeaderRead
<1> SUFFICES ASSUME HeaderIInv, Header!Complete PROVE HeaderRead
  BY DEF HeaderRead, Header!HeaderRead
<1> DEFINE s == section
           p == s.pdu_seq_no
           q == s.start_seq_no
           c == Header!codec_mode(s)
           f == Header!Flag(s.split)
           g == Header!Flag(s.first > 0)
           ll == Header!len_locators(s)
<1>1. /\ s \in Sections /\ s.nop \in Nat /\ s.nop <= 63 /\ p \in Nat /\ p <= 7 /\ q \in Nat
      /\ f \in {0, 1} /\ g \in {0, 1} /\ c \in Nat /\ c < 64 /\ ll \in Nat
      /\ s.number \in Nat /\ s.number <= 7 /\ s.type \in Nat /\ s.lc_bits \in {12, 16}
  <2>1. s \in Sections
    BY DEF HeaderIInv
  <2> QED BY <2>1, SectionFacts
<1>2. ControlWord(header, s) /\ Locators(header, s, s.nop) /\ Hef(header, s)
      /\ header \in [1 .. 9 + ll -> 0 .. 255]
  <2>1. located > s.nop /\ 0 <= located
    BY <1>1 DEF HeaderIInv, Header!Complete
  <2> QED BY <2>1 DEF HeaderIInv
<1>3. /\ header[1] = (p % 4) * 64 + c /\ header[2] % 2 = p \div 4
      /\ header[4] = (q % 32) * 8 + f * 4 + g * 2 + 1
      /\ header[5] = 128 + s.nop * 2 + ((q \div 32) % 2)
      /\ header[6] = Header!la_loc(s)
  BY <1>2 DEF ControlWord
<1> HIDE DEF p, q, c, f, g, ll
<1>4. /\ header[1] \div 64 = p % 4 /\ header[1] % 64 = c /\ (p % 4) + 4 * (p \div 4) = p
      /\ header[4] \div 8 = q % 32 /\ (header[4] \div 2) % 2 = g /\ (header[4] \div 4) % 2 = f
      /\ (header[5] \div 2) % 64 = s.nop /\ header[5] % 2 = (q \div 32) % 2
      /\ (q % 32) + 32 * ((q \div 32) % 2) = q % 64
  BY <1>1, <1>3, ReadControlWord
<1>5. Header!ReadNop = s.nop
  BY <1>4 DEF Header!ReadNop
<1>6. Header!ReadSeqNo = q % 64
  BY <1>4 DEF Header!ReadSeqNo
<1>7. Header!ReadPduSeqNo = p
  BY <1>3, <1>4 DEF Header!ReadPduSeqNo
<1>8. header[6] + 1 = Header!ParityLen + Len(header) + Header!psd_bytes(s)
  <2>1. Len(header) = 9 + ll
    BY <1>1, <1>2
  <2>2. Header!psd_bytes(s) \in Nat
    BY DEF Header!psd_bytes
  <2>3. Header!la_loc(s) = 8 + 6 + ll + 3 + Header!psd_bytes(s) - 1
    BY DEF Header!la_loc, Header!ParityLen, Header!ControlLen, Header!HefLen, ll
  <2> QED BY <1>1, <1>3, <2>1, <2>2, <2>3 DEF Header!ParityLen
<1>9. \A z \in 0 .. s.nop - 1 : Header!ReadLocator(z) = Header!PacketEnd(z)
  BY <1>1, <1>2, LocatorsRead
<1>10. Header!ReadHef = [number |-> s.number, type |-> s.type]
  <2> DEFINE at == 6 + ll
  <2>1. (s.lc_bits * Header!ReadNop + 4) \div 8 = ll
    BY <1>5 DEF ll, Header!len_locators
  <2>2. Header!ReadHef = [number |-> (header[at + 1] \div 2) % 8,
                          type |-> (header[at + 2] % 2) * 128 + header[at + 3]]
    BY <2>1 DEF Header!ReadHef, Header!ControlLen
  <2>3. header[at + 1] = 144 + s.number * 2 /\ header[at + 2] = 160 /\ header[at + 3] = s.type
    BY <1>2 DEF Hef, ll
  <2> HIDE DEF at
  <2>4. ((144 + s.number * 2) \div 2) % 8 = s.number /\ (160 % 2) * 128 + s.type = s.type
    BY <1>1, SMT
  <2> QED BY <2>2, <2>3, <2>4
<1> QED BY <1>4, <1>5, <1>6, <1>7, <1>8, <1>9, <1>10 DEF HeaderRead, Header!HeaderRead, p, q, c, f, g

(***************************************************************************)
(* A receiver reads from every finished header what went into it, for      *)
(* every section whose packets end where a locator can say: then nothing   *)
(* write_locator packs into shared bytes is lost to another field.         *)
(***************************************************************************)
THEOREM HeaderAlwaysRead ==
    ASSUME \A s \in Sections : Fits(s)
    PROVE  Layer2Spec => []HeaderRead
<1>1. HeaderIInv /\ [Layer2Next]_allvars => HeaderIInv'
  BY HeaderStep
<1>2. HeaderIInv => HeaderRead
  BY HeaderReadFollows
<1> QED BY <1>1, <1>2, InitHeaderIInv, PTL DEF Layer2Spec
------------------------------------------------------------------------------
\* Some bytes behind others.
LEMMA BytesBehind ==
    ASSUME NEW s \in Seq(Nat), NEW t \in Seq(Nat), NEW z, z = s \o t
    PROVE  /\ z \in Seq(Nat) /\ Len(z) = Len(s) + Len(t) /\ Len(s) \in Nat /\ Len(t) \in Nat
           /\ (\A k \in 1 .. Len(s) : z[k] = s[k]) /\ \A k \in 1 .. Len(t) : z[Len(s) + k] = t[k]
OBVIOUS

\* Names whose length goes in a byte.
ShortNames == {s \in Seq(Nat) : Len(s) <= 253}

\* What decode_sig reads of a service named s.
ServiceRead(q, s) == q \in Seq(Nat) /\ Len(q) = 7 + Len(s) /\ q[1] = 64 /\ q[5] = 105 /\ q[6] = Len(s) + 2

\* Where a service's record ends, and what decode_sig reads of it.
LEMMA ServiceFacts ==
    ASSUME NEW n \in Nat, NEW s \in ShortNames, NEW q, q = Guide!Service(n, s)
    PROVE  ServiceRead(q, s)
<1> DEFINE x == (Len(s) + 2) % 256
           t == <<64, n, 0, 2, 105, x, 0>>
<1>1. s \in Seq(Nat) /\ Len(s) \in Nat /\ x = Len(s) + 2 /\ x \in Nat
  BY ModSmall DEF ShortNames
<1>2. q = t \o s
  BY DEF Guide!Service
<1> HIDE DEF x
<1>3. t \in Seq(Nat) /\ Len(t) = 7 /\ t[1] = 64 /\ t[5] = 105 /\ t[6] = x
  BY <1>1
<1> HIDE DEF t
<1>4. q \in Seq(Nat) /\ Len(q) = 7 + Len(s) /\ \A k \in 1 .. 7 : q[k] = t[k]
  <2>1. t \in Seq(Nat) /\ s \in Seq(Nat)
    BY <1>1, <1>3
  <2>2. q \in Seq(Nat) /\ Len(q) = Len(t) + Len(s) /\ \A k \in 1 .. Len(t) : q[k] = t[k]
    BY <1>2, <2>1, BytesBehind
  <2> QED BY <1>3, <2>2
<1> QED BY <1>1, <1>3, <1>4 DEF ServiceRead

\* An audio component.
LEMMA AudioFacts ==
    ASSUME NEW c \in Nat, NEW id \in Nat, NEW type \in Nat,
           NEW q, q = Guide!AudioComponent(c, id, type)
    PROVE  q \in Seq(Nat) /\ Len(q) = 13 /\ q[1] = 102 /\ q[2] = 12 /\ q[4] = id /\ q[5] = type
<1> DEFINE t == <<102, 12, c, id, type, 0, 0, 0, 0>>
           h == Guide!Hash
<1>1. t \in Seq(Nat) /\ Len(t) = 9 /\ t[1] = 102 /\ t[2] = 12 /\ t[4] = id /\ t[5] = type
  OBVIOUS
<1>2. h \in Seq(Nat) /\ Len(h) = 4
  BY DEF Guide!Hash
<1>3. q = t \o h
  BY DEF Guide!AudioComponent
<1> HIDE DEF t, h
<1>4. q \in Seq(Nat) /\ Len(q) = 13 /\ \A k \in 1 .. 9 : q[k] = t[k]
  <2>1. t \in Seq(Nat) /\ h \in Seq(Nat) /\ q = t \o h
    BY <1>1, <1>2, <1>3
  <2>2. q \in Seq(Nat) /\ Len(q) = Len(t) + Len(h) /\ \A k \in 1 .. Len(t) : q[k] = t[k]
    BY <2>1, BytesBehind
  <2> QED BY <1>1, <1>2, <2>2
<1>5. q[1] = 102 /\ q[2] = 12 /\ q[4] = id /\ q[5] = type
  BY <1>1, <1>4
<1> QED BY <1>4, <1>5

\* A number of two bytes.
LEMMA WordFacts == ASSUME NEW n \in Nat PROVE Guide!Word16(n) \in Seq(Nat) /\ Len(Guide!Word16(n)) = 2
<1>1. n % 256 \in Nat /\ n \div 256 \in Nat
  OBVIOUS
<1> QED BY <1>1 DEF Guide!Word16

\* A data component, of two records.
LEMMA DataFacts ==
    ASSUME NEW c \in Nat, NEW port \in Nat, NEW v \in Nat,
           NEW q, q = Guide!DataComponent(c, port, v)
    PROVE  q \in Seq(Nat) /\ Len(q) = 24 /\ q[1] = 103 /\ q[2] = 13 /\ q[15] = 96 /\ q[16] = 9
<1> DEFINE a == <<103, 13, c>>
           x == Guide!Word16(port)
           y == Guide!Word16(265)
           d == <<3, 0, 0>>
           h == Guide!Hash
           e == <<96, 9, 83, 69, 76, 70, v, 0, 0, 0>>
<1>1. a \in Seq(Nat) /\ Len(a) = 3 /\ a[1] = 103 /\ a[2] = 13 /\ d \in Seq(Nat) /\ Len(d) = 3
  OBVIOUS
<1>2. e \in Seq(Nat) /\ Len(e) = 10 /\ e[1] = 96 /\ e[2] = 9
  OBVIOUS
<1>3. x \in Seq(Nat) /\ Len(x) = 2 /\ y \in Seq(Nat) /\ Len(y) = 2
  BY WordFacts
<1>4. h \in Seq(Nat) /\ Len(h) = 4
  BY DEF Guide!Hash
<1>5. q = a \o x \o y \o d \o h \o e
  BY DEF Guide!DataComponent
<1> DEFINE f == a \o x
           g == f \o y
           w == g \o d
           j == w \o h
<1> HIDE DEF a, x, y, d, h, e
<1>6. f \in Seq(Nat) /\ Len(f) = 5 /\ f[1] = 103 /\ f[2] = 13
  <2>1. f = a \o x
    OBVIOUS
  <2> HIDE DEF f
  <2>2. a \in Seq(Nat) /\ x \in Seq(Nat)
    BY <1>1, <1>3
  <2>3. f \in Seq(Nat) /\ Len(f) = Len(a) + Len(x) /\ \A k \in 1 .. Len(a) : f[k] = a[k]
    BY <2>1, <2>2, BytesBehind
  <2> QED BY <1>1, <1>3, <2>3
<1> HIDE DEF f
<1>7. g \in Seq(Nat) /\ Len(g) = 7 /\ g[1] = 103 /\ g[2] = 13
  <2>1. g = f \o y
    OBVIOUS
  <2> HIDE DEF g
  <2>2. f \in Seq(Nat) /\ y \in Seq(Nat)
    BY <1>3, <1>6
  <2>3. g \in Seq(Nat) /\ Len(g) = Len(f) + Len(y) /\ \A k \in 1 .. Len(f) : g[k] = f[k]
    BY <2>1, <2>2, BytesBehind
  <2> QED BY <1>3, <1>6, <2>3
<1> HIDE DEF g
<1>8. w \in Seq(Nat) /\ Len(w) = 10 /\ w[1] = 103 /\ w[2] = 13
  <2>1. w = g \o d
    OBVIOUS
  <2> HIDE DEF w
  <2>2. g \in Seq(Nat) /\ d \in Seq(Nat)
    BY <1>1, <1>7
  <2>3. w \in Seq(Nat) /\ Len(w) = Len(g) + Len(d) /\ \A k \in 1 .. Len(g) : w[k] = g[k]
    BY <2>1, <2>2, BytesBehind
  <2> QED BY <1>1, <1>7, <2>3
<1> HIDE DEF w
<1>9. j \in Seq(Nat) /\ Len(j) = 14 /\ j[1] = 103 /\ j[2] = 13
  <2>1. j = w \o h
    OBVIOUS
  <2> HIDE DEF j
  <2>2. w \in Seq(Nat) /\ h \in Seq(Nat)
    BY <1>4, <1>8
  <2>3. j \in Seq(Nat) /\ Len(j) = Len(w) + Len(h) /\ \A k \in 1 .. Len(w) : j[k] = w[k]
    BY <2>1, <2>2, BytesBehind
  <2> QED BY <1>4, <1>8, <2>3
<1> HIDE DEF j
<1> DEFINE z == j \o e
<1>10. z \in Seq(Nat) /\ Len(z) = 24 /\ z[1] = 103 /\ z[2] = 13 /\ z[15] = 96 /\ z[16] = 9
  <2>1. z = j \o e
    OBVIOUS
  <2> HIDE DEF z
  <2>2. j \in Seq(Nat) /\ e \in Seq(Nat)
    BY <1>2, <1>9
  <2>3. z \in Seq(Nat) /\ Len(z) = Len(j) + Len(e) /\ (\A k \in 1 .. Len(j) : z[k] = j[k])
        /\ \A k \in 1 .. Len(e) : z[Len(j) + k] = e[k]
    BY <2>1, <2>2, BytesBehind
  <2>4. z[14 + 1] = e[1] /\ z[14 + 2] = e[2] /\ z[1] = j[1] /\ z[2] = j[2]
    BY <1>2, <1>9, <2>3
  <2> QED BY <1>2, <1>9, <2>3, <2>4
<1> QED BY <1>5, <1>10 DEF f, g, w, j
\* What decode_sig reads of a program p: its service (tag 64, then the rest of the record
\* behind 4 bytes), its audio and its two data components, of two records each.
ProgramRead(q, id, p) ==
    LET l == Len(p.name)
    IN  /\ q \in Seq(Nat) /\ Len(q) = l + 68 /\ l \in Nat
        /\ q[1] = 64 /\ q[5] = 105 /\ q[6] = l + 2
        /\ q[l + 8] = 102 /\ q[l + 9] = 12 /\ q[l + 11] = id /\ q[l + 12] = p.type
        /\ q[l + 21] = 103 /\ q[l + 22] = 13 /\ q[l + 35] = 96 /\ q[l + 36] = 9
        /\ q[l + 45] = 103 /\ q[l + 46] = 13 /\ q[l + 59] = 96 /\ q[l + 60] = 9

\* A program's records are so, whatever its name is.
LEMMA ProgramFacts ==
    ASSUME NEW id \in Nat, NEW p, p.name \in ShortNames, p.type \in Nat, NEW q, q = Guide!Program(id, p)
    PROVE  ProgramRead(q, id, p)
<1> DEFINE l == Len(p.name)
           a == Guide!Service(id + 1, p.name)
           b == Guide!AudioComponent(0, id, p.type)
           c == Guide!DataComponent(1, Guide!Ports(id)[1], 40 + id)
           d == Guide!DataComponent(2, Guide!Ports(id)[2], 50 + id)
           x == a \o b
           y == x \o c
           z == y \o d
<1>1. a \in Seq(Nat) /\ Len(a) = 7 + l /\ a[1] = 64 /\ a[5] = 105 /\ a[6] = l + 2 /\ l \in Nat /\ l <= 253
  <2>1. PICK n \in Nat : n = id + 1
    OBVIOUS
  <2>2. PICK s \in ShortNames : s = p.name
    OBVIOUS
  <2>3. a = Guide!Service(n, s)
    BY <2>1, <2>2
  <2> HIDE DEF a
  <2>4. a \in Seq(Nat) /\ Len(a) = 7 + Len(s) /\ a[1] = 64 /\ a[5] = 105 /\ a[6] = Len(s) + 2
    <3>1. ServiceRead(a, s)
      BY <2>3, ServiceFacts
    <3> QED BY <3>1 DEF ServiceRead
  <2> QED BY <2>2, <2>4 DEF ShortNames
<1>2. b \in Seq(Nat) /\ Len(b) = 13 /\ b[1] = 102 /\ b[2] = 12 /\ b[4] = id /\ b[5] = p.type
  <2>1. PICK n \in Nat : n = 0
    OBVIOUS
  <2>2. PICK t \in Nat : t = p.type
    OBVIOUS
  <2>3. b = Guide!AudioComponent(n, id, t)
    BY <2>1, <2>2
  <2> HIDE DEF b
  <2>4. b \in Seq(Nat) /\ Len(b) = 13 /\ b[1] = 102 /\ b[2] = 12 /\ b[4] = id /\ b[5] = t
    BY <2>3, AudioFacts
  <2> QED BY <2>2, <2>4
<1>3. Guide!Ports(id)[1] \in Nat /\ Guide!Ports(id)[2] \in Nat /\ 40 + id \in Nat /\ 50 + id \in Nat
      /\ 1 \in Nat /\ 2 \in Nat
  BY DEF Guide!Ports
<1>4. c \in Seq(Nat) /\ Len(c) = 24 /\ c[1] = 103 /\ c[2] = 13 /\ c[15] = 96 /\ c[16] = 9
  <2>1. PICK n \in Nat, m \in Nat, v \in Nat : n = 1 /\ m = Guide!Ports(id)[1] /\ v = 40 + id
    BY <1>3
  <2>2. c = Guide!DataComponent(n, m, v)
    BY <2>1
  <2> HIDE DEF c
  <2> QED BY <2>2, DataFacts, SMTT(30)
<1>5. d \in Seq(Nat) /\ Len(d) = 24 /\ d[1] = 103 /\ d[2] = 13 /\ d[15] = 96 /\ d[16] = 9
  <2>1. PICK n \in Nat, m \in Nat, v \in Nat : n = 2 /\ m = Guide!Ports(id)[2] /\ v = 50 + id
    BY <1>3
  <2>2. d = Guide!DataComponent(n, m, v)
    BY <2>1
  <2> HIDE DEF d
  <2> QED BY <2>2, DataFacts, SMTT(30)
<1>6. q = z
  BY DEF Guide!Program
<1> DEFINE t == p.type
<1> HIDE DEF l, a, b, c, d, t
<1>7. /\ x \in Seq(Nat) /\ Len(x) = l + 20 /\ x[1] = 64 /\ x[5] = 105 /\ x[6] = l + 2
      /\ x[l + 8] = 102 /\ x[l + 9] = 12 /\ x[l + 11] = id /\ x[l + 12] = t
  <2>1. x = a \o b /\ a \in Seq(Nat) /\ b \in Seq(Nat)
    BY <1>1, <1>2
  <2> HIDE DEF x
  <2>2. x \in Seq(Nat) /\ Len(x) = Len(a) + Len(b) /\ (\A k \in 1 .. Len(a) : x[k] = a[k])
        /\ \A k \in 1 .. Len(b) : x[Len(a) + k] = b[k]
    BY <2>1, BytesBehind
  <2>3. Len(x) = l + 20 /\ x[1] = a[1] /\ x[5] = a[5] /\ x[6] = a[6]
    <3>1. Len(x) = l + 20 /\ 1 \in 1 .. Len(a) /\ 5 \in 1 .. Len(a) /\ 6 \in 1 .. Len(a)
      BY <1>1, <1>2, <2>2
    <3> QED BY <2>2, <3>1
  <2>4. \A k \in 1 .. 13 : x[(l + 7) + k] = b[k]
    <3>1. Len(b) = 13 /\ Len(a) = l + 7
      BY <1>1, <1>2
    <3> QED BY <2>2, <3>1
  <2>5. (l + 7) + 1 = l + 8 /\ (l + 7) + 2 = l + 9 /\ (l + 7) + 4 = l + 11 /\ (l + 7) + 5 = l + 12
    BY <1>1
  <2>6. x[l + 8] = b[1] /\ x[l + 9] = b[2] /\ x[l + 11] = b[4] /\ x[l + 12] = b[5]
    BY <2>4, <2>5
  <2> QED BY <1>1, <1>2, <2>2, <2>3, <2>6 DEF t
<1> HIDE DEF x
<1>8. /\ y \in Seq(Nat) /\ Len(y) = l + 44 /\ (\A k \in 1 .. l + 20 : y[k] = x[k])
      /\ y[l + 21] = 103 /\ y[l + 22] = 13 /\ y[l + 35] = 96 /\ y[l + 36] = 9
  <2>1. y = x \o c /\ x \in Seq(Nat) /\ c \in Seq(Nat)
    BY <1>4, <1>7
  <2> HIDE DEF y
  <2>2. y \in Seq(Nat) /\ Len(y) = Len(x) + Len(c) /\ (\A k \in 1 .. Len(x) : y[k] = x[k])
        /\ \A k \in 1 .. Len(c) : y[Len(x) + k] = c[k]
    BY <2>1, BytesBehind
  <2>3. Len(y) = l + 44 /\ \A k \in 1 .. l + 20 : y[k] = x[k]
    BY <1>1, <1>4, <1>7, <2>2
  <2>4. \A k \in 1 .. 24 : y[(l + 20) + k] = c[k]
    <3>1. Len(c) = 24 /\ Len(x) = l + 20
      BY <1>4, <1>7
    <3> QED BY <2>2, <3>1
  <2>5. (l + 20) + 1 = l + 21 /\ (l + 20) + 2 = l + 22 /\ (l + 20) + 15 = l + 35 /\ (l + 20) + 16 = l + 36
    BY <1>1
  <2>6. y[l + 21] = c[1] /\ y[l + 22] = c[2] /\ y[l + 35] = c[15] /\ y[l + 36] = c[16]
    BY <2>4, <2>5
  <2> QED BY <1>4, <2>2, <2>3, <2>6
<1> HIDE DEF y
<1>9. /\ z \in Seq(Nat) /\ Len(z) = l + 68 /\ (\A k \in 1 .. l + 44 : z[k] = y[k])
      /\ z[l + 45] = 103 /\ z[l + 46] = 13 /\ z[l + 59] = 96 /\ z[l + 60] = 9
  <2>1. z = y \o d /\ y \in Seq(Nat) /\ d \in Seq(Nat)
    BY <1>5, <1>8
  <2> HIDE DEF z
  <2>2. z \in Seq(Nat) /\ Len(z) = Len(y) + Len(d) /\ (\A k \in 1 .. Len(y) : z[k] = y[k])
        /\ \A k \in 1 .. Len(d) : z[Len(y) + k] = d[k]
    BY <2>1, BytesBehind
  <2>3. Len(z) = l + 68 /\ \A k \in 1 .. l + 44 : z[k] = y[k]
    BY <1>1, <1>5, <1>8, <2>2
  <2>4. \A k \in 1 .. 24 : z[(l + 44) + k] = d[k]
    <3>1. Len(d) = 24 /\ Len(y) = l + 44
      BY <1>5, <1>8
    <3> QED BY <2>2, <3>1
  <2>5. (l + 44) + 1 = l + 45 /\ (l + 44) + 2 = l + 46 /\ (l + 44) + 15 = l + 59 /\ (l + 44) + 16 = l + 60
    BY <1>1
  <2>6. z[l + 45] = d[1] /\ z[l + 46] = d[2] /\ z[l + 59] = d[15] /\ z[l + 60] = d[16]
    BY <2>4, <2>5
  <2> QED BY <1>5, <2>2, <2>3, <2>6
<1> HIDE DEF z
<1>10. \A k \in 1 .. l + 20 : z[k] = x[k]
  BY <1>1, <1>8, <1>9
<1>11. z[1] = x[1] /\ z[5] = x[5] /\ z[6] = x[6] /\ z[l + 8] = x[l + 8] /\ z[l + 9] = x[l + 9]
       /\ z[l + 11] = x[l + 11] /\ z[l + 12] = x[l + 12]
  <2>1. \A k \in {1, 5, 6, l + 8, l + 9, l + 11, l + 12} : k \in 1 .. l + 20
    BY <1>1
  <2> QED BY <1>10, <2>1
<1>12. z[l + 21] = y[l + 21] /\ z[l + 22] = y[l + 22] /\ z[l + 35] = y[l + 35] /\ z[l + 36] = y[l + 36]
  <2>1. \A k \in {l + 21, l + 22, l + 35, l + 36} : k \in 1 .. l + 44
    BY <1>1
  <2>2. \A k \in 1 .. l + 44 : z[k] = y[k]
    BY <1>9
  <2> QED BY <2>1, <2>2
<1>13. /\ z \in Seq(Nat) /\ Len(z) = l + 68 /\ l \in Nat
       /\ z[1] = 64 /\ z[5] = 105 /\ z[6] = l + 2
       /\ z[l + 8] = 102 /\ z[l + 9] = 12 /\ z[l + 11] = id /\ z[l + 12] = t
       /\ z[l + 21] = 103 /\ z[l + 22] = 13 /\ z[l + 35] = 96 /\ z[l + 36] = 9
       /\ z[l + 45] = 103 /\ z[l + 46] = 13 /\ z[l + 59] = 96 /\ z[l + 60] = 9
  BY <1>1, <1>7, <1>8, <1>9, <1>11, <1>12
<1> QED BY <1>6, <1>13 DEF l, t, ProgramRead

\* The records of the programs, and the offset of program k's.
SigPrograms == [k \in DOMAIN programs |-> Guide!Program(k - 1, programs[k])]
Pos(k) == 5 + Len(FlattenSeq(SubSeq(SigPrograms, 1, k)))

\* The types of the first k programs.
Known(k) == [id \in 0 .. 7 |-> IF id < k THEN programs[id + 1].type ELSE 0]

\* decode_sig is at a record of program k, and knows its type if it is behind its audio.
AtRecord(k) ==
    \/ sig_offset = Pos(k) /\ program_types = Known(k)
    \/ /\ k < Len(programs)
       /\ LET l == Len(programs[k + 1].name)
          IN  \/ /\ sig_offset = Pos(k) + 4 \/ sig_offset = Pos(k) + (l + 7)
                 /\ program_types = Known(k)
              \/ /\ \/ sig_offset = Pos(k) + (l + 20) \/ sig_offset = Pos(k) + (l + 34)
                    \/ sig_offset = Pos(k) + (l + 44) \/ sig_offset = Pos(k) + (l + 58)
                 /\ program_types = Known(k + 1)

\* The types of the guide's variables.
SigTyped == programs \in Seq([name : Names, type : SigTypes]) /\ Len(programs) <= 8
\* The inductive invariant of SigRead.
SigIInv == SigTyped /\ \E k \in 0 .. Len(programs) : AtRecord(k)

\* The programs' records are sequences of numbers.
LEMMA ProgramsFacts ==
    ASSUME SigTyped
    PROVE  /\ SigPrograms \in Seq(Seq(Nat)) /\ Len(SigPrograms) = Len(programs) /\ Len(programs) \in Nat
           /\ \A k \in 1 .. Len(programs) :
                 /\ SigPrograms[k] = Guide!Program(k - 1, programs[k])
                 /\ programs[k].name \in ShortNames /\ programs[k].type \in Nat
<1>1. /\ programs \in Seq([name : Names, type : SigTypes]) /\ Len(programs) \in Nat
      /\ DOMAIN programs = 1 .. Len(programs)
  BY DEF SigTyped
<1>2. ASSUME NEW k \in 1 .. Len(programs)
      PROVE  programs[k].name \in ShortNames /\ programs[k].type \in Nat
  <2>1. PICK R : R = [name : Names, type : SigTypes]
    OBVIOUS
  <2>2. PICK p : p = programs[k]
    OBVIOUS
  <2>3. p \in R
    <3>1. programs \in Seq(R)
      BY <1>1, <2>1
    <3> QED BY <2>2, <3>1
  <2>4. p.name \in Names /\ p.type \in SigTypes
    BY <2>1, <2>3
  <2>5. PICK s : s = p.name
    OBVIOUS
  <2>6. s \in Seq(0 .. 255) /\ Len(s) <= 253
    BY <2>4, <2>5, NamesAssumption
  <2>7. s \in Seq(Nat)
    <3>1. PICK B : B = 0 .. 255
      OBVIOUS
    <3>2. s \in Seq(B) /\ B \subseteq Nat
      BY <2>6, <3>1
    <3> QED BY <3>2, SeqOver
  <2>8. s \in ShortNames
    BY <2>6, <2>7 DEF ShortNames
  <2>9. p.type \in Nat
    <3>1. PICK t : t = p.type
      OBVIOUS
    <3>2. t \in 0 .. 127
      BY <2>4, <3>1, NamesAssumption
    <3>3. t \in Nat
      BY <3>2
    <3> QED BY <3>1, <3>3
  <2> QED BY <2>2, <2>5, <2>8, <2>9
<1>3. ASSUME NEW k \in 1 .. Len(programs) PROVE SigPrograms[k] \in Seq(Nat)
  <2>1. PICK p : p = programs[k]
    OBVIOUS
  <2>2. PICK m \in Nat : m = k - 1
    BY <1>1
  <2>3. PICK q : q = Guide!Program(m, p)
    OBVIOUS
  <2>4. p.name \in ShortNames /\ p.type \in Nat
    BY <1>2, <2>1
  <2>5. q \in Seq(Nat)
    BY <2>3, <2>4, ProgramFacts DEF ProgramRead
  <2> QED BY <1>1, <2>1, <2>2, <2>3, <2>5 DEF SigPrograms
<1>4. SigPrograms \in Seq(Seq(Nat)) /\ Len(SigPrograms) = Len(programs)
  <2>1. SigPrograms = [k \in 1 .. Len(programs) |-> SigPrograms[k]]
    BY <1>1 DEF SigPrograms
  <2>2. SigPrograms \in [1 .. Len(programs) -> Seq(Nat)]
    BY <1>3, <2>1
  <2> QED BY <1>1, <2>2
<1>5. \A k \in 1 .. Len(programs) : SigPrograms[k] = Guide!Program(k - 1, programs[k])
  BY <1>1 DEF SigPrograms
<1> QED BY <1>1, <1>2, <1>4, <1>5

\* The guide, in numbers.
LEMMA SigFacts ==
    ASSUME SigTyped
    PROVE  /\ Guide!Header \in Seq(Nat) /\ Len(Guide!Header) = 5
           /\ FlattenSeq(SigPrograms) \in Seq(Nat)
           /\ Guide!Sig = Guide!Header \o FlattenSeq(SigPrograms)
           /\ Len(Guide!Sig) = 5 + Len(FlattenSeq(SigPrograms)) /\ Len(Guide!Sig) \in Nat
           /\ \A k \in 1 .. Len(FlattenSeq(SigPrograms)) : Guide!Sig[5 + k] = FlattenSeq(SigPrograms)[k]
<1> DEFINE h == Guide!Header
           f == FlattenSeq(SigPrograms)
           z == h \o f
<1>1. h \in Seq(Nat) /\ Len(h) = 5
  <2> DEFINE x == Guide!Word16(32)
             y == Guide!Word16(0)
             t == <<33>>
             a == t \o x
  <2>1. PICK m \in Nat, n \in Nat : m = 32 /\ n = 0
    OBVIOUS
  <2>2. x = Guide!Word16(m) /\ y = Guide!Word16(n)
    BY <2>1
  <2>3. h = a \o y
    BY DEF Guide!Header
  <2> HIDE DEF x, y, h
  <2>4. x \in Seq(Nat) /\ Len(x) = 2 /\ y \in Seq(Nat) /\ Len(y) = 2
    BY <2>2, WordFacts
  <2>5. a \in Seq(Nat) /\ Len(a) = 3
    <3>1. t \in Seq(Nat) /\ Len(t) = 1 /\ a = t \o x
      OBVIOUS
    <3> HIDE DEF t, a
    <3>2. t \in Seq(Nat) /\ x \in Seq(Nat) /\ a = t \o x
      BY <2>4, <3>1
    <3>3. a \in Seq(Nat) /\ Len(a) = Len(t) + Len(x)
      BY <3>2, BytesBehind
    <3> QED BY <2>4, <3>1, <3>3
  <2> HIDE DEF a
  <2>6. a \in Seq(Nat) /\ y \in Seq(Nat) /\ h = a \o y
    BY <2>3, <2>4, <2>5
  <2>7. h \in Seq(Nat) /\ Len(h) = Len(a) + Len(y)
    BY <2>6, BytesBehind
  <2> QED BY <2>4, <2>5, <2>7
<1>2. f \in Seq(Nat)
  BY ProgramsFacts, FlattenType
<1>3. Guide!Sig = z
  <2>1. Guide!FlattenSeq(SigPrograms) = FlattenSeq(SigPrograms)
    BY DEF FlattenSeq, Guide!FlattenSeq
  <2> QED BY <2>1 DEF Guide!Sig, SigPrograms
<1> HIDE DEF h, f
<1>4. z \in Seq(Nat) /\ Len(z) = Len(h) + Len(f) /\ Len(f) \in Nat /\ \A k \in 1 .. Len(f) : z[Len(h) + k] = f[k]
  <2>1. h \in Seq(Nat)
    BY <1>1
  <2> HIDE DEF z
  <2>2. z = h \o f
    BY DEF z
  <2> QED BY <1>2, <2>1, <2>2, BytesBehind
<1> HIDE DEF z
<1>5. \A k \in 1 .. Len(f) : z[5 + k] = f[k]
  BY <1>1, <1>4
<1>6. Len(z) = 5 + Len(f) /\ Len(z) \in Nat
  BY <1>1, <1>4
<1> QED BY <1>1, <1>2, <1>3, <1>5, <1>6 DEF h, f, z

\* Program k's records in the guide, and where the next program's are.
LEMMA PosFacts ==
    ASSUME SigTyped, NEW k \in Nat, k < Len(programs), NEW p, p = programs[k + 1], NEW q, q = Guide!Program(k, p)
    PROVE  /\ Pos(k) \in Nat /\ Pos(k + 1) = Pos(k) + (Len(p.name) + 68) /\ Pos(k + 1) <= Len(Guide!Sig)
           /\ \A j \in 1 .. Len(p.name) + 68 : Guide!Sig[Pos(k) + j] = q[j]
<1> DEFINE s == SigPrograms
           f == FlattenSeq(s)
           a == FlattenSeq(SubSeq(s, 1, k))
           b == FlattenSeq(SubSeq(s, 1, k + 1))
           l == Len(p.name)
<1>1. s \in Seq(Seq(Nat)) /\ k < Len(s) /\ k + 1 \in 1 .. Len(programs)
  BY ProgramsFacts
<1>2. s[k + 1] = q /\ p.name \in ShortNames /\ p.type \in Nat
  <2>1. (k + 1) - 1 = k
    OBVIOUS
  <2> QED BY <1>1, <2>1, ProgramsFacts
<1>3. Len(q) = l + 68 /\ l \in Nat
  BY <1>2, ProgramFacts, SMTT(30) DEF ProgramRead
<1>4. Pos(k) = 5 + Len(a) /\ Pos(k + 1) = 5 + Len(b)
  BY DEF Pos
<1>5. a \in Seq(Nat) /\ Len(b) = Len(a) + Len(s[k + 1]) /\ Len(b) <= Len(f)
      /\ \A j \in 1 .. Len(s[k + 1]) : f[Len(a) + j] = s[k + 1][j]
  BY <1>1, FlattenAt
<1>6. Len(b) = Len(a) + Len(q) /\ \A j \in 1 .. Len(q) : f[Len(a) + j] = q[j]
  BY <1>2, <1>5
<1>7. f \in Seq(Nat) /\ Len(Guide!Sig) = 5 + Len(f) /\ \A j \in 1 .. Len(f) : Guide!Sig[5 + j] = f[j]
  BY SigFacts
<1> HIDE DEF s, f, a, b, l
<1>8. Len(a) \in Nat /\ Len(f) \in Nat /\ Len(b) = Len(a) + (l + 68) /\ Len(b) <= Len(f)
      /\ \A j \in 1 .. l + 68 : f[Len(a) + j] = q[j]
  BY <1>3, <1>5, <1>7, <1>6
<1>9. Pos(k) \in Nat /\ Pos(k + 1) = Pos(k) + (l + 68) /\ Pos(k + 1) <= Len(Guide!Sig)
  BY <1>3, <1>4, <1>7, <1>8
<1>10. ASSUME NEW j \in 1 .. l + 68 PROVE Guide!Sig[Pos(k) + j] = q[j]
  <2>1. Len(a) + j \in 1 .. Len(f) /\ Pos(k) + j = 5 + (Len(a) + j)
    BY <1>3, <1>4, <1>8
  <2>2. Guide!Sig[5 + (Len(a) + j)] = f[Len(a) + j]
    BY <1>7, <2>1
  <2> QED BY <1>8, <2>1, <2>2
<1> QED BY <1>9, <1>10 DEF l

\* The guide ends where a program behind the last one would begin.
LEMMA PosEnds == ASSUME SigTyped PROVE Pos(0) = 5 /\ Pos(Len(programs)) = Len(Guide!Sig)
<1> DEFINE s == SigPrograms
<1>1. s \in Seq(Seq(Nat)) /\ Len(s) = Len(programs)
  BY ProgramsFacts
<1> HIDE DEF s
<1>2. SubSeq(s, 1, 0) = << >> /\ SubSeq(s, 1, Len(s)) = s /\ Len(<< >>) = 0
  BY <1>1
<1>3. FlattenSeq(SubSeq(s, 1, 0)) = << >> /\ FlattenSeq(SubSeq(s, 1, Len(programs))) = FlattenSeq(s)
  BY <1>1, <1>2, FlattenEmpty
<1>4. Len(Guide!Sig) = 5 + Len(FlattenSeq(s))
  BY SigFacts DEF s
<1>5. Pos(0) = 5 + Len(FlattenSeq(SubSeq(s, 1, 0))) /\ Pos(Len(programs)) = 5 + Len(FlattenSeq(SubSeq(s, 1, Len(programs))))
  BY DEF Pos, s
<1> QED BY <1>2, <1>3, <1>4, <1>5

\* One step of decode_sig, at byte n of program k.
LEMMA ReadFacts ==
    ASSUME SigTyped, NEW k \in Nat, k < Len(programs), NEW p, p = programs[k + 1], NEW q, q = Guide!Program(k, p),
           NEW n \in Nat, n + 5 <= Len(p.name) + 68, sig_offset = Pos(k) + n, Guide!ReadRecord
    PROVE  /\ programs' = programs
           /\ q[n + 1] = 64 => sig_offset' = sig_offset + 4
           /\ q[n + 1] \in {96, 102, 103, 105} => sig_offset' = sig_offset + (1 + q[n + 2])
           /\ q[n + 1] # 102 => program_types' = program_types
           /\ (q[n + 1] = 102 /\ q[n + 4] \in DOMAIN program_types) =>
                 program_types' = [program_types EXCEPT ![q[n + 4]] = q[n + 5]]
<1>1. Pos(k) \in Nat /\ \A j \in 1 .. Len(p.name) + 68 : Guide!Sig[Pos(k) + j] = q[j]
  BY PosFacts
<1>2. p.name \in ShortNames
  <2>1. k + 1 \in 1 .. Len(programs)
    BY ProgramsFacts
  <2> QED BY <2>1, ProgramsFacts
<1>3. Len(p.name) \in Nat
  BY <1>2 DEF ShortNames
<1> DEFINE N == Len(p.name) + 68
<1>4. \A d \in {0, 1, 3, 4} : n + (d + 1) \in 1 .. N /\ (sig_offset + d) + 1 = Pos(k) + (n + (d + 1))
  BY <1>1, <1>3, SMTT(30)
<1> HIDE DEF N
<1>5. \A d \in {0, 1, 3, 4} : Guide!Byte(sig_offset + d) = q[n + (d + 1)]
  BY <1>1, <1>4 DEF N, Guide!Byte
<1>6. Guide!Byte(sig_offset) = q[n + 1] /\ Guide!Byte(sig_offset + 1) = q[n + 2]
      /\ Guide!Byte(sig_offset + 3) = q[n + 4] /\ Guide!Byte(sig_offset + 4) = q[n + 5]
  <2>1. sig_offset + 0 = sig_offset
    BY <1>1
  <2> QED BY <1>5, <2>1
<1>7. 64 \div 16 = 4 /\ 96 \div 16 = 6 /\ 102 \div 16 = 6 /\ 103 \div 16 = 6 /\ 105 \div 16 = 6
  OBVIOUS
<1> DEFINE tag == q[n + 1]
<1>8. /\ programs' = programs
      /\ sig_offset' = sig_offset + (CASE tag \div 16 = 4 -> 4
                                       [] tag \div 16 = 6 -> 1 + q[n + 2]
                                       [] OTHER -> 1)
      /\ program_types' = IF tag = 102 /\ q[n + 4] \in DOMAIN program_types
                          THEN [program_types EXCEPT ![q[n + 4]] = q[n + 5]]
                          ELSE program_types
  BY <1>6 DEF Guide!ReadRecord, Guide!RecordSize
<1>9. tag = 64 => sig_offset' = sig_offset + 4
  <2> SUFFICES ASSUME tag = 64 PROVE sig_offset' = sig_offset + 4
    OBVIOUS
  <2>1. tag \div 16 = 4
    BY <1>7
  <2> HIDE DEF tag
  <2> QED BY <1>8, <2>1
<1>10. tag \in {96, 102, 103, 105} => sig_offset' = sig_offset + (1 + q[n + 2])
  <2> SUFFICES ASSUME tag \in {96, 102, 103, 105} PROVE sig_offset' = sig_offset + (1 + q[n + 2])
    OBVIOUS
  <2>1. tag \div 16 = 6 /\ tag \div 16 # 4
    BY <1>7
  <2> HIDE DEF tag
  <2> QED BY <1>8, <2>1
<1> QED BY <1>8, <1>9, <1>10

\* decode_sig begins at the first record.
LEMMA InitSigIInv == Layer2Init => SigIInv
<1> SUFFICES ASSUME Layer2Init PROVE SigIInv
  OBVIOUS
<1> DEFINE m == IF part = "sig" THEN MaxSigPrograms ELSE 0
           R == [name : Names, type : SigTypes]
<1>1. Guide!Init(m) /\ m \in 0 .. 8
  BY NamesAssumption DEF Layer2Init
<1> HIDE DEF m
<1>2. programs \in BoundedSeq(R, m) /\ sig_offset = Len(Guide!Header) /\ program_types = [id \in 0 .. 7 |-> 0]
  <2>1. Guide!BoundedSeq(R, m) = BoundedSeq(R, m)
    BY DEF BoundedSeq, Guide!BoundedSeq, SeqOf, Guide!SeqOf
  <2> QED BY <1>1, <2>1 DEF Guide!Init
<1> HIDE DEF R
<1>3. PICK n \in 0 .. m : programs \in [1 .. n -> R]
  BY <1>2 DEF BoundedSeq, SeqOf
<1>4. programs \in Seq(R) /\ Len(programs) = n /\ n <= 8
  BY <1>1, <1>3
<1>5. SigTyped
  BY <1>4 DEF SigTyped, R
<1>6. sig_offset = Pos(0)
  BY <1>2, <1>5, SigFacts, PosEnds
<1>7. program_types = Known(0)
  BY <1>2 DEF Known
<1>8. 0 \in 0 .. Len(programs)
  BY <1>4
<1> QED BY <1>5, <1>6, <1>7, <1>8 DEF SigIInv, AtRecord

\* A record read: within the program, or to the next one's.
LEMMA ReadSigIInv == ASSUME SigIInv, Guide!ReadRecord PROVE SigIInv'
<1>1. PICK k \in 0 .. Len(programs) : AtRecord(k)
  BY DEF SigIInv
<1>2. SigTyped
  BY DEF SigIInv
<1>3. k < Len(programs)
  <2>1. ~ (sig_offset >= Len(Guide!Sig))
    BY DEF Guide!ReadRecord, Guide!AtEnd
  <2>2. k # Len(programs)
    <3> SUFFICES ASSUME k = Len(programs) PROVE FALSE
      OBVIOUS
    <3>1. Len(programs) \in Nat
      BY <1>2, ProgramsFacts
    <3>2. sig_offset = Pos(k)
      BY <1>1, <3>1 DEF AtRecord
    <3>3. sig_offset = Len(Guide!Sig) /\ Len(Guide!Sig) \in Nat
      BY <1>2, <3>2, PosEnds, SigFacts
    <3> QED BY <2>1, <3>3
  <2> QED BY <1>2, <2>2, ProgramsFacts
<1>4. PICK p : p = programs[k + 1]
  OBVIOUS
<1>5. PICK q : q = Guide!Program(k, p)
  OBVIOUS
<1>6. k \in Nat /\ k + 1 \in 1 .. Len(programs) /\ Len(programs) \in Nat /\ Len(programs) <= 8
  BY <1>2, <1>3, ProgramsFacts DEF SigTyped
<1>7. p.name \in ShortNames /\ p.type \in Nat
  BY <1>2, <1>4, <1>6, ProgramsFacts
<1>8. ProgramRead(q, k, p)
  BY <1>5, <1>6, <1>7, ProgramFacts
<1> DEFINE l == Len(p.name)
<1>9. l \in Nat
  BY <1>8 DEF ProgramRead
<1>10. Pos(k) \in Nat /\ Pos(k + 1) = Pos(k) + (l + 68)
  BY <1>2, <1>3, <1>4, <1>5, <1>6, PosFacts
<1>11. programs' = programs
  BY DEF Guide!ReadRecord
<1>12. Known(k) \in [0 .. 7 -> Nat \cup SigTypes] /\ k \in 0 .. 7 /\ Known(k + 1) = [Known(k) EXCEPT ![k] = p.type]
  <2>1. k \in 0 .. 7
    BY <1>3, <1>6
  <2>2. Known(k + 1) = [Known(k) EXCEPT ![k] = p.type]
    <3>1. \A id \in 0 .. 7 : (id < k + 1) <=> (id < k \/ id = k)
      BY <1>6
    <3>2. \A id \in 0 .. 7 : Known(k + 1)[id] = [Known(k) EXCEPT ![k] = p.type][id]
      BY <1>4, <1>6, <2>1, <3>1 DEF Known
    <3>3. DOMAIN Known(k + 1) = 0 .. 7 /\ DOMAIN Known(k) = 0 .. 7
      BY DEF Known
    <3> QED BY <3>2, <3>3 DEF Known
  <2>3. ASSUME NEW id \in 0 .. 7, id < k PROVE programs[id + 1].type \in Nat
    <3>1. id + 1 \in 1 .. Len(programs)
      BY <1>6, <2>1, <2>3
    <3> QED BY <1>2, <3>1, ProgramsFacts
  <2>4. Known(k) \in [0 .. 7 -> Nat \cup SigTypes]
    BY <2>3 DEF Known
  <2> QED BY <2>1, <2>2, <2>4
<1>13. (\A h : Pos(h)' = Pos(h) /\ Known(h)' = Known(h)) /\ SigTyped'
  BY <1>2, <1>11 DEF Pos, Known, SigTyped, SigPrograms
<1>14. ASSUME NEW n \in Nat, n + 5 <= l + 68, sig_offset = Pos(k) + n
       PROVE  /\ q[n + 1] = 64 => sig_offset' = sig_offset + 4
              /\ q[n + 1] \in {96, 102, 103, 105} => sig_offset' = sig_offset + (1 + q[n + 2])
              /\ q[n + 1] # 102 => program_types' = program_types
              /\ (q[n + 1] = 102 /\ q[n + 4] \in DOMAIN program_types) =>
                    program_types' = [program_types EXCEPT ![q[n + 4]] = q[n + 5]]
  BY <1>2, <1>3, <1>4, <1>5, <1>6, <1>14, ReadFacts
<1> SUFFICES \/ AtRecord(k)' \/ AtRecord(k + 1)'
  <2>1. k \in 0 .. Len(programs') /\ k + 1 \in 0 .. Len(programs')
    BY <1>6, <1>11
  <2> QED BY <1>13, <2>1 DEF SigIInv
<1> DEFINE P == Pos(k)
           t == program_types
<1>15. /\ q[1] = 64 /\ q[5] = 105 /\ q[6] = l + 2
       /\ q[l + 8] = 102 /\ q[l + 9] = 12 /\ q[l + 11] = k /\ q[l + 12] = p.type
       /\ q[l + 21] = 103 /\ q[l + 22] = 13 /\ q[l + 35] = 96 /\ q[l + 36] = 9
       /\ q[l + 45] = 103 /\ q[l + 46] = 13 /\ q[l + 59] = 96 /\ q[l + 60] = 9
  BY <1>8 DEF ProgramRead
<1>16. \/ sig_offset = P /\ t = Known(k)
       \/ sig_offset = P + 4 /\ t = Known(k)
       \/ sig_offset = P + (l + 7) /\ t = Known(k)
       \/ sig_offset = P + (l + 20) /\ t = Known(k + 1)
       \/ sig_offset = P + (l + 34) /\ t = Known(k + 1)
       \/ sig_offset = P + (l + 44) /\ t = Known(k + 1)
       \/ sig_offset = P + (l + 58) /\ t = Known(k + 1)
  BY <1>1, <1>4 DEF AtRecord
<1>17. /\ (sig_offset' = P + 4 /\ t' = Known(k)) => AtRecord(k)'
       /\ (sig_offset' = P + (l + 7) /\ t' = Known(k)) => AtRecord(k)'
       /\ (\/ sig_offset' = P + (l + 20) \/ sig_offset' = P + (l + 34)
          \/ sig_offset' = P + (l + 44) \/ sig_offset' = P + (l + 58)) /\ t' = Known(k + 1) => AtRecord(k)'
       /\ (sig_offset' = P + (l + 68) /\ t' = Known(k + 1)) => AtRecord(k + 1)'
  <2>1. (k < Len(programs) /\ p = programs[k + 1])'
    BY <1>3, <1>4, <1>11
  <2>2. (Pos(k) = P)' /\ Pos(k)' = Pos(k) /\ Pos(k + 1)' = Pos(k) + (l + 68)
        /\ Known(k)' = Known(k) /\ Known(k + 1)' = Known(k + 1)
    BY <1>10, <1>13
  <2> QED BY <1>11, <2>1, <2>2, <1>4 DEF AtRecord
<1> HIDE DEF P, l, t
<1>18. CASE sig_offset = P /\ t = Known(k)
  <2>1. sig_offset' = sig_offset + 4 /\ t' = t
    <3>1. sig_offset = P + 0 /\ 0 \in Nat /\ 0 + 5 <= l + 68 /\ q[0 + 1] = 64
      BY <1>9, <1>10, <1>15, <1>18 DEF P
    <3> QED BY <1>14, <3>1 DEF P, t
  <2> QED BY <1>17, <1>18, <2>1
<1>19. CASE sig_offset = P + 4 /\ t = Known(k)
  <2>1. sig_offset' = sig_offset + (1 + (l + 2)) /\ t' = t
    <3>1. 4 \in Nat /\ 4 + 5 <= l + 68 /\ q[4 + 1] = 105 /\ q[4 + 2] = l + 2
      BY <1>9, <1>15
    <3> QED BY <1>14, <1>19, <3>1 DEF P, t
  <2>2. sig_offset' = P + (l + 7)
    BY <1>9, <1>10, <1>19, <2>1 DEF P
  <2> QED BY <1>17, <1>19, <2>1, <2>2
<1>20. CASE sig_offset = P + (l + 7) /\ t = Known(k)
  <2>1. PICK n \in Nat : n = l + 7
    BY <1>9
  <2>2. n + 5 <= l + 68 /\ n + 1 = l + 8 /\ n + 2 = l + 9 /\ n + 4 = l + 11 /\ n + 5 = l + 12
        /\ sig_offset = Pos(k) + n
    BY <1>9, <1>20, <2>1 DEF P
  <2>3. q[n + 1] = 102 /\ q[n + 2] = 12 /\ q[n + 4] = k /\ q[n + 5] = p.type
    BY <1>15, <2>2
  <2>4. k \in DOMAIN program_types
    BY <1>12, <1>20 DEF t
  <2>5. sig_offset' = sig_offset + (1 + 12) /\ t' = [t EXCEPT ![k] = p.type]
    BY <1>14, <2>2, <2>3, <2>4 DEF t
  <2>6. sig_offset' = P + (l + 20)
    BY <1>9, <1>10, <1>20, <2>5 DEF P
  <2>7. t' = Known(k + 1)
    BY <1>12, <1>20, <2>5
  <2> QED BY <1>17, <2>6, <2>7
<1>21. CASE sig_offset = P + (l + 20) /\ t = Known(k + 1)
  <2>1. PICK n \in Nat : n = l + 20
    BY <1>9
  <2>2. n + 5 <= l + 68 /\ n + 1 = l + 21 /\ n + 2 = l + 22 /\ sig_offset = Pos(k) + n
    BY <1>9, <1>21, <2>1 DEF P
  <2>3. q[n + 1] = 103 /\ q[n + 2] = 13
    BY <1>15, <2>2
  <2>4. sig_offset' = sig_offset + (1 + 13) /\ t' = t
    BY <1>14, <2>2, <2>3 DEF t
  <2>5. sig_offset' = P + (l + 34)
    BY <1>9, <1>10, <1>21, <2>4 DEF P
  <2> QED BY <1>17, <1>21, <2>4, <2>5
<1>22. CASE sig_offset = P + (l + 34) /\ t = Known(k + 1)
  <2>1. PICK n \in Nat : n = l + 34
    BY <1>9
  <2>2. n + 5 <= l + 68 /\ n + 1 = l + 35 /\ n + 2 = l + 36 /\ sig_offset = Pos(k) + n
    BY <1>9, <1>22, <2>1 DEF P
  <2>3. q[n + 1] = 96 /\ q[n + 2] = 9
    BY <1>15, <2>2
  <2>4. sig_offset' = sig_offset + (1 + 9) /\ t' = t
    BY <1>14, <2>2, <2>3 DEF t
  <2>5. sig_offset' = P + (l + 44)
    BY <1>9, <1>10, <1>22, <2>4 DEF P
  <2> QED BY <1>17, <1>22, <2>4, <2>5
<1>23. CASE sig_offset = P + (l + 44) /\ t = Known(k + 1)
  <2>1. PICK n \in Nat : n = l + 44
    BY <1>9
  <2>2. n + 5 <= l + 68 /\ n + 1 = l + 45 /\ n + 2 = l + 46 /\ sig_offset = Pos(k) + n
    BY <1>9, <1>23, <2>1 DEF P
  <2>3. q[n + 1] = 103 /\ q[n + 2] = 13
    BY <1>15, <2>2
  <2>4. sig_offset' = sig_offset + (1 + 13) /\ t' = t
    BY <1>14, <2>2, <2>3 DEF t
  <2>5. sig_offset' = P + (l + 58)
    BY <1>9, <1>10, <1>23, <2>4 DEF P
  <2> QED BY <1>17, <1>23, <2>4, <2>5
<1>24. CASE sig_offset = P + (l + 58) /\ t = Known(k + 1)
  <2>1. PICK n \in Nat : n = l + 58
    BY <1>9
  <2>2. n + 5 <= l + 68 /\ n + 1 = l + 59 /\ n + 2 = l + 60 /\ sig_offset = Pos(k) + n
    BY <1>9, <1>24, <2>1 DEF P
  <2>3. q[n + 1] = 96 /\ q[n + 2] = 9
    BY <1>15, <2>2
  <2>4. sig_offset' = sig_offset + (1 + 9) /\ t' = t
    BY <1>14, <2>2, <2>3 DEF t
  <2>5. sig_offset' = P + (l + 68)
    BY <1>9, <1>10, <1>24, <2>4 DEF P
  <2> QED BY <1>17, <1>24, <2>4, <2>5
<1> QED BY <1>16, <1>18, <1>19, <1>20, <1>21, <1>22, <1>23, <1>24

\* No step of layer 2 breaks the invariant.
LEMMA SigStep == ASSUME SigIInv, [Layer2Next]_allvars PROVE SigIInv'
<1>1. CASE UNCHANGED sigvars
  <2>1. programs' = programs /\ sig_offset' = sig_offset /\ program_types' = program_types
    BY <1>1 DEF sigvars
  <2>2. SigTyped' /\ \A k : Pos(k)' = Pos(k) /\ Known(k)' = Known(k)
    BY <2>1 DEF SigIInv, SigTyped, Pos, Known, SigPrograms
  <2>3. PICK k \in 0 .. Len(programs) : AtRecord(k)
    BY DEF SigIInv
  <2>4. AtRecord(k)' /\ k \in 0 .. Len(programs')
    BY <2>1, <2>2, <2>3 DEF AtRecord
  <2> QED BY <2>2, <2>4 DEF SigIInv
<1> QED BY <1>1, ReadSigIInv DEF Layer2Next, Audio, SpreadByte, Hdlc, Written, ReadRecord, Returned, allvars

\* Offsets within programs are before the guide's end, where all types are known.
LEMMA SigReadFollows == SigIInv => SigRead
<1> SUFFICES ASSUME SigIInv PROVE Guide!SigRead
  BY DEF SigRead
<1>1. PICK k \in 0 .. Len(programs) : AtRecord(k)
  BY DEF SigIInv
<1>2. SigTyped
  BY DEF SigIInv
<1>3. Len(programs) \in Nat /\ DOMAIN programs = 1 .. Len(programs) /\ Len(Guide!Sig) \in Nat
      /\ Pos(Len(programs)) = Len(Guide!Sig)
  BY <1>2, ProgramsFacts, PosEnds, SigFacts DEF SigTyped
<1>4. CASE k = Len(programs)
  <2>1. sig_offset = Len(Guide!Sig) /\ program_types = Known(Len(programs))
    BY <1>1, <1>3, <1>4 DEF AtRecord
  <2>2. ASSUME NEW id \in 0 .. 7 PROVE id < Len(programs) <=> id + 1 \in DOMAIN programs
    BY <1>3
  <2>3. Known(Len(programs)) = [id \in 0 .. 7 |-> IF id + 1 \in DOMAIN programs THEN programs[id + 1].type ELSE 0]
    BY <2>2 DEF Known
  <2> QED BY <1>3, <2>1, <2>3 DEF Guide!SigRead
<1>5. CASE k # Len(programs)
  <2>1. k \in Nat /\ k < Len(programs)
    <3>1. Len(programs) \in Nat
      BY <1>3
    <3> QED BY <1>5, <3>1
  <2>2. PICK p : p = programs[k + 1]
    OBVIOUS
  <2>3. PICK q : q = Guide!Program(k, p)
    OBVIOUS
  <2>4. Pos(k) \in Nat /\ Pos(k + 1) = Pos(k) + (Len(p.name) + 68) /\ Pos(k + 1) <= Len(Guide!Sig)
    BY <1>2, <2>1, <2>2, <2>3, PosFacts
  <2>5. p.name \in ShortNames
    <3>1. k + 1 \in 1 .. Len(programs)
      BY <2>1
    <3> QED BY <1>2, <2>2, <3>1, ProgramsFacts
  <2> DEFINE l == Len(p.name)
  <2>6. l \in Nat
    BY <2>5 DEF ShortNames
  <2>7. \/ sig_offset = Pos(k)
        \/ sig_offset = Pos(k) + 4 \/ sig_offset = Pos(k) + (l + 7)
        \/ sig_offset = Pos(k) + (l + 20) \/ sig_offset = Pos(k) + (l + 34)
        \/ sig_offset = Pos(k) + (l + 44) \/ sig_offset = Pos(k) + (l + 58)
    BY <1>1, <2>2 DEF AtRecord
  <2> HIDE DEF l
  <2>8. sig_offset < Len(Guide!Sig)
    BY <1>3, <2>4, <2>6, <2>7, SMTT(30) DEF l
  <2>9. sig_offset <= Len(Guide!Sig) /\ sig_offset # Len(Guide!Sig)
    <3>1. sig_offset \in Nat
      BY <2>4, <2>6, <2>7
    <3> QED BY <1>3, <2>8, <3>1
  <2> QED BY <2>9 DEF Guide!SigRead
<1> QED BY <1>4, <1>5

(***************************************************************************)
(* decode_sig goes from record to record of the guide generate_sig wrote,  *)
(* never into one, and learns the type of every program, for any programs, *)
(* names and types.                                                        *)
(***************************************************************************)
THEOREM GuideAlwaysRead == Layer2Spec => []SigRead
<1>1. SigIInv /\ [Layer2Next]_allvars => SigIInv'
  BY SigStep
<1> QED BY <1>1, InitSigIInv, SigReadFollows, PTL DEF Layer2Spec
-------------------------------------------------------------------------------
\* A size that leaves room for the header of 24, 23 or 22 bits between whole
\* bytes, and for as many bytes of payload as there are header bits.
SizesFit == \A s \in Sizes : s % 8 \in {0, 6, 7} /\ s >= 312

\* What the inner loop of header_spread has after n payload bits: each of the header's
\* bits stands where it is due, and none is overdue.
Laid(at, n) ==
    /\ at \in [out : Nat, pci : Nat]
    /\ at.out = n + at.pci /\ at.pci <= Spread!header_bits
    /\ at.pci > 0 => at.out > Spread!n_start + (at.pci - 1) * (Spread!n_offset + 1)
    /\ at.pci < Spread!header_bits => at.out <= Spread!n_start + at.pci * (Spread!n_offset + 1)

SpreadIInv ==
    /\ size \in Sizes
    /\ i \in 0 .. Spread!payload_bytes
    /\ Laid([out |-> out_off, pci |-> pci_off], 8 * i)

\* The header ends before the payload does.
LEMMA SizeFacts ==
    ASSUME SizesFit, size \in Sizes
    PROVE  /\ size \in Nat /\ Spread!header_bits \in 22 .. 24
           /\ Spread!payload_bytes \in Nat /\ 8 * Spread!payload_bytes = size - Spread!header_bits
           /\ Spread!n_start \in Nat /\ Spread!n_offset + 1 \in Nat /\ Spread!n_offset + 1 >= 8
           /\ Spread!n_offset \in Int
           /\ Spread!n_start + (Spread!header_bits - 1) * Spread!n_offset < size - Spread!header_bits
<1>1. size \in Nat /\ size % 8 \in {0, 6, 7} /\ size >= 312
  BY SizesAssumption DEF SizesFit
<1> DEFINE q == size \div 8
<1>2. q \in Nat /\ size = 8 * q + (size % 8)
  BY <1>1
<1> DEFINE c == (size - 120 + 7) \div 8
<1>3. CASE size % 8 = 0
  <2>1. Spread!header_bits = 24
    BY <1>3 DEF Spread!header_bits
  <2>2. 8 * Spread!payload_bytes = size - 24 /\ Spread!payload_bytes \in Nat
    BY <1>1, <1>3 DEF Spread!payload_bytes
  <2>3. CASE size >= 72000
    <3>1. Spread!n_offset = 1247
      BY <1>3, <2>3 DEF Spread!n_offset, Spread!Long
    <3>2. Spread!n_start \in Nat /\ Spread!n_start = size - 30000
      BY <1>1, <1>3, <2>3 DEF Spread!n_start, Spread!Long
    <3> QED BY <1>1, <2>1, <2>2, <3>1, <3>2
  <2>4. CASE ~ (size >= 72000)
    <3>1. Spread!n_offset = 8 * (c \div 24) - 1 /\ Spread!n_start = 120
      BY <2>1, <2>4 DEF Spread!n_offset, Spread!n_start, Spread!Long
    <3>2. c \in Nat /\ 8 * c = size - 120 /\ c >= 24
      BY <1>1, <1>3
    <3> HIDE DEF c
    <3>3. c \div 24 \in Nat /\ c \div 24 >= 1 /\ 24 * (c \div 24) <= c
      BY <3>2
    <3> QED BY <1>1, <2>1, <2>2, <3>1, <3>2, <3>3
  <2> QED BY <2>3, <2>4
<1>4. CASE size % 8 = 7
  <2>1. Spread!header_bits = 23
    BY <1>4 DEF Spread!header_bits
  <2>2. 8 * Spread!payload_bytes = size - 23 /\ Spread!payload_bytes \in Nat
    BY <1>1, <1>4 DEF Spread!payload_bytes
  <2>3. CASE size >= 72000
    <3>1. Spread!n_offset = 1303
      BY <1>4, <2>3 DEF Spread!n_offset, Spread!Long
    <3>2. Spread!n_start \in Nat /\ Spread!n_start = size - 30000 + 1
      BY <1>1, <1>4, <2>3 DEF Spread!n_start, Spread!Long
    <3> QED BY <1>1, <2>1, <2>2, <3>1, <3>2
  <2>4. CASE ~ (size >= 72000)
    <3>1. Spread!n_offset = 8 * (c \div 23) - 1 /\ Spread!n_start = 120
      BY <2>1, <2>4 DEF Spread!n_offset, Spread!n_start, Spread!Long
    <3>2. c \in Nat /\ 8 * c = size - 120 + 1 /\ c >= 24
      BY <1>1, <1>4
    <3> HIDE DEF c
    <3>3. c \div 23 \in Nat /\ c \div 23 >= 1 /\ 23 * (c \div 23) <= c
      BY <3>2
    <3> QED BY <1>1, <2>1, <2>2, <3>1, <3>2, <3>3
  <2> QED BY <2>3, <2>4
<1>5. CASE size % 8 = 6
  <2>1. Spread!header_bits = 22
    BY <1>5 DEF Spread!header_bits
  <2>2. 8 * Spread!payload_bytes = size - 22 /\ Spread!payload_bytes \in Nat
    BY <1>1, <1>5 DEF Spread!payload_bytes
  <2>3. CASE size >= 72000
    <3>1. Spread!n_offset = 1359
      BY <1>5, <2>3 DEF Spread!n_offset, Spread!Long
    <3>2. Spread!n_start \in Nat /\ Spread!n_start = size - 30000 + 2
      BY <1>1, <1>5, <2>3 DEF Spread!n_start, Spread!Long
    <3> QED BY <1>1, <2>1, <2>2, <3>1, <3>2
  <2>4. CASE ~ (size >= 72000)
    <3>1. Spread!n_offset = 8 * (c \div 22) - 1 /\ Spread!n_start = 120
      BY <2>1, <2>4 DEF Spread!n_offset, Spread!n_start, Spread!Long
    <3>2. c \in Nat /\ 8 * c = size - 120 + 2 /\ c >= 24
      BY <1>1, <1>5
    <3> HIDE DEF c
    <3>3. c \div 22 \in Nat /\ c \div 22 >= 1 /\ 22 * (c \div 22) <= c
      BY <3>2
    <3> QED BY <1>1, <2>1, <2>2, <3>1, <3>2, <3>3
  <2> QED BY <2>3, <2>4
<1> QED BY <1>1, <1>3, <1>4, <1>5

\* One payload bit more, with the header bit that may be due before it.
LEMMA LaidBit ==
    ASSUME SizesFit, size \in Sizes, NEW at, NEW n \in Nat, Laid(at, n)
    PROVE  Laid(Spread!PayloadBit(at), n + 1)
<1> DEFINE hb == Spread!header_bits
           st == Spread!n_start
           N  == Spread!n_offset + 1
<1>1. hb \in Nat /\ st \in Nat /\ N \in Nat /\ N >= 8
  BY SizeFacts
<1>2. /\ at.out \in Nat /\ at.pci \in Nat /\ at = [out |-> at.out, pci |-> at.pci]
      /\ at.out = n + at.pci /\ at.pci <= hb
      /\ at.pci > 0 => at.out > st + (at.pci - 1) * N
      /\ at.pci < hb => at.out <= st + at.pci * N
  BY DEF Laid
<1>3. Spread!HeaderDue(at) <=> at.out >= st /\ at.pci < hb /\ (at.out - st) % N = 0
  BY DEF Spread!HeaderDue
<1> HIDE DEF hb, st, N
<1>4. (at.pci - 1) * N = at.pci * N - N /\ at.pci * N \in Nat /\ (at.pci + 1 - 1) * N = at.pci * N
      /\ (at.pci + 1) * N = at.pci * N + N
  BY <1>1, <1>2
<1>5. CASE Spread!HeaderDue(at)
  <2>1. Spread!PayloadBit(at) = [out |-> at.out + 2, pci |-> at.pci + 1]
    BY <1>5 DEF Spread!PayloadBit
  <2>2. at.out = st + at.pci * N
    <3> DEFINE d == at.out - st
               k == d \div N
    <3>1. d \in Nat /\ d % N = 0 /\ at.pci < hb
      BY <1>1, <1>2, <1>3, <1>5
    <3>2. k \in Int /\ d = N * k + (d % N)
      <4> HIDE DEF d
      <4>1. d \in Int /\ N \in Nat \ {0}
        BY <1>1, <3>1
      <4> QED BY <4>1, DivMod
    <3> HIDE DEF k
    <3>3. d = N * k
      BY <1>1, <3>1, <3>2
    <3>4. d <= at.pci * N
      BY <1>1, <1>2, <1>4, <3>1
    <3>5. at.pci > 0 => d > at.pci * N - N
      BY <1>1, <1>2, <1>4
    <3>6. ~ (k < at.pci)
      <4> SUFFICES ASSUME k + 1 <= at.pci PROVE FALSE
        BY <1>2, <3>2
      <4>1. k >= 0
        <5> SUFFICES ASSUME k <= -1 PROVE FALSE
          BY <3>2
        <5>1. N * k <= N * (-1)
          BY <1>1, <3>2
        <5> QED BY <1>1, <3>1, <3>3, <5>1
      <4>2. N * (k + 1) <= N * at.pci
        BY <1>1, <1>2, <3>2
      <4>3. N * (k + 1) = N * k + N /\ N * at.pci = at.pci * N
        BY <1>1, <1>2, <3>2
      <4>4. at.pci > 0
        BY <4>1, <3>2, <1>2
      <4> HIDE DEF d
      <4> QED BY <1>1, <1>4, <3>1, <3>3, <3>5, <4>2, <4>3, <4>4
    <3>7. ~ (k > at.pci)
      <4> SUFFICES ASSUME k >= at.pci + 1 PROVE FALSE
        BY <1>2, <3>2
      <4>1. N * k >= N * (at.pci + 1)
        <5> DEFINE e == k - (at.pci + 1)
        <5>1. e \in Nat /\ k = at.pci + 1 + e
          BY <1>2, <3>2
        <5> HIDE DEF e
        <5>2. N * k = N * (at.pci + 1) + N * e /\ N * e \in Nat
          BY <1>1, <1>2, <5>1
        <5> QED BY <1>1, <1>2, <5>2
      <4>2. N * (at.pci + 1) = at.pci * N + N
        BY <1>1, <1>2
      <4> HIDE DEF d
      <4> QED BY <1>1, <1>4, <3>1, <3>3, <3>4, <4>1, <4>2
    <3>8. k = at.pci
      BY <1>2, <3>2, <3>6, <3>7
    <3> QED BY <1>1, <1>2, <3>3, <3>8
  <2>3. at.pci < hb
    BY <1>3, <1>5
  <2> DEFINE b == [out |-> at.out + 2, pci |-> at.pci + 1]
  <2>4. b \in [out : Nat, pci : Nat] /\ b.out = at.out + 2 /\ b.pci = at.pci + 1
    BY <1>2
  <2> HIDE DEF b
  <2>5. b.out = (n + 1) + b.pci /\ b.pci <= hb
    BY <1>1, <1>2, <2>3, <2>4
  <2>6. b.out > st + (b.pci - 1) * N
    BY <1>1, <1>2, <1>4, <2>2, <2>4
  <2>7. b.out <= st + b.pci * N
    BY <1>1, <1>2, <1>4, <2>2, <2>4
  <2> QED BY <2>1, <2>4, <2>5, <2>6, <2>7 DEF Laid, b, hb, st, N
<1>6. CASE ~ Spread!HeaderDue(at)
  <2>1. Spread!PayloadBit(at) = [out |-> at.out + 1, pci |-> at.pci]
    BY <1>2, <1>6 DEF Spread!PayloadBit
  <2>2. at.pci < hb => at.out # st + at.pci * N
    <3> SUFFICES ASSUME at.pci < hb, at.out = st + at.pci * N PROVE FALSE
      OBVIOUS
    <3>1. at.out >= st /\ at.out - st = N * at.pci + 0
      BY <1>1, <1>2, <1>4
    <3>2. (N * at.pci + 0) % N = 0
      <4>1. 0 \in 0 .. N - 1 /\ N \in Nat \ {0} /\ at.pci \in Int
        BY <1>1, <1>2
      <4> QED BY <4>1, ModUnique
    <3> QED BY <1>3, <1>6, <3>1, <3>2
  <2> DEFINE b == [out |-> at.out + 1, pci |-> at.pci]
  <2>3. b \in [out : Nat, pci : Nat] /\ b.out = at.out + 1 /\ b.pci = at.pci
    BY <1>2
  <2> HIDE DEF b
  <2>4. b.out = (n + 1) + b.pci /\ b.pci <= hb
    BY <1>1, <1>2, <2>3
  <2>5. b.pci > 0 => b.out > st + (b.pci - 1) * N
    BY <1>1, <1>2, <1>4, <2>3
  <2>6. b.pci < hb => b.out <= st + b.pci * N
    <3>1. b.pci * N = at.pci * N
      BY <2>3
    <3>2. b.pci < hb => at.out < st + at.pci * N
      BY <1>1, <1>2, <1>4, <2>2, <2>3
    <3> QED BY <1>1, <1>2, <1>4, <2>3, <3>1, <3>2
  <2> QED BY <2>1, <2>3, <2>4, <2>5, <2>6 DEF Laid, b, hb, st, N
<1> QED BY <1>5, <1>6

\* What FoldLeft is defined by, for the bits of a byte: h[S] is the place after the
\* bits in S.
LaidOut(h, base, n) ==
    h = [S \in SUBSET (1 .. n) |-> IF S = {} THEN base ELSE Spread!PayloadBit(h[S \ {Max(S)}])]

LEMMA LaidOutExists ==
    ASSUME NEW base, NEW n \in Nat
    PROVE  \E h : LaidOut(h, base, n)
<1> DEFINE N == {k \in Nat : \E h : LaidOut(h, base, k)}
<1>1. 0 \in N
  <2> DEFINE h == [S \in SUBSET (1 .. 0) |-> base]
  <2>1. \A S \in SUBSET (1 .. 0) : S = {}
    OBVIOUS
  <2>2. LaidOut(h, base, 0)
    BY <2>1 DEF LaidOut
  <2> QED BY <2>2
<1>2. ASSUME NEW k \in Nat, k \in N PROVE k + 1 \in N
  <2>1. PICK h : LaidOut(h, base, k)
    BY <1>2
  <2> DEFINE g == [S \in SUBSET (1 .. k + 1) |->
                      IF k + 1 \in S THEN Spread!PayloadBit(h[S \ {k + 1}]) ELSE h[S]]
  <2>2. ASSUME NEW S \in SUBSET (1 .. k + 1)
        PROVE  g[S] = IF S = {} THEN base ELSE Spread!PayloadBit(g[S \ {Max(S)}])
    <3>1. CASE k + 1 \in S
      <4>1. Max(S) = k + 1 /\ S \ {k + 1} \in SUBSET (1 .. k)
        BY <3>1, MaxOfInterval
      <4>2. S \ {k + 1} \in SUBSET (1 .. k + 1) /\ k + 1 \notin S \ {k + 1} /\ S # {}
        BY <3>1
      <4>3. g[S \ {k + 1}] = h[S \ {k + 1}]
        BY <4>2
      <4> QED BY <3>1, <4>1, <4>2, <4>3
    <3>2. CASE k + 1 \notin S
      <4>1. S \in SUBSET (1 .. k)
        BY <3>2
      <4>2. h[S] = IF S = {} THEN base ELSE Spread!PayloadBit(h[S \ {Max(S)}])
        BY <2>1, <4>1 DEF LaidOut
      <4>3. S \ {Max(S)} \in SUBSET (1 .. k + 1) /\ k + 1 \notin S \ {Max(S)}
        BY <3>2
      <4>4. g[S \ {Max(S)}] = h[S \ {Max(S)}] /\ g[S] = h[S]
        BY <3>2, <4>3
      <4> QED BY <4>2, <4>4
    <3> QED BY <3>1, <3>2
  <2>3. LaidOut(g, base, k + 1)
    <3> HIDE DEF g
    <3>1. DOMAIN g = SUBSET (1 .. k + 1) /\ g = [S \in DOMAIN g |-> g[S]]
      BY DEF g
    <3> QED BY <2>2, <3>1 DEF LaidOut
  <2> QED BY <2>3
<1> HIDE DEF N
<1>3. Nat \subseteq N
  BY <1>1, <1>2, SetInduction
<1> QED BY <1>3 DEF N

\* The eight bits of a byte.
ByteLaid(at) == FoldLeft(LAMBDA a, j : Spread!PayloadBit(a), at, [j \in 1 .. 8 |-> j])

LEMMA LaidByte ==
    ASSUME SizesFit, size \in Sizes, NEW at, NEW n \in Nat, Laid(at, n)
    PROVE  Laid(ByteLaid(at), n + 8)
<1> DEFINE h == CHOOSE h : LaidOut(h, at, 8)
<1>1. LaidOut(h, at, 8)
  <2>1. 8 \in Nat
    OBVIOUS
  <2> QED BY <2>1, LaidOutExists
<1>2. ByteLaid(at) = h[1 .. 8]
  <2>1. DOMAIN [j \in 1 .. 8 |-> j] = 1 .. 8
    OBVIOUS
  <2> QED BY <1>1, <2>1 DEF ByteLaid, FoldLeft, MapThenFoldSet, LaidOut
<1> HIDE DEF h
<1> DEFINE N == {k \in Nat : k <= 8 => Laid(h[1 .. k], n + k)}
<1>3. 0 \in N
  <2>1. 1 .. 0 = {} /\ {} \in SUBSET (1 .. 8) /\ n + 0 = n
    OBVIOUS
  <2>2. h[{}] = at
    BY <1>1, <2>1 DEF LaidOut
  <2> QED BY <2>1, <2>2
<1>4. ASSUME NEW k \in Nat, k \in N PROVE k + 1 \in N
  <2> SUFFICES ASSUME k + 1 <= 8 PROVE Laid(h[1 .. k + 1], n + (k + 1))
    OBVIOUS
  <2>1. 1 .. k + 1 \in SUBSET (1 .. 8) /\ k + 1 \in 1 .. k + 1 /\ 1 .. k + 1 # {}
    OBVIOUS
  <2>2. Max(1 .. k + 1) = k + 1
    <3>1. 1 .. k + 1 \in SUBSET (1 .. k + 1)
      OBVIOUS
    <3> QED BY <2>1, <3>1, MaxOfInterval
  <2>3. (1 .. k + 1) \ {k + 1} = 1 .. k
    OBVIOUS
  <2>4. h[1 .. k + 1] = Spread!PayloadBit(h[1 .. k])
    BY <1>1, <2>1, <2>2, <2>3 DEF LaidOut
  <2>5. Laid(h[1 .. k], n + k) /\ n + k \in Nat /\ n + (k + 1) = n + k + 1
    BY <1>4
  <2>6. Laid(Spread!PayloadBit(h[1 .. k]), n + k + 1)
    BY <2>5, LaidBit
  <2> QED BY <2>4, <2>5, <2>6
<1> HIDE DEF N
<1>5. Nat \subseteq N
  BY <1>3, <1>4, SetInduction
<1>6. 8 \in N
  BY <1>5
<1> QED BY <1>2, <1>6 DEF N

LEMMA InitSpreadIInv == ASSUME SizesFit, Layer2Init PROVE SpreadIInv
<1>1. size \in Sizes /\ i = 0 /\ out_off = 0 /\ pci_off = 0
  BY DEF Layer2Init, Spread!Init
<1>2. /\ Spread!header_bits \in 22 .. 24 /\ Spread!payload_bytes \in Nat /\ Spread!n_start \in Nat
      /\ Spread!n_offset \in Int
  BY <1>1, SizeFacts
<1>3. 0 * (Spread!n_offset + 1) = 0
  BY <1>2
<1>4. Laid([out |-> 0, pci |-> 0], 0)
  BY <1>2, <1>3 DEF Laid
<1>5. 8 * i = 0
  BY <1>1
<1> QED BY <1>1, <1>2, <1>4, <1>5 DEF SpreadIInv

LEMMA SpreadStep == ASSUME SizesFit, SpreadIInv, [Layer2Next]_allvars PROVE SpreadIInv'
<1>1. CASE Spread!SpreadByte
  <2> DEFINE was == [out |-> out_off, pci |-> pci_off]
             is  == ByteLaid(was)
  <2>1. /\ i < Spread!payload_bytes /\ i' = i + 1 /\ size' = size
        /\ out_off' = is.out /\ pci_off' = is.pci
    BY <1>1 DEF Spread!SpreadByte, ByteLaid, FoldLeft, MapThenFoldSet, Spread!FoldLeft, Spread!MapThenFoldSet, Spread!Max, Max
  <2>2. size \in Sizes /\ i \in 0 .. Spread!payload_bytes /\ Spread!payload_bytes \in Nat /\ Laid(was, 8 * i)
    BY SizeFacts DEF SpreadIInv
  <2>3. 8 * i \in Nat /\ 8 * (i + 1) = 8 * i + 8
    BY <2>2
  <2>4. Laid(is, 8 * i + 8)
    BY <2>2, <2>3, LaidByte
  <2> HIDE DEF was, is
  <2>5. [out |-> is.out, pci |-> is.pci] = is
    BY <2>4 DEF Laid
  <2>6. Laid([out |-> out_off', pci |-> pci_off'], 8 * i')
    BY <2>1, <2>3, <2>4, <2>5
  <2>7. /\ Spread!payload_bytes' = Spread!payload_bytes /\ Spread!header_bits' = Spread!header_bits
        /\ Spread!n_start' = Spread!n_start /\ Spread!n_offset' = Spread!n_offset
    BY <2>1 DEF Spread!payload_bytes, Spread!header_bits, Spread!n_start, Spread!n_offset, Spread!Long
  <2>8. Laid([out |-> out_off, pci |-> pci_off], 8 * i)'
    BY <2>6, <2>7 DEF Laid
  <2>9. i' \in 0 .. Spread!payload_bytes'
    BY <2>1, <2>2, <2>7
  <2> QED BY <2>1, <2>2, <2>8, <2>9 DEF SpreadIInv
<1>2. CASE UNCHANGED <<size, i, out_off, pci_off>>
  BY <1>2 DEF SpreadIInv, Laid, Spread!payload_bytes, Spread!header_bits, Spread!n_start, Spread!n_offset, Spread!Long
<1> QED BY <1>1, <1>2 DEF Layer2Next, Audio, SpreadByte, Hdlc, Written, ReadRecord, Returned, allvars, spreadvars

LEMMA FilledFollows == ASSUME SizesFit, SpreadIInv PROVE PduFilled
<1> DEFINE hb == Spread!header_bits
           st == Spread!n_start
           off == Spread!n_offset
           pb == Spread!payload_bytes
<1>1. /\ size \in Nat /\ hb \in 22 .. 24 /\ pb \in Nat /\ 8 * pb = size - hb
      /\ st \in Nat /\ off \in Int /\ off >= 7 /\ st + (hb - 1) * off < size - hb
  BY SizeFacts DEF SpreadIInv
<1>2. i \in 0 .. pb
  BY DEF SpreadIInv
<1>3. /\ out_off \in Nat /\ pci_off \in Nat /\ out_off = 8 * i + pci_off /\ pci_off <= hb
      /\ pci_off < hb => out_off <= st + pci_off * (off + 1)
  <2>1. Laid([out |-> out_off, pci |-> pci_off], 8 * i)
    BY DEF SpreadIInv
  <2> QED BY <2>1 DEF Laid
<1> HIDE DEF hb, st, off, pb
<1>4. 8 * i <= 8 * pb
  BY <1>1, <1>2
<1>5. out_off <= size
  BY <1>1, <1>2, <1>3, <1>4
<1>6. ASSUME i = pb PROVE pci_off = hb
  <2> SUFFICES ASSUME pci_off < hb PROVE FALSE
    BY <1>1, <1>3
  <2>1. pci_off * (off + 1) = pci_off * off + pci_off
    BY <1>1, <1>3
  <2>2. pci_off * off <= (hb - 1) * off
    <3> DEFINE e == hb - 1 - pci_off
    <3>1. e \in Nat /\ hb - 1 = pci_off + e
      BY <1>1, <1>3
    <3> HIDE DEF e
    <3>2. (hb - 1) * off = pci_off * off + e * off /\ e * off \in Nat
      BY <1>1, <1>3, <3>1
    <3> QED BY <1>1, <1>3, <3>2
  <2>3. pci_off * off \in Int /\ (hb - 1) * off \in Int
    BY <1>1, <1>3
  <2> QED BY <1>1, <1>3, <1>6, <2>1, <2>2, <2>3
<1>7. i = pb => out_off = size
  BY <1>1, <1>3, <1>6
<1> QED BY <1>5, <1>6, <1>7 DEF PduFilled, Spread!PduFilled, hb, pb

(***************************************************************************)
(* header_spread fills a PDU of any size to the bit, with the whole header *)
(* in it, not only the sizes of table 5-4: it is enough that the size is 0, *)
(* 7 or 6 modulo 8, as the three lengths of the header want it, and that   *)
(* there is a byte of payload for each header bit behind the first 120.    *)
(***************************************************************************)
THEOREM PduAlwaysFilled == ASSUME SizesFit PROVE Layer2Spec => []PduFilled
<1>1. Layer2Init => SpreadIInv
  BY InitSpreadIInv
<1>2. SpreadIInv /\ [Layer2Next]_allvars => SpreadIInv'
  BY SpreadStep
<1>3. SpreadIInv => PduFilled
  BY FilledFollows
<1> QED BY <1>1, <1>2, <1>3, PTL DEF Layer2Spec
==============================================================================
