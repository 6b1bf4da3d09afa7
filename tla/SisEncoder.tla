------------------------------ MODULE SisEncoder ------------------------------
(***************************************************************************)
(* The SIS encoder (lib/sis_encoder_impl.cc): a frame of PIDS blocks per   *)
(* call of work, filled along a schedule that depends on the mode, on the  *)
(* station's name and on whether an emergency alert is set; every item of  *)
(* the schedule goes through its own frames in turn.  Alerts come and go   *)
(* by commands, between two calls of work.                                 *)
(*                                                                         *)
(* block is the block that work writes next; message handlers run while it *)
(* is 0.  A command takes effect with its newline, and command_buffer only *)
(* joins the pieces of a line, so that a command is one step.              *)
(***************************************************************************)
EXTENDS SisFrames, Sequences, FiniteSets

CONSTANTS Modes,        \* {"FM", "AM"}: pids_mode
          ShortNames,   \* values of use_standard_short_station_name
          Alerts,       \* set_alert commands: [id, cnt, text], cnt control bytes
          LongName, Message, Ussn, Slogan,  \* lengths of the texts
          Services,     \* program_types.size() + data_types.size()
          Parameters,   \* NUM_PARAMETERS
          Clocked,      \* is the clock connected?
          MaxFrames,    \* bound: PIDS frames the clock grants ahead
          MaxUnseen     \* bound: alerts set since a block of one was sent

ASSUME TextsAssumption ==
    LongName \in Nat /\ Message \in Nat /\ Ussn \in Nat /\ Slogan \in Nat
ASSUME AlertsAssumption ==
    \A a \in Alerts : a.id \in Nat \ {0} /\ a.cnt \in Nat /\ a.text \in Nat
\* With no service at all, write_service_information_message divides by zero.
ASSUME CountsAssumption ==
    Services \in Nat \ {0} /\ Parameters \in Nat \ {0} /\ MaxFrames \in Nat /\ MaxUnseen \in Nat
ASSUME SwitchesAssumption ==
    Modes \subseteq {"FM", "AM"} /\ ShortNames \subseteq BOOLEAN /\ Clocked \in BOOLEAN

NoAlert == [id |-> 0, cnt |-> 0, text |-> 0]

Items == {"STATION_ID", "SHORT_STATION_NAME", "LONG_STATION_NAME", "STATION_LOCATION",
          "STATION_MESSAGE", "SERVICE_INFO_MESSAGE", "SIS_PARAMETER_MESSAGE",
          "UNIVERSAL_SHORT_STATION_NAME", "STATION_SLOGAN", "EA_MESSAGE"}

ID == "STATION_ID"
SN == "SHORT_STATION_NAME"
LN == "LONG_STATION_NAME"
LOC == "STATION_LOCATION"
MSG == "STATION_MESSAGE"
SVC == "SERVICE_INFO_MESSAGE"
PAR == "SIS_PARAMETER_MESSAGE"
USSN == "UNIVERSAL_SHORT_STATION_NAME"
SLOGAN == "STATION_SLOGAN"
EA == "EA_MESSAGE"

VARIABLES mode, use_standard_short_station_name,
          blocks_allowed,
          block,                \* the block of the frame written next
          current,              \* for each item, the frame it is at
          emergency_alert, emergency_alert_seq,
          on_air,               \* the items in the last block, with their frames
          unseen,               \* bound: alerts set since a block of one was sent
          heard                 \* external: what a receiver has of an alert

settings == <<mode, use_standard_short_station_name>>
alertvars == <<emergency_alert, emergency_alert_seq>>
vars == <<settings, blocks_allowed, block, current, alertvars, on_air, unseen, heard>>

BlocksPerFrame(m) == IF m = "FM" THEN 16 ELSE 8

(***************************************************************************)
(* The schedules.  A block holds two short payloads or a long one.         *)
(***************************************************************************)
ShortNoEA(m) ==
    IF m = "FM"
    THEN << <<SN, ID>>, <<SVC, SVC>>, <<SN, ID>>, <<SLOGAN>>, <<SN, ID>>, <<SVC, SVC>>, <<SN, ID>>,
            <<LOC, LOC>>, <<MSG>>, <<SN, ID>>, <<SVC, SVC>>, <<LN>>, <<PAR, ID>>, <<MSG>>,
            <<SN, ID>>, <<SVC, SVC>> >>
    ELSE << <<SN, ID>>, <<MSG>>, <<SVC, SN>>, <<PAR, LOC>>, <<SN, ID>>, <<SLOGAN>>, <<SVC, SN>>,
            <<LN>> >>

LongNoEA(m) ==
    IF m = "FM"
    THEN << <<USSN>>, <<SVC, SVC>>, <<SLOGAN>>, <<PAR, ID>>, <<USSN>>, <<SVC, SVC>>, <<LOC, LOC>>,
            <<PAR, ID>>, <<MSG>>, <<SVC, SVC>>, <<USSN>>, <<SLOGAN>>, <<PAR, ID>>, <<MSG>>,
            <<SVC, SVC>>, <<PAR, ID>> >>
    ELSE << <<USSN>>, <<MSG>>, <<SVC, LOC>>, <<PAR, ID>>, <<SVC, SVC>>, <<SLOGAN>>, <<PAR, ID>>,
            <<SVC, SVC>> >>

ShortEA(m) ==
    IF m = "FM"
    THEN << <<SN, ID>>, <<EA>>, <<EA>>, <<LOC, SVC>>, <<EA>>, <<EA>>, <<PAR, ID>>, <<EA>>,
            <<SVC, SVC>>, <<EA>>, <<EA>>, <<SN, ID>>, <<EA>>, <<EA>>, <<SN, SVC>>, <<EA>> >>
    ELSE << <<SN, ID>>, <<EA>>, <<EA>>, <<LOC, SVC>>, <<EA>>, <<EA>>, <<PAR, ID>>, <<EA>> >>

LongEA(m) ==
    IF m = "FM"
    THEN << <<USSN>>, <<EA>>, <<EA>>, <<LOC, SVC>>, <<EA>>, <<EA>>, <<PAR, ID>>, <<EA>>,
            <<SVC, SVC>>, <<EA>>, <<EA>>, <<PAR, ID>>, <<EA>>, <<EA>>, <<SVC, SVC>>, <<EA>> >>
    ELSE << <<USSN>>, <<EA>>, <<EA>>, <<LOC, SVC>>, <<EA>>, <<EA>>, <<PAR, ID>>, <<EA>> >>

\* Mutant: an alert does not change the schedule.
ScheduleNoAlert == IF use_standard_short_station_name THEN ShortNoEA(mode) ELSE LongNoEA(mode)

\* work picks it when it starts; the alert does not change before it returns.
Schedule ==
    IF emergency_alert = NoAlert
    THEN IF use_standard_short_station_name THEN ShortNoEA(mode) ELSE LongNoEA(mode)
    ELSE IF use_standard_short_station_name THEN ShortEA(mode) ELSE LongEA(mode)

AlertFrames(a) == FrameCount("alert", a.cnt + a.text)

\* How many frames an item goes through before it starts again.
Period(i) ==
    CASE i = LN     -> FrameCount("long_name", LongName)
      [] i = MSG    -> FrameCount("message", Message)
      [] i = USSN   -> FrameCount("ussn", Ussn)
      [] i = SLOGAN -> FrameCount("slogan", Slogan)
      [] i = EA     -> AlertFrames(emergency_alert)
      [] i = LOC    -> 2
      [] i = SVC    -> Services
      [] i = PAR    -> Parameters
      [] OTHER      -> 1

Init == /\ mode \in Modes
        /\ use_standard_short_station_name \in ShortNames
        /\ blocks_allowed = 2 * BlocksPerFrame(mode)
        /\ block = 0
        /\ current = [i \in Items |-> 0]
        /\ emergency_alert = NoAlert
        /\ emergency_alert_seq = 0
        /\ on_air = << >>
        /\ unseen = 0
        /\ heard = [seq |-> 0, ids |-> << >>]

Advance(c, i) == [c EXCEPT ![i] = (c[i] + 1) % Period(i)]
\* Mutant: the second payload of a block starts from the counters before the first.
AfterLast(c, payloads) == [c EXCEPT ![payloads[Len(payloads)]] = 0]

After(c, payloads) == IF Len(payloads) = 1 THEN Advance(c, payloads[1])
                      ELSE Advance(Advance(c, payloads[1]), payloads[2])
Written(c, payloads) ==
    IF Len(payloads) = 1 THEN << <<payloads[1], c[payloads[1]]>> >>
    ELSE << <<payloads[1], c[payloads[1]]>>,
            <<payloads[2], Advance(c, payloads[1])[payloads[2]]>> >>

\* External: a receiver collects the frames of an alert, and starts again when
\* the sequence number changes.  ids[f + 1] is the alert frame f came from, or 0.
Collect(f) ==
    LET blank == [k \in 1 .. AlertFrames(emergency_alert) |-> 0]
        kept  == IF heard.seq # emergency_alert_seq THEN blank
                 ELSE [k \in DOMAIN blank \cup DOMAIN heard.ids |->
                          IF k \in DOMAIN heard.ids THEN heard.ids[k] ELSE 0]
    IN  [seq |-> emergency_alert_seq, ids |-> [kept EXCEPT ![f + 1] = emergency_alert.id]]

\* noutput_items_reduced > 0
MayWrite == block > 0 \/ blocks_allowed >= BlocksPerFrame(mode)

\* work, one block of it.
WriteBlock ==
    LET payloads == Schedule[block + 1]
        last     == block + 1 = BlocksPerFrame(mode)
        alert    == payloads[1] = EA
    IN  /\ MayWrite
        /\ current' = After(current, payloads)
        /\ on_air' = Written(current, payloads)
        /\ block' = IF last THEN 0 ELSE block + 1
        /\ blocks_allowed' = IF last THEN blocks_allowed - BlocksPerFrame(mode) ELSE blocks_allowed
        /\ heard' = IF alert THEN Collect(current[EA]) ELSE heard
        /\ unseen' = IF alert THEN 0 ELSE unseen
        /\ UNCHANGED <<settings, alertvars>>

HandleClock ==
    /\ Clocked
    /\ block = 0
    /\ blocks_allowed < MaxFrames * BlocksPerFrame(mode)
    /\ blocks_allowed' = blocks_allowed + BlocksPerFrame(mode)
    /\ UNCHANGED <<settings, block, current, alertvars, on_air, unseen, heard>>

\* Mutant: the new alert goes on where the old one was.
RestartedNot(c) == c
\* Mutant: the sequence number stays.
NextSeqSame == emergency_alert_seq

\* The new alert begins with its first frame, under a new sequence number.
Restarted(c) == [c EXCEPT ![EA] = 0]
NextSeq == (emergency_alert_seq + 1) % 4

\* handle_command, a complete set_alert line; one that is not accepted does nothing.
SetAlert(a) ==
    /\ block = 0
    /\ unseen < MaxUnseen
    /\ Accepts(a.cnt, a.text)
    /\ emergency_alert' = a
    /\ emergency_alert_seq' = NextSeq
    /\ current' = Restarted(current)
    /\ unseen' = unseen + 1
    /\ UNCHANGED <<settings, blocks_allowed, block, on_air, heard>>

\* handle_command, clear_alert.
ClearAlert ==
    /\ block = 0
    /\ emergency_alert' = NoAlert
    /\ UNCHANGED <<settings, blocks_allowed, block, current, emergency_alert_seq,
                   on_air, unseen, heard>>

Next == \/ WriteBlock
        \/ HandleClock
        \/ \E a \in Alerts : SetAlert(a)
        \/ ClearAlert

Spec == Init /\ [][Next]_vars

\* The L1 encoder reads PIDS blocks as long as it gets them, and ticks for each
\* frame it has read; commands are under no obligation to come.
FairSpec == Spec /\ WF_vars(WriteBlock) /\ SF_vars(HandleClock)
------------------------------------------------------------------------------
TypeOK ==
    /\ mode \in Modes /\ use_standard_short_station_name \in ShortNames
    /\ blocks_allowed \in Nat
    /\ block \in 0 .. BlocksPerFrame(mode) - 1
    /\ block > 0 => blocks_allowed >= BlocksPerFrame(mode)
    /\ current \in [Items -> Nat]
    /\ emergency_alert = NoAlert \/ emergency_alert \in Alerts
    /\ emergency_alert_seq \in 0 .. 3
    /\ unseen \in 0 .. MaxUnseen

(***************************************************************************)
(* An item is never at a frame it does not have, whatever alert replaced   *)
(* the one whose frames were being sent; frame 0 of an alert reads its     *)
(* first three characters, so that it must have them.                      *)
(***************************************************************************)
FrameInRange ==
    \A i \in Items \ (IF emergency_alert = NoAlert THEN {EA} ELSE {}) :
        current[i] < Period(i)

AlertReadable == emergency_alert # NoAlert =>
                     Accepts(emergency_alert.cnt, emergency_alert.text)

(***************************************************************************)
(* A receiver that starts again when the sequence number changes never     *)
(* puts frames of two alerts together, however alerts replace each other.  *)
(* The number has two bits: this needs a block of an alert to be sent      *)
(* before the fourth next one is set.                                      *)
(***************************************************************************)
AlertUnmixed ==
    \A k, l \in DOMAIN heard.ids :
        heard.ids[k] # 0 /\ heard.ids[l] # 0 => heard.ids[k] = heard.ids[l]

Complete(a) == /\ DOMAIN heard.ids = 1 .. AlertFrames(a)
               /\ \A k \in DOMAIN heard.ids : heard.ids[k] = a.id

\* An alert that is left standing is received whole.
AlertReceived ==
    \A a \in Alerts : emergency_alert = a ~> Complete(a) \/ emergency_alert # a

Scheduled(i) == \E b \in DOMAIN Schedule : i \in {Schedule[b][k] : k \in DOMAIN Schedule[b]}
LastFrameOnAir(i) == \E k \in DOMAIN on_air : on_air[k] = <<i, Period(i) - 1>>

(***************************************************************************)
(* Everything on the schedule goes round: an item that stays on it reaches *)
(* its last frame again and again, also after an alert interrupted it.     *)
(***************************************************************************)
ItemsGoRound == \A i \in Items : <>[]Scheduled(i) => []<>LastFrameOnAir(i)

IInv == TypeOK /\ FrameInRange /\ AlertReadable

(* Why AlertUnmixed holds: unseen counts how far the sequence number has     *)
(* gone since the frames in heard, which are the present alert's if it has   *)
(* not moved.                                                                *)
HeardInv ==
    /\ heard.seq \in 0 .. 3
    /\ emergency_alert_seq = (heard.seq + unseen) % 4
    /\ unseen = 0 /\ emergency_alert # NoAlert =>
           \A k \in DOMAIN heard.ids : heard.ids[k] \in {0, emergency_alert.id}
    /\ AlertUnmixed
==============================================================================
