---------------------------------- MODULE Sis ----------------------------------
(***************************************************************************)
(* Three views of SIS that share no state: the encoder with its schedules  *)
(* and alerts; one text of it, at every length; and the client that makes  *)
(* the control data of an alert.  A behaviour is of one of them; the       *)
(* others stay at one of their initial states.                             *)
(***************************************************************************)
EXTENDS SisEncoder, SisText

CONSTANTS Digits, MaxLocations    \* of SendAlert

ASSUME DigitsAssumption ==
    /\ Digits \subseteq [first : 0 .. 9, middle : 0 .. 99, last : 0 .. 999]
    /\ MaxLocations \in 0 .. 31

VARIABLES part,
          location_format, count, last, command_bits, seen

Client == INSTANCE SendAlert

clientvars == <<location_format, count, last, command_bits, seen>>

SisInit ==
    /\ Init /\ TextInit /\ Client!Init
    /\ part \in {"encoder", "text", "client"}
    /\ part # "encoder" => mode = "FM" /\ use_standard_short_station_name
    /\ part # "text" => text = "alert" /\ control = 7 /\ length = 7
    /\ part # "client" => location_format = "same"

\* A step of the encoder, and of it alone.
Encoder(A) == part = "encoder" /\ A /\ UNCHANGED <<part, textvars, clientvars>>

TextFrame == part = "text" /\ WriteFrame /\ UNCHANGED <<part, vars, clientvars>>
AddLocation == part = "client" /\ Client!AddLocation /\ UNCHANGED <<part, vars, textvars>>

\* The client has sent its command.
Finished == part = "client" /\ count = MaxLocations /\ UNCHANGED <<part, vars, textvars, clientvars>>

SisNext == \/ Encoder(WriteBlock)
           \/ Encoder(HandleClock)
           \/ \E a \in Alerts : Encoder(SetAlert(a))
           \/ Encoder(ClearAlert)
           \/ TextFrame
           \/ AddLocation
           \/ Finished

SisSpec == /\ SisInit /\ [][SisNext]_<<part, vars, textvars, clientvars>>
           /\ WF_<<part, vars>>(Encoder(WriteBlock)) /\ SF_<<part, vars>>(Encoder(HandleClock))
-------------------------------------------------------------------------------
\* The other properties: see SisEncoder, SisText and SendAlert.

(* As long as it runs, everything on the encoder's schedule goes round.      *)
EncoderGoesRound == part = "encoder" => ItemsGoRound

(* A receiver finds every location of an alert again.                        *)
LocationsRecovered == Client!LocationsRecovered
===============================================================================
