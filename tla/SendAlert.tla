------------------------------- MODULE SendAlert -------------------------------
(***************************************************************************)
(* apps/send_alert.py makes the control data of an emergency alert.  Its   *)
(* locations are sorted, and one that differs from its predecessor only in *)
(* the first and the last three digits is sent without the digits between. *)
(* The script limits their number, to what the count's five bits can say.  *)
(*                                                                         *)
(* Bits are counted, and the numbers in them kept as numbers: seen is what *)
(* a receiver makes of the last location sent.                             *)
(***************************************************************************)
EXTENDS SisFrames

CONSTANTS Digits,        \* of a location: its first, middle and last ones
          MaxLocations   \* 31

Formats == {"same", "fips", "zip"}

\* The locations of a format: a SAME code has a digit in front of the state's.
Locations(f) == {d.first * 100000 + d.middle * 1000 + d.last :
                   d \in {e \in Digits : f # "same" => e.first = 0}}

VARIABLES location_format,
          count,         \* locations added so far
          last,          \* the last of them
          command_bits,  \* their number
          seen           \* external: the last location, as a receiver reads it

alertvars == <<location_format, count, last, command_bits, seen>>

full_len == IF location_format = "same" THEN 20 ELSE 17
compressed_len == IF location_format = "same" THEN 14 ELSE 10

middle_digits(l) == (l % 100000) \div 1000

compress(l) == ((l \div 100000) * 1000) + (l % 1000)

\* append_int keeps the lower bits of a number.
Kept(n, bits) == n % (2 ^ bits)

\* Mutant: locations of one state are compressed, whatever their first digit.
AlikeState(l) == l \div 100000 = last \div 100000

\* Need l not be sent in full?
Alike(l) == middle_digits(l) = middle_digits(last)

\* External: the digits left out are those of the location before.
Expanded(n) == ((n \div 1000) * 100000) + (middle_digits(seen) * 1000) + (n % 1000)

\* The fields before the locations have 56 bits.
Init == /\ location_format \in Formats
        /\ count = 0 /\ last = 0 /\ seen = 0
        /\ command_bits = 8 + 12 + 8 + 5 + 5 + 9 + 3 + 5 + 1

FirstLocation(l) ==
    /\ count = 0
    /\ command_bits' = command_bits + full_len
    /\ seen' = Kept(l, full_len)

NextLocation(l) ==
    /\ count > 0 /\ l >= last
    /\ IF Alike(l)
       THEN /\ command_bits' = command_bits + 1 + compressed_len
            /\ seen' = Expanded(Kept(compress(l), compressed_len))
       ELSE /\ command_bits' = command_bits + 1 + full_len
            /\ seen' = Kept(l, full_len)

AddLocation ==
    \E l \in Locations(location_format) :
        /\ count < MaxLocations
        /\ FirstLocation(l) \/ NextLocation(l)
        /\ count' = count + 1
        /\ last' = l
        /\ UNCHANGED location_format

\* The command's control bytes: zeros are added until the bits are 8 more than
\* a multiple of 16.
ControlBytes == (command_bits + ((8 - command_bits) % 16)) \div 8

Spec == Init /\ [][AddLocation]_alertvars
------------------------------------------------------------------------------
(***************************************************************************)
(* A receiver finds every location again: one that is shortened lacks      *)
(* nothing but what its predecessor has in the same place, and no number   *)
(* loses digits to the bits it is given.                                   *)
(***************************************************************************)
LocationsRecovered == seen = last

(***************************************************************************)
(* "Can't use more than 31 locations": with up to that many, the SIS       *)
(* encoder accepts the alert, at least if its message is empty.            *)
(***************************************************************************)
ControlAccepted == Accepts(ControlBytes, 0)
==============================================================================
