--------------------------------- MODULE MCSis ---------------------------------
(* Alerts of 2 and 3 frames, and two that are refused; texts of every length   *)
(* up to two more than the longest that is sent; locations with the same and   *)
(* with other first, middle and last digits.                                   *)
EXTENDS Sis
MCAlerts == {[id |-> 1, cnt |-> 7, text |-> 0], [id |-> 2, cnt |-> 9, text |-> 3],
             [id |-> 3, cnt |-> 8, text |-> 3], [id |-> 4, cnt |-> 63, text |-> 319]}
MCModes == {"FM", "AM"}
MCNames == {TRUE, FALSE}
MCLengths == 0 .. 192
MCAlertTexts == {0, 1, 5, 6, 7} \cup 310 .. 319 \cup 370 .. 375
MCDigits == [first : {0, 1, 9}, middle : {0, 1, 99}, last : {0, 999}]
================================================================================
