------------------------------ MODULE MCSendAlert ------------------------------
(* Locations of the three formats that agree and differ in all their digits.   *)
EXTENDS SendAlert
MCDigits == [first : {0, 1, 9}, middle : {0, 1, 99}, last : {0, 999}]
================================================================================
