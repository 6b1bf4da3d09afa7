------------------------------ MODULE MCPrograms ------------------------------
(* Two titles of different length and a LOT number; frames shorter and longer *)
(* than the mean, and more than one of them in a call.                        *)
EXTENDS Programs

MCCommands == {[field |-> "title",  id |-> 1, text |-> 3],
               [field |-> "title",  id |-> 2, text |-> 6],
               [field |-> "lot",    id |-> 3, text |-> 2]}
MCFrameBytes == {1, 4}
===============================================================================
