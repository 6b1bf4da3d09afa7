------------------------------- MODULE MCLayer1 -------------------------------
(* All service modes of FM, MA1 and MA3 with and without P3, and every matrix   *)
(* of theirs at its real size.                                                  *)
EXTENDS Layer1
MCModes == {1, 2, 3, 11, 5, 6}
===============================================================================
