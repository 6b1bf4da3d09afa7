------------------------------ MODULE MCAasLoop ------------------------------
(* The SIS encoder and one LOT encoder.                                       *)
EXTENDS AasLoop

MCPorts == {2, 32}
==============================================================================
