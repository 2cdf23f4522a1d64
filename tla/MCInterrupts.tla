---------------------------- MODULE MCInterrupts ----------------------------
(* The instance of Interrupts that TLC checks.                             *)
EXTENDS Interrupts

MCPrints == { <<Str(<<"x">>), Hex(16)>>, <<Hex(0)>>, <<Str(<<BS>>)>> }
=============================================================================
