------------------------------ MODULE MCPrintk ------------------------------
(* The instance of Printk that TLC checks.                                 *)
EXTENDS Printk

MCConversions == {"c", "s", "o", "p", "x", "X", "d", "i", "u", "n", "%", "y", NUL}
MCQualifiers == { <<>>, <<"l">> }
=============================================================================
