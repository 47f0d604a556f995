------------------------------- MODULE MCPfact --------------------------------
(* Instances of Pfact for TLC.  Up to 53 the chain has four workers, products *)
(* reach past IntMod = 64, and statuses wrap at ExitMod = 3.                  *)
EXTENDS Pfact

MCNumbers == 0 .. 53
=============================================================================
