------------------------------ MODULE MCSigChild ------------------------------
(* An instance of SigChild for TLC.                                          *)
EXTENDS SigChild
=============================================================================
