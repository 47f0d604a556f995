----------------------------- MODULE MCLineBuffer -----------------------------
(* An instance of LineBuffer for TLC: a buffer of 6 bytes and 7 bytes in all  *)
(* are enough for two lines in one read, for a line that does not fit, for a  *)
(* newline cut in two, and for a connection that finds another one's bytes.   *)
EXTENDS LineBuffer

MCSize == 6
MCMaxBytes == 7
=============================================================================
