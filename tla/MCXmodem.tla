------------------------------ MODULE MCXmodem ------------------------------
(* Instances of XmodemSystem for TLC: short names, and files of a few blocks,*)
(* or of more blocks than there are block numbers.                           *)
EXTENDS XmodemSystem, TLC

CONSTANTS c1, c2, c3

MCNameLen1 == [c \in Clients |-> 1]
MCNameLen == [c \in Clients |-> IF c = c2 THEN 1 ELSE 2]
MCBlocks1 == [c \in Clients |-> 1]
MCSymmetry == Permutations(Clients)
MCBlocks2 == [c \in Clients |-> IF c = c1 THEN 2 ELSE 1]
MCBlocks5 == [c \in Clients |-> 5]
MCBlocks17 == [c \in Clients |-> 17]
=============================================================================
