------------------------------- MODULE MCCrc16 --------------------------------
(* An instance of Crc16 for TLC, with the register and key of the code: bytes  *)
(* with the highest or the lowest bit set, and up to three of them.            *)
EXTENDS Crc16

OfByte(b) == [j \in 0 .. 7 |-> (b \div 2 ^ j) % 2]
MCMessage(bytes) == [i \in 1 .. Len(bytes) |-> OfByte(bytes[i])]

MCKeyBits == {12, 5, 0}
MCMessages ==
  {MCMessage(bytes) : bytes \in {<<>>, <<0>>, <<128>>, <<49, 50>>, <<255, 0, 26>>}}
=============================================================================
