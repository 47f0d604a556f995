-------------------------------- MODULE Crc16 ---------------------------------
(***************************************************************************)
(* a2/crc16.c and a4/crc16.c: two programs for one CRC, which a sender and *)
(* a receiver may each be built with.  They are run side by side on one    *)
(* message, one bit at each step; a2's program runs on a damaged copy of   *)
(* it too, as readstream does.  Bytes and registers are functions from bit *)
(* positions, 0 the lowest, to bits.                                       *)
(***************************************************************************)
EXTENDS Integers, Sequences, FiniteSets

CONSTANTS
  Width,       \* the bits of the register: 16
  KeyBits,     \* the positions of the ones of XMODEM_KEY: {12, 5, 0}
  Messages,    \* the messages the CRC is computed of
  MaxBurst     \* damage is within so many consecutive bits

Bit == {0, 1}
Byte == [0 .. 7 -> Bit]
Register == [0 .. Width - 1 -> Bit]

ASSUME CrcAssumption ==
  /\ Width \in Nat \ {0} /\ Width % 8 = 0
  /\ KeyBits \subseteq 0 .. Width - 1 /\ 0 \in KeyBits
  /\ Messages \subseteq Seq(Byte)
  /\ MaxBurst \in 0 .. Width

VARIABLES
  message,     \* the argument of crc_message
  fed,         \* the bits that were put through the registers
  reg2,        \* the register of a2's program,
  reg4,        \* of a4's,
  next_byte,   \* a4's copy of the byte, shifted at each bit,
  damaged,     \* and the register of a2's program on the damaged copy
  age          \* the bits fed since the first damaged one, 0 if there is none

vars == <<message, fed, reg2, reg4, next_byte, damaged, age>>

Flip(a, b) == (a + b) % 2
Key == [j \in 0 .. Width - 1 |-> IF j \in KeyBits THEN 1 ELSE 0]
Zero == [j \in 0 .. Width - 1 |-> 0]
NullByte == [j \in 0 .. 7 |-> 0]

\* a2: shift, OR the bit in, XOR the key if the bit shifted out was set.
Or(a, b) == IF a = 1 \/ b = 1 THEN 1 ELSE 0
\* Mutant: the bit is ORed in last, over the key.
CrcBit2_OrLast(reg, bit) ==
  [j \in 0 .. Width - 1 |->
     IF j = 0 THEN Or(reg[Width - 1] * Key[0], bit)
     ELSE Flip(reg[j - 1], reg[Width - 1] * Key[j])]

CrcBit2(reg, bit) ==
  LET shifted == [j \in 0 .. Width - 1 |-> IF j = 0 THEN Or(0, bit) ELSE reg[j - 1]]
  IN  IF reg[Width - 1] = 1
      THEN [j \in 0 .. Width - 1 |-> Flip(shifted[j], Key[j])]
      ELSE shifted

\* a4: the top bit is kept before the shift; the bit is XORed in.
CrcBit4(reg, bit) ==
  LET r == [j \in 0 .. Width - 1 |-> IF j = 0 THEN Flip(0, bit) ELSE reg[j - 1]]
      top_bit == reg[Width - 1]
  IN  IF top_bit # 0 THEN [j \in 0 .. Width - 1 |-> Flip(r[j], Key[j])] ELSE r

MessageBits == 8 * Len(message)

\* a2: the bits of each byte from the highest on, and then 16 zeros.
\* Mutant: the lowest bit comes first.
NextBit2_LowFirst ==
  IF fed < MessageBits THEN message[fed \div 8 + 1][fed % 8] ELSE 0

NextBit2 ==
  IF fed < MessageBits THEN message[fed \div 8 + 1][7 - (fed % 8)] ELSE 0
Bits2 == MessageBits + Width

\* a4: each byte, and then two zero bytes, shifted to the left under a mask.
ByteAt(i) == IF i < Len(message) THEN message[i + 1] ELSE NullByte
Shifted(byte) == [j \in 0 .. 7 |-> IF j = 0 THEN 0 ELSE byte[j - 1]]
NextBit4 == next_byte[7]
Bits4_OneByte == 8 * (Len(message) + 1)    \* mutant
Bits4 == 8 * (Len(message) + Width \div 8)

Init ==
  /\ message \in Messages
  /\ fed = 0 /\ reg2 = Zero /\ reg4 = Zero /\ damaged = Zero /\ age = 0
  /\ next_byte = ByteAt(0)

Done == fed >= Bits2 /\ fed >= Bits4

\* Damage flips bits of the message, all within one burst.
MayFlip(flip) ==
  flip = 1 => /\ fed < MessageBits
              /\ IF age = 0 THEN MaxBurst > 0 ELSE age < MaxBurst

ProcessBit(flip) ==
  /\ ~Done /\ MayFlip(flip)
  /\ fed' = fed + 1
  /\ reg2' = IF fed < Bits2 THEN CrcBit2(reg2, NextBit2) ELSE reg2
  /\ damaged' = IF fed < Bits2 THEN CrcBit2(damaged, Flip(NextBit2, flip)) ELSE damaged
  /\ reg4' = IF fed < Bits4 THEN CrcBit4(reg4, NextBit4) ELSE reg4
  /\ next_byte' = IF fed' % 8 = 0 THEN ByteAt(fed' \div 8) ELSE Shifted(next_byte)
  /\ age' = IF age = 0 THEN flip ELSE age + 1
  /\ UNCHANGED message

Next == \E flip \in Bit : ProcessBit(flip)

Spec == Init /\ [][Next]_vars

-----------------------------------------------------------------------------
\* The two programs agree on every prefix of a message, and on its CRC: a file
\* sent with one of them can be received with the other.
SameRegisters == reg2 = reg4

\* A polynomial over the bits is the set of its exponents.  Power[n] is x^n modulo
\* the key's polynomial, by definition: x^Width is what the key says.
Power[n \in Nat] ==
  IF n < Width THEN {n}
  ELSE LET p == {j + 1 : j \in Power[n - 1]}
       IN  IF Width \in p THEN (p \ (KeyBits \cup {Width})) \cup (KeyBits \ p) ELSE p

OnesFed ==
  {i \in 0 .. fed - 1 : i < MessageBits /\ message[i \div 8 + 1][7 - (i % 8)] = 1}

\* The register is the remainder of the message, as a polynomial, modulo the
\* key: the sum of the powers of its ones.  At the end the message was moved up
\* by x^16.
IsRemainder ==
  LET powers == {<<i, Power[fed - 1 - i]>> : i \in OnesFed}
  IN  \A j \in 0 .. Width - 1 :
        reg2[j] = Cardinality({p \in powers : j \in p[2]}) % 2

\* A message in which a burst of at most 16 bits was damaged has another CRC,
\* so that readstream and check_block refuse it.
DetectsBursts == Done /\ age > 0 => damaged # reg2
=============================================================================
