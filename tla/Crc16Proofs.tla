----------------------------- MODULE Crc16Proofs ------------------------------
(***************************************************************************)
(* Crc16 for every message, every width of whole bytes and every key with  *)
(* its lowest bit set: the two programs agree, a burst of damage no longer *)
(* than the register is always seen, and the register is the remainder of  *)
(* the message as a polynomial.  What Power computes takes an induction    *)
(* over data: SetInduction states it for a set of numbers, as a fact about *)
(* finite sets.                                                            *)
(***************************************************************************)
EXTENDS Crc16, FiniteSetTheorems, TLAPS

LEMMA FlipValue ==
  ASSUME NEW a \in Bit, NEW b \in Bit
  PROVE  /\ Flip(a, b) = IF a = b THEN 0 ELSE 1
         /\ Flip(a, b) \in Bit
BY DEF Bit, Flip

LEMMA KeyType == Key \in Register /\ Key[0] = 1
BY CrcAssumption DEF Key, Register, Bit

\* One bit through a register: shift, and add the key if a one is shifted out.
LEMMA CrcBitValue ==
  ASSUME NEW reg \in Register, NEW bit \in Bit
  PROVE  /\ CrcBit2(reg, bit) \in Register
         /\ CrcBit4(reg, bit) = CrcBit2(reg, bit)
         /\ \A j \in 0 .. Width - 1 :
              CrcBit2(reg, bit)[j] = Flip(IF j = 0 THEN bit ELSE reg[j - 1],
                                          IF reg[Width - 1] = 1 THEN Key[j] ELSE 0)
<1> DEFINE in(j) == IF j = 0 THEN bit ELSE reg[j - 1]
<1>1. Width \in Nat \ {0} /\ Width - 1 \in 0 .. Width - 1 /\ reg[Width - 1] \in Bit
  BY CrcAssumption DEF Register
<1>2. \A j \in 0 .. Width - 1 : in(j) \in Bit /\ Key[j] \in Bit
  BY <1>1, KeyType DEF Register
<1>3. Or(0, bit) = bit /\ Flip(0, bit) = bit
  BY FlipValue DEF Or, Bit
<1>4. \A j \in 0 .. Width - 1 : Flip(in(j), 0) = in(j) /\ Flip(in(j), Key[j]) \in Bit
  BY <1>2, FlipValue DEF Bit
<1>5. CrcBit2(reg, bit) =
        IF reg[Width - 1] = 1 THEN [j \in 0 .. Width - 1 |-> Flip(in(j), Key[j])]
        ELSE [j \in 0 .. Width - 1 |-> in(j)]
  BY <1>3 DEF CrcBit2
<1>6. CrcBit4(reg, bit) =
        IF reg[Width - 1] # 0 THEN [j \in 0 .. Width - 1 |-> Flip(in(j), Key[j])]
        ELSE [j \in 0 .. Width - 1 |-> in(j)]
  BY <1>3 DEF CrcBit4
<1>7. reg[Width - 1] = 1 <=> reg[Width - 1] # 0
  BY <1>1 DEF Bit
<1> HIDE DEF in
<1>8. CrcBit2(reg, bit) \in Register
  BY <1>2, <1>4, <1>5 DEF Register
<1>9. \A j \in 0 .. Width - 1 :
        CrcBit2(reg, bit)[j] = Flip(in(j), IF reg[Width - 1] = 1 THEN Key[j] ELSE 0)
  BY <1>4, <1>5
<1> QED BY <1>5, <1>6, <1>7, <1>8, <1>9 DEF in

-----------------------------------------------------------------------------
(* The invariant.                                                          *)

TypeOK ==
  /\ message \in Messages /\ fed \in 0 .. Bits2
  /\ reg2 \in Register /\ reg4 \in Register /\ damaged \in Register
  /\ age \in Nat

\* a4's copy is the byte shifted as often as its bits were used.
ByteInv ==
  next_byte = [j \in 0 .. 7 |->
                 IF j >= fed % 8 THEN ByteAt(fed \div 8)[j - (fed % 8)] ELSE 0]

\* Where the registers differ: the first damaged bit moves up undisturbed until it
\* leaves the register, and from then on they never meet again.
Differ(j) == damaged[j] # reg2[j]
BurstInv ==
  /\ age = 0 => damaged = reg2
  /\ age \in 1 .. Width => /\ Differ(age - 1)
                           /\ \A j \in age .. Width - 1 : ~Differ(j)
  /\ age > Width => \E j \in 0 .. Width - 1 : Differ(j)

CrcInv == TypeOK /\ ByteInv /\ SameRegisters /\ BurstInv

LEMMA Lengths ==
  ASSUME message \in Messages
  PROVE  /\ message \in Seq(Byte) /\ MessageBits \in Nat
         /\ MessageBits = 8 * Len(message)
         /\ Bits2 = MessageBits + Width /\ Bits2 \in Nat
         /\ Bits4 = Bits2
<1>1. message \in Seq(Byte) /\ Len(message) \in Nat /\ Width \in Nat
  BY CrcAssumption
<1>2. 8 * (Width \div 8) = Width
  BY CrcAssumption
<1> QED BY <1>1, <1>2 DEF MessageBits, Bits2, Bits4

LEMMA ByteAtType ==
  ASSUME message \in Messages, NEW n \in Nat
  PROVE  ByteAt(n) \in Byte
BY Lengths DEF ByteAt, NullByte, Byte, Bit

\* The two loops over bytes and bits take the same bits in the same order.
LEMMA SameBits ==
  ASSUME TypeOK, ByteInv
  PROVE  NextBit4 = NextBit2 /\ NextBit2 \in Bit
<1> DEFINE i == fed \div 8  m == fed % 8
<1>1. /\ fed \in Nat /\ i \in Nat /\ m \in 0 .. 7 /\ fed = 8 * i + m
      /\ MessageBits = 8 * Len(message) /\ Len(message) \in Nat
  BY Lengths DEF TypeOK
<1>2. NextBit4 = ByteAt(i)[7 - m] /\ ByteAt(i) \in Byte
  BY <1>1, ByteAtType DEF NextBit4, ByteInv, TypeOK
<1>3. fed < MessageBits <=> i < Len(message)
  BY <1>1
<1>4. NextBit2 = ByteAt(i)[7 - m]
  BY <1>1, <1>3 DEF NextBit2, ByteAt, NullByte
<1> QED BY <1>1, <1>2, <1>4 DEF Byte

LEMMA InitInv == Init => CrcInv
<1> SUFFICES ASSUME Init PROVE CrcInv OBVIOUS
<1>1. message \in Messages /\ Zero \in Register /\ 0 \in 0 .. Bits2
  BY Lengths DEF Init, Zero, Register, Bit
<1>2. TypeOK /\ SameRegisters
  BY <1>1 DEF Init, TypeOK, SameRegisters
<1>3. ByteAt(0) \in Byte
  BY <1>1, ByteAtType
<1>4. ByteInv
  BY <1>3 DEF Init, ByteInv, Byte
<1>5. BurstInv
  BY CrcAssumption DEF Init, BurstInv
<1> QED BY <1>2, <1>4, <1>5 DEF CrcInv

LEMMA StepByte ==
  ASSUME TypeOK, ByteInv, NEW flip \in Bit, ProcessBit(flip)
  PROVE  ByteInv'
<1>1. fed \in Nat /\ fed' = fed + 1 /\ message' = message /\ message \in Messages
  BY Lengths DEF TypeOK, ProcessBit
<1>2. \A n : ByteAt(n)' = ByteAt(n)
  BY <1>1 DEF ByteAt
<1>3. CASE fed' % 8 = 0
  <2>1. next_byte' = ByteAt(fed' \div 8) /\ ByteAt(fed' \div 8) \in Byte
    BY <1>1, <1>3, ByteAtType DEF ProcessBit
  <2>2. ByteAt(fed' \div 8) = [j \in 0 .. 7 |-> ByteAt(fed' \div 8)[j]]
    BY <2>1 DEF Byte
  <2>3. [j \in 0 .. 7 |-> ByteAt(fed' \div 8)[j]]
        = [j \in 0 .. 7 |-> IF j >= fed' % 8 THEN ByteAt(fed' \div 8)[j - (fed' % 8)] ELSE 0]
    <3>1. \A j \in 0 .. 7 : j >= fed' % 8 /\ j - (fed' % 8) = j
      BY <1>3
    <3> QED BY <3>1
  <2> QED BY <1>1, <2>1, <2>2, <2>3 DEF ByteInv, ByteAt
<1>4. CASE fed' % 8 # 0
  <2>1. /\ fed' % 8 = (fed % 8) + 1 /\ fed' \div 8 = fed \div 8 /\ fed % 8 \in 0 .. 6
    BY <1>1, <1>4
  <2>2. next_byte' = [j \in 0 .. 7 |-> IF j = 0 THEN 0 ELSE next_byte[j - 1]]
    BY <1>4 DEF ProcessBit, Shifted
  <2>3. \A j \in 1 .. 7 :
          next_byte[j - 1] = IF j >= (fed % 8) + 1
                             THEN ByteAt(fed \div 8)[j - ((fed % 8) + 1)] ELSE 0
    BY <2>1 DEF ByteInv
  <2>4. next_byte' = [j \in 0 .. 7 |-> IF j >= (fed % 8) + 1
                             THEN ByteAt(fed \div 8)[j - ((fed % 8) + 1)] ELSE 0]
    BY <2>1, <2>2, <2>3
  <2> QED BY <1>1, <1>2, <2>1, <2>4 DEF ByteInv
<1> QED BY <1>3, <1>4

\* Where two registers differ after a bit each.
LEMMA StepDiffer ==
  ASSUME NEW a \in Register, NEW b \in Register, NEW x \in Bit, NEW y \in Bit,
         NEW j \in 0 .. Width - 1
  PROVE  LET before == IF j = 0 THEN x # y ELSE a[j - 1] # b[j - 1]
             top == a[Width - 1] # b[Width - 1]
         IN  /\ ~top => (CrcBit2(a, x)[j] # CrcBit2(b, y)[j] <=> before)
             /\ top /\ j = 0 => (CrcBit2(a, x)[0] # CrcBit2(b, y)[0] <=> ~before)
<1> DEFINE p == IF j = 0 THEN x ELSE a[j - 1]
           q == IF j = 0 THEN y ELSE b[j - 1]
           s == IF a[Width - 1] = 1 THEN Key[j] ELSE 0
           t == IF b[Width - 1] = 1 THEN Key[j] ELSE 0
<1>1. /\ Width - 1 \in 0 .. Width - 1 /\ a[Width - 1] \in Bit /\ b[Width - 1] \in Bit
      /\ Key[j] \in Bit /\ (j = 0 => Key[j] = 1)
  BY CrcAssumption, KeyType DEF Register
<1>2. p \in Bit /\ q \in Bit /\ s \in Bit /\ t \in Bit
  BY <1>1 DEF Register, Bit
<1>3. CrcBit2(a, x)[j] = Flip(p, s) /\ CrcBit2(b, y)[j] = Flip(q, t)
  BY CrcBitValue
<1>4. s = t => (Flip(p, s) # Flip(q, t) <=> p # q)
  BY <1>2, FlipValue DEF Bit
<1>5. s # t => (Flip(p, s) # Flip(q, t) <=> p = q)
  BY <1>2, FlipValue DEF Bit
<1>6. a[Width - 1] = b[Width - 1] => s = t
  OBVIOUS
<1>7. a[Width - 1] # b[Width - 1] /\ j = 0 => s # t
  BY <1>1 DEF Bit
<1> QED BY <1>3, <1>4, <1>5, <1>6, <1>7

LEMMA StepBurst ==
  ASSUME TypeOK, BurstInv, NextBit2 \in Bit, NEW flip \in Bit, ProcessBit(flip),
         reg2' = CrcBit2(reg2, NextBit2),
         damaged' = CrcBit2(damaged, Flip(NextBit2, flip))
  PROVE  BurstInv'
<1> DEFINE x == Flip(NextBit2, flip)
           y == NextBit2
<1>1. /\ x \in Bit /\ (x # y <=> flip = 1) /\ (flip = 0 => x = y)
      /\ damaged' = CrcBit2(damaged, x) /\ reg2' = CrcBit2(reg2, y)
  BY FlipValue DEF Bit
<1> HIDE DEF x, y
<1>2. Width \in Nat \ {0} /\ MaxBurst \in 0 .. Width /\ age \in Nat
  BY CrcAssumption DEF TypeOK
<1>3. flip = 1 => age = 0 \/ age < MaxBurst
  BY DEF ProcessBit, MayFlip
<1>4. /\ age = 0 => age' = flip
      /\ age > 0 => age' = age + 1
  BY <1>2 DEF ProcessBit
<1>5. \A j \in 0 .. Width - 1 :
        /\ ~Differ(Width - 1) =>
             (Differ(j)' <=> IF j = 0 THEN x # y ELSE Differ(j - 1))
        /\ Differ(Width - 1) /\ j = 0 => (Differ(0)' <=> ~(x # y))
  <2> SUFFICES ASSUME NEW j \in 0 .. Width - 1
               PROVE  /\ ~Differ(Width - 1) =>
                           (Differ(j)' <=> IF j = 0 THEN x # y ELSE Differ(j - 1))
                      /\ Differ(Width - 1) /\ j = 0 => (Differ(0)' <=> ~(x # y))
    OBVIOUS
  <2>1. damaged \in Register /\ reg2 \in Register /\ x \in Bit /\ y \in Bit
    BY <1>1 DEF TypeOK, y
  <2>2. LET before == IF j = 0 THEN x # y ELSE damaged[j - 1] # reg2[j - 1]
            top == damaged[Width - 1] # reg2[Width - 1]
        IN  /\ ~top => (CrcBit2(damaged, x)[j] # CrcBit2(reg2, y)[j] <=> before)
            /\ top /\ j = 0 => (CrcBit2(damaged, x)[0] # CrcBit2(reg2, y)[0] <=> ~before)
    BY <2>1, StepDiffer
  <2>3. \A k : Differ(k)' <=> CrcBit2(damaged, x)[k] # CrcBit2(reg2, y)[k]
    BY <1>1 DEF Differ
  <2> QED BY <2>2, <2>3 DEF Differ
<1>7. CASE age = 0 /\ flip = 0
  BY <1>1, <1>2, <1>4, <1>7 DEF BurstInv
<1>8. CASE age = 0 /\ flip = 1
  <2>1. ~Differ(Width - 1) /\ \A j \in 0 .. Width - 1 : ~Differ(j)
    BY <1>2, <1>8 DEF BurstInv, Differ
  <2>2. age' = 1 /\ Differ(0)' /\ \A j \in 1 .. Width - 1 : ~Differ(j)'
    BY <1>1, <1>2, <1>4, <1>5, <1>8, <2>1
  <2> QED BY <1>2, <2>2 DEF BurstInv, Differ
<1>9. CASE age \in 1 .. Width - 1
  <2>1. ~Differ(Width - 1) /\ age' = age + 1
    BY <1>2, <1>4, <1>9 DEF BurstInv
  <2>2. age \in 1 .. Width /\ age \in 0 .. Width - 1 /\ age # 0
    BY <1>2, <1>9
  <2>3. Differ(age - 1) /\ \A j \in age .. Width - 1 : ~Differ(j)
    BY <2>2 DEF BurstInv
  <2>4. damaged'[age] # reg2'[age]
    <3>1. \A j \in 1 .. Width - 1 : Differ(j)' <=> Differ(j - 1)
      BY <1>2, <1>5, <2>1
    <3>2. \A j \in 1 .. Width - 1 : damaged'[j] # reg2'[j] <=> Differ(j - 1)
      BY <3>1 DEF Differ
    <3> QED BY <1>9, <2>3, <3>2
  <2>5. \A j \in age + 1 .. Width - 1 : ~Differ(j)'
    <3> SUFFICES ASSUME NEW j \in age + 1 .. Width - 1 PROVE ~Differ(j)' OBVIOUS
    <3>1. j \in 0 .. Width - 1 /\ j # 0 /\ j - 1 \in age .. Width - 1
      BY <1>2, <1>9
    <3> QED BY <1>5, <2>1, <2>3, <3>1
  <2>6. age' \in 1 .. Width /\ age' # 0 /\ ~(age' > Width) /\ age' - 1 = age
    BY <1>2, <1>9, <2>1
  <2>7. damaged'[age' - 1] # reg2'[age' - 1]
    BY <2>4, <2>6
  <2>8. \A j \in age' .. Width - 1 : ~(damaged'[j] # reg2'[j])
    BY <2>1, <2>5 DEF Differ
  <2> QED BY <2>6, <2>7, <2>8 DEF BurstInv, Differ
<1>10. CASE age >= Width
  <2>1. flip = 0 /\ x = y /\ age' = age + 1
    BY <1>1, <1>2, <1>3, <1>4, <1>10 DEF Bit
  <2>2. \E j \in 0 .. Width - 1 : Differ(j)
    BY <1>2, <1>10 DEF BurstInv
  <2>3. CASE Differ(Width - 1)
    <3>1. Differ(0)' BY <1>2, <1>5, <2>1, <2>3
    <3> QED BY <1>2, <1>10, <2>1, <3>1 DEF BurstInv, Differ
  <2>4. CASE ~Differ(Width - 1)
    <3>1. PICK j \in 0 .. Width - 1 : Differ(j)
      BY <2>2
    <3>2. j + 1 \in 0 .. Width - 1
      BY <1>2, <2>4, <3>1
    <3>3. Differ(j + 1)'
      BY <1>2, <1>5, <2>4, <3>1, <3>2
    <3> QED BY <1>2, <1>10, <2>1, <3>2, <3>3 DEF BurstInv, Differ
  <2> QED BY <2>3, <2>4
<1> QED BY <1>2, <1>7, <1>8, <1>9, <1>10 DEF Bit

LEMMA StepInv == CrcInv /\ [Next]_vars => CrcInv'
<1> SUFFICES ASSUME CrcInv, [Next]_vars PROVE CrcInv' OBVIOUS
<1>0. TypeOK /\ ByteInv /\ SameRegisters /\ BurstInv
  BY DEF CrcInv
<1>1. ASSUME NEW flip \in Bit, ProcessBit(flip) PROVE CrcInv'
  <2>1. /\ fed < Bits2 /\ fed < Bits4 /\ Bits2 \in Nat /\ Bits2' = Bits2
        /\ fed' = fed + 1 /\ message' = message
    BY <1>0, <1>1, Lengths DEF ProcessBit, Done, TypeOK, Bits2, MessageBits
  <2>2. NextBit4 = NextBit2 /\ NextBit2 \in Bit /\ Flip(NextBit2, flip) \in Bit
    BY <1>0, <1>1, SameBits, FlipValue
  <2>3. /\ reg2' = CrcBit2(reg2, NextBit2) /\ reg4' = CrcBit4(reg4, NextBit4)
        /\ damaged' = CrcBit2(damaged, Flip(NextBit2, flip))
    BY <1>1, <2>1 DEF ProcessBit
  <2>4. reg2' \in Register /\ damaged' \in Register /\ reg4' = reg2'
    BY <1>0, <2>2, <2>3, CrcBitValue DEF TypeOK, SameRegisters
  <2>5. age' \in Nat
    BY <1>0, <1>1 DEF ProcessBit, TypeOK, Bit
  <2>6. TypeOK' /\ SameRegisters'
    BY <1>0, <2>1, <2>4, <2>5 DEF TypeOK, SameRegisters
  <2>7. ByteInv'
    BY <1>0, <1>1, StepByte
  <2>8. BurstInv'
    BY <1>0, <1>1, <2>2, <2>3, StepBurst
  <2> QED BY <2>6, <2>7, <2>8 DEF CrcInv
<1>2. CASE UNCHANGED vars
  BY <1>0, <1>2 DEF vars, CrcInv, TypeOK, ByteInv, SameRegisters, BurstInv, Differ,
                    Bits2, MessageBits, ByteAt
<1> QED BY <1>1, <1>2 DEF Next

LEMMA Invariant == Spec => []CrcInv
<1>1. CrcInv /\ [Next]_vars => CrcInv' BY StepInv
<1> QED BY InitInv, <1>1, PTL DEF Spec

\* For every message: the registers of the two programs agree at each bit
\* (a2/crc16.c:29-86, a4/crc16.c:24-69).
THEOREM ProgramsAgree == Spec => []SameRegisters
<1>1. CrcInv => SameRegisters BY DEF CrcInv
<1> QED BY Invariant, <1>1, PTL

\* For every message and every burst of up to 16 bits in it: the CRC changes
\* (readstream.c:107-111, xmodemserver.c:230-233).
THEOREM BurstsDetected == Spec => []DetectsBursts
<1>1. CrcInv => DetectsBursts
  <2> SUFFICES ASSUME CrcInv, age > 0 PROVE damaged # reg2
    BY DEF DetectsBursts
  <2>1. TypeOK /\ BurstInv /\ Width \in Nat \ {0}
    BY CrcAssumption DEF CrcInv
  <2>2. \E j : damaged[j] # reg2[j]
    BY <2>1 DEF BurstInv, Differ, TypeOK
  <2> QED BY <2>2
<1> QED BY Invariant, <1>1, PTL

-----------------------------------------------------------------------------
(* The powers of x modulo the key.                                         *)

\* Induction over the natural numbers, for a set of them.
LEMMA SetInduction ==
  ASSUME NEW S, 0 \in S, \A n \in Nat : n \in S => n + 1 \in S
  PROVE  \A n \in Nat : n \in S
<1> SUFFICES ASSUME NEW n \in Nat, n \notin S PROVE FALSE
  OBVIOUS
<1> DEFINE U == {i \in 0 .. n : i \notin S}
           V == U \ {n}
           f == [i \in U |-> i - 1]
<1>1. n \in U /\ IsFiniteSet(0 .. n) /\ U \in SUBSET (0 .. n)
  BY FS_Interval
<1>2. IsFiniteSet(U) /\ Cardinality(U) \in Nat
  BY <1>1, FS_Subset, FS_CardinalityType
<1>3. IsFiniteSet(V) /\ Cardinality(V) = Cardinality(U) - 1
  <2> HIDE DEF U
  <2> QED BY <1>1, <1>2, FS_RemoveElement
<1>4. \A i \in U : i - 1 \in V
  <2> SUFFICES ASSUME NEW i \in U PROVE i - 1 \in V
    OBVIOUS
  <2>1. i \in 0 .. n /\ i \notin S /\ i # 0
    OBVIOUS
  <2>2. i - 1 \in Nat /\ i - 1 + 1 = i /\ i - 1 \in 0 .. n /\ i - 1 # n
    BY <2>1
  <2>3. i - 1 \notin S
    BY <2>1, <2>2
  <2> QED BY <2>2, <2>3
<1>5. f \in [U -> V]
  BY <1>4
<1>6. \A i, j \in U : i # j => f[i] # f[j]
  OBVIOUS
<1>7. Cardinality(V) < Cardinality(U)
  BY <1>2, <1>3
<1> HIDE DEF U, V, f
<1> QED BY <1>2, <1>3, <1>5, <1>6, <1>7, FS_PigeonHole

\* Every exponent moves up by one, and x^Width is replaced by what the key says.
Reduce(P) ==
  LET p == {j + 1 : j \in P}
  IN  IF Width \in p THEN (p \ (KeyBits \cup {Width})) \cup (KeyBits \ p) ELSE p

\* Power is a solution of its recursion if there is one.
LEMMA PowerByDefinition ==
  ASSUME NEW f, f = [n \in Nat |-> IF n < Width THEN {n} ELSE Reduce(f[n - 1])]
  PROVE  Power = [n \in Nat |-> IF n < Width THEN {n} ELSE Reduce(Power[n - 1])]
BY DEF Power, Reduce

\* One entry of the table of powers: x^n from the table up to n - 1.
Entry(g, n) == IF n < Width THEN {n} ELSE Reduce(g[n - 1])

IsTable(g, n) == \A k \in 0 .. n : g[k] = Entry(g, k)

\* Tables exist to any length, and agree where both are defined.
LEMMA TableExists == \A n \in Nat : \E g : IsTable(g, n)
<1> DEFINE S == {n \in Nat : \E g : IsTable(g, n)}
<1>1. 0 \in S
  <2>1. IsTable([k \in {0} |-> {0}], 0)
    BY CrcAssumption DEF IsTable, Entry
  <2> QED BY <2>1
<1>2. ASSUME NEW n \in Nat, n \in S PROVE n + 1 \in S
  <2>1. PICK g : IsTable(g, n)
    BY <1>2
  <2> DEFINE h == [k \in 0 .. n + 1 |-> IF k = n + 1 THEN Entry(g, n + 1) ELSE g[k]]
  <2>2. ASSUME NEW k \in 0 .. n + 1 PROVE h[k] = Entry(h, k)
    <3>1. Width \in Nat \ {0} /\ (k >= Width => k - 1 \in 0 .. n)
      BY CrcAssumption
    <3>2. k >= Width => h[k - 1] = g[k - 1]
      BY <3>1
    <3>3. Entry(h, k) = Entry(g, k)
      BY <3>1, <3>2 DEF Entry
    <3>4. CASE k = n + 1
      BY <3>3, <3>4
    <3>5. CASE k # n + 1
      <4>1. k \in 0 .. n /\ h[k] = g[k]
        BY <3>5
      <4> QED BY <2>1, <3>3, <4>1 DEF IsTable
    <3> QED BY <3>4, <3>5
  <2> HIDE DEF h
  <2>3. IsTable(h, n + 1)
    BY <2>2 DEF IsTable
  <2> QED BY <2>3
<1>3. \A n \in Nat : n \in S
  <2> HIDE DEF S
  <2> QED BY <1>1, <1>2, SetInduction
<1> QED BY <1>3

LEMMA TablesAgree ==
  ASSUME NEW m \in Nat, NEW n \in Nat, NEW g, NEW h, IsTable(g, m), IsTable(h, n)
  PROVE  \A k \in Nat : k <= m /\ k <= n => g[k] = h[k]
<1> DEFINE S == {k \in Nat : k <= m /\ k <= n => g[k] = h[k]}
<1>1. 0 \in S
  <2>1. 0 \in 0 .. m /\ 0 \in 0 .. n /\ 0 < Width
    BY CrcAssumption
  <2>2. g[0] = Entry(g, 0) /\ h[0] = Entry(h, 0)
    BY <2>1 DEF IsTable
  <2>3. g[0] = h[0]
    BY <2>1, <2>2 DEF Entry
  <2> QED BY <2>3
<1>2. ASSUME NEW k \in Nat, k \in S PROVE k + 1 \in S
  <2> SUFFICES ASSUME k + 1 <= m, k + 1 <= n PROVE g[k + 1] = h[k + 1]
    OBVIOUS
  <2>1. g[k] = h[k] /\ (k + 1) - 1 = k
    BY <1>2
  <2>2. g[k + 1] = Entry(g, k + 1) /\ h[k + 1] = Entry(h, k + 1)
    BY DEF IsTable
  <2>3. Entry(g, k + 1) = Entry(h, k + 1)
    BY <2>1 DEF Entry
  <2> QED BY <2>2, <2>3
<1>3. \A k \in Nat : k \in S
  <2> HIDE DEF S
  <2> QED BY <1>1, <1>2, SetInduction
<1> QED BY <1>3

\* The recursion of Power has a solution, so Power is one.
LEMMA PowerValue == \A n \in Nat : Power[n] = Entry(Power, n)
<1> DEFINE table(n) == CHOOSE g : IsTable(g, n)
           f == [n \in Nat |-> table(n)[n]]
<1>1. \A n \in Nat : IsTable(table(n), n)
  BY TableExists
<1> HIDE DEF table
<1>2. ASSUME NEW n \in Nat PROVE f[n] = Entry(f, n)
  <2>1. f[n] = Entry(table(n), n)
    BY <1>1 DEF IsTable
  <2>2. CASE n < Width
    BY <2>1, <2>2 DEF Entry
  <2>3. CASE ~ (n < Width)
    <3>1. n - 1 \in Nat /\ n - 1 <= n
      BY <2>3, CrcAssumption
    <3>2. table(n)[n - 1] = table(n - 1)[n - 1]
      <4>1. IsTable(table(n), n) /\ IsTable(table(n - 1), n - 1)
        BY <1>1, <3>1
      <4> QED BY <3>1, <4>1, TablesAgree
    <3>3. f[n - 1] = table(n)[n - 1]
      BY <3>1, <3>2
    <3> HIDE DEF f
    <3> QED BY <2>1, <2>3, <3>3 DEF Entry
  <2> QED BY <2>2, <2>3
<1>3. f = [n \in Nat |-> IF n < Width THEN {n} ELSE Reduce(f[n - 1])]
  <2>1. f = [n \in Nat |-> f[n]]
    OBVIOUS
  <2> HIDE DEF f
  <2> QED BY <1>2, <2>1 DEF Entry
<1>4. Power = [n \in Nat |-> IF n < Width THEN {n} ELSE Reduce(Power[n - 1])]
  <2> HIDE DEF f
  <2> QED BY <1>3, PowerByDefinition
<1> QED BY <1>4 DEF Entry

LEMMA PowerType == \A n \in Nat : Power[n] \subseteq 0 .. Width - 1
<1> DEFINE S == {n \in Nat : Power[n] \subseteq 0 .. Width - 1}
<1>1. 0 \in S
  <2>1. 0 < Width /\ 0 \in 0 .. Width - 1
    BY CrcAssumption
  <2>2. Power[0] = {0}
    BY <2>1, PowerValue DEF Entry
  <2> QED BY <2>1, <2>2
<1>2. ASSUME NEW n \in Nat, n \in S PROVE n + 1 \in S
  <2>1. Power[n + 1] = IF n + 1 < Width THEN {n + 1} ELSE Reduce(Power[n])
    <3>1. (n + 1) - 1 = n /\ n + 1 \in Nat
      OBVIOUS
    <3> QED BY <3>1, PowerValue DEF Entry
  <2>2. Reduce(Power[n]) \subseteq 0 .. Width - 1
    <3>1. PICK P : P = Power[n] /\ P \subseteq 0 .. Width - 1
      BY <1>2
    <3> DEFINE p == {j + 1 : j \in P}
    <3>2. p \subseteq 1 .. Width
      BY <3>1, CrcAssumption
    <3>3. KeyBits \subseteq 0 .. Width - 1
      BY CrcAssumption
    <3>4. Reduce(P) = IF Width \in p THEN (p \ (KeyBits \cup {Width})) \cup (KeyBits \ p) ELSE p
      BY DEF Reduce
    <3> HIDE DEF p
    <3>5. Reduce(P) \subseteq 0 .. Width - 1
      BY <3>2, <3>3, <3>4, CrcAssumption
    <3> QED BY <3>1, <3>5
  <2> QED BY <2>1, <2>2, CrcAssumption
<1>3. \A n \in Nat : n \in S
  <2> HIDE DEF S
  <2> QED BY <1>1, <1>2, SetInduction
<1> QED BY <1>3

\* Multiplication by x: every exponent moves up, and x^Width is replaced by the key.
LEMMA NextPower ==
  ASSUME NEW n \in Nat, NEW j \in 0 .. Width - 1
  PROVE  LET up == j # 0 /\ j - 1 \in Power[n]
             key == Width - 1 \in Power[n] /\ j \in KeyBits
         IN  j \in Power[n + 1] <=> (up /\ ~ key) \/ (key /\ ~ up)
<1>1. PICK P : P = Power[n] /\ P \subseteq 0 .. Width - 1
  BY PowerType
<1> DEFINE p == {k + 1 : k \in P}
           up == j # 0 /\ j - 1 \in P
           key == Width - 1 \in P /\ j \in KeyBits
<1>2. /\ Width \in Nat \ {0} /\ j \in Int /\ (j \in p <=> up)
      /\ Width \in p <=> Width - 1 \in P
  <2>1. Width \in Nat \ {0} /\ j \in Int /\ \A k \in P : k \in Int /\ k >= 0
    BY <1>1, CrcAssumption
  <2>2. j \in p <=> up
    BY <2>1
  <2>3. Width \in p <=> Width - 1 \in P
    BY <2>1
  <2> QED BY <2>1, <2>2, <2>3
<1>3. Power[n + 1] = IF n + 1 < Width THEN {n + 1} ELSE Reduce(P)
  <2>1. (n + 1) - 1 = n /\ n + 1 \in Nat
    OBVIOUS
  <2> QED BY <1>1, <2>1, PowerValue DEF Entry
<1>4. j \in Reduce(P) <=> (up /\ ~ key) \/ (key /\ ~ up)
  <2>1. Reduce(P) = IF Width \in p THEN (p \ (KeyBits \cup {Width})) \cup (KeyBits \ p) ELSE p
    BY DEF Reduce
  <2> HIDE DEF p
  <2>2. j # Width
    BY <1>2
  <2> QED BY <1>2, <2>1, <2>2
<1>5. CASE n + 1 < Width
  <2>1. P = {n}
    <3>1. n < Width
      BY <1>2, <1>5
    <3>2. Power[n] = Entry(Power, n)
      BY PowerValue
    <3> QED BY <1>1, <3>1, <3>2 DEF Entry
  <2>2. ~ key /\ (up <=> j = n + 1)
    BY <1>2, <1>5, <2>1
  <2>3. Power[n + 1] = {n + 1}
    BY <1>3, <1>5
  <2> QED BY <1>1, <2>2, <2>3
<1>6. CASE ~ (n + 1 < Width)
  BY <1>1, <1>3, <1>4, <1>6
<1> QED BY <1>5, <1>6

-----------------------------------------------------------------------------
(* The remainder.                                                          *)

SymmetricDifference(S, T) == (S \ T) \cup (T \ S)

\* Adding modulo 2 is cancelling what both have.
LEMMA ParityOfDifference ==
  ASSUME NEW S, NEW T, IsFiniteSet(S), IsFiniteSet(T)
  PROVE  /\ IsFiniteSet(SymmetricDifference(S, T))
         /\ Cardinality(SymmetricDifference(S, T)) % 2
            = Flip(Cardinality(S) % 2, Cardinality(T) % 2)
<1> DEFINE c == Cardinality(S \cap T)
<1>1. /\ IsFiniteSet(S \ T) /\ Cardinality(S \ T) = Cardinality(S) - c
      /\ IsFiniteSet(S \cap T)
  BY FS_Difference, FS_Intersection
<1>2. /\ IsFiniteSet(T \ S) /\ Cardinality(T \ S) = Cardinality(T) - Cardinality(T \cap S)
      /\ T \cap S = S \cap T
  BY FS_Difference
<1>3. IsFiniteSet({}) /\ Cardinality({}) = 0
  BY FS_EmptySet
<1>4. /\ IsFiniteSet(SymmetricDifference(S, T))
      /\ Cardinality(SymmetricDifference(S, T)) = Cardinality(S \ T) + Cardinality(T \ S) - 0
  <2>1. PICK X, Y : X = S \ T /\ Y = T \ S
    OBVIOUS
  <2>2. IsFiniteSet(X) /\ IsFiniteSet(Y) /\ X \cap Y = {} /\ SymmetricDifference(S, T) = X \cup Y
    BY <1>1, <1>2, <2>1 DEF SymmetricDifference
  <2>3. /\ IsFiniteSet(X \cup Y)
        /\ Cardinality(X \cup Y) = Cardinality(X) + Cardinality(Y) - Cardinality(X \cap Y)
    BY <2>2, FS_Union
  <2> QED BY <1>3, <2>1, <2>2, <2>3
<1>5. /\ Cardinality(S) \in Nat /\ Cardinality(T) \in Nat /\ c \in Nat
  BY <1>1, FS_CardinalityType
<1>6. Cardinality(S \ T) = Cardinality(S) - c /\ Cardinality(T \ S) = Cardinality(T) - c
  BY <1>1, <1>2
<1>7. Cardinality(SymmetricDifference(S, T)) = Cardinality(S) + Cardinality(T) - 2 * c
  <2> HIDE DEF c
  <2> QED BY <1>4, <1>5, <1>6
<1> HIDE DEF c
<1>8. \A m, n, k \in Nat : (m + n - 2 * k) % 2 = ((m % 2) + (n % 2)) % 2
  OBVIOUS
<1> QED BY <1>4, <1>5, <1>7, <1>8 DEF Flip

\* The ones fed whose power has the bit j.
Hits(j) == {i \in OnesFed : j \in Power[fed - 1 - i]}

RemainderInv == \A j \in 0 .. Width - 1 : reg2[j] = Cardinality(Hits(j)) % 2

LEMMA HitsFinite ==
  ASSUME TypeOK, NEW j
  PROVE  /\ OnesFed \subseteq 0 .. fed - 1 /\ Hits(j) \subseteq OnesFed
         /\ IsFiniteSet(Hits(j)) /\ fed \in Nat
<1>1. fed \in Nat
  BY Lengths DEF TypeOK
<1>2. OnesFed \subseteq 0 .. fed - 1 /\ Hits(j) \subseteq OnesFed
  BY DEF OnesFed, Hits
<1>3. IsFiniteSet(0 .. fed - 1)
  BY <1>1, FS_Interval
<1>4. Hits(j) \subseteq 0 .. fed - 1
  BY <1>2
<1> QED BY <1>1, <1>2, <1>3, <1>4, FS_Subset

LEMMA InitRemainder == Init => RemainderInv
<1> SUFFICES ASSUME Init, NEW j \in 0 .. Width - 1 PROVE reg2[j] = Cardinality(Hits(j)) % 2
  BY DEF RemainderInv
<1>1. OnesFed = {}
  BY DEF Init, OnesFed
<1>2. Hits(j) = {}
  BY <1>1 DEF Hits
<1>3. Cardinality(Hits(j)) = 0
  BY <1>2, FS_EmptySet
<1> QED BY <1>3 DEF Init, Zero

\* One more bit: every power of a one moves up, and the bit itself, if it is a one, is x^0.
LEMMA StepHits ==
  ASSUME TypeOK, NextBit2 \in Bit, fed' = fed + 1, message' = message,
         NEW j \in 0 .. Width - 1
  PROVE  Hits(j)' = SymmetricDifference(
                      IF j = 0 THEN IF NextBit2 = 1 THEN {fed} ELSE {} ELSE Hits(j - 1),
                      IF j \in KeyBits THEN Hits(Width - 1) ELSE {})
<1> DEFINE A == IF j = 0 THEN IF NextBit2 = 1 THEN {fed} ELSE {} ELSE Hits(j - 1)
           B == IF j \in KeyBits THEN Hits(Width - 1) ELSE {}
           one(i) == i < MessageBits /\ message[i \div 8 + 1][7 - (i % 8)] = 1
<1>1. /\ fed \in Nat /\ Width \in Nat \ {0} /\ MessageBits' = MessageBits
      /\ OnesFed = {i \in 0 .. fed - 1 : one(i)}
      /\ OnesFed' = {i \in 0 .. fed : one(i)}
  <2>1. fed \in Nat /\ Width \in Nat \ {0} /\ MessageBits' = MessageBits
    BY HitsFinite, CrcAssumption DEF MessageBits
  <2>2. fed' - 1 = fed
    BY <2>1
  <2> QED BY <2>1, <2>2 DEF OnesFed
<1>2. one(fed) <=> NextBit2 = 1
  BY DEF NextBit2
<1> HIDE DEF one
<1>3. Hits(j)' = {i \in OnesFed' : j \in Power[fed - i]}
  <2>1. Hits(j)' = {i \in OnesFed' : j \in Power[fed' - 1 - i]}
    BY DEF Hits
  <2>2. \A i \in OnesFed' : fed' - 1 - i = fed - i
    BY <1>1
  <2> QED BY <2>1, <2>2
<1>4. Power[0] = {0}
  <2>1. 0 < Width /\ Power[0] = Entry(Power, 0)
    BY <1>1, PowerValue
  <2> QED BY <2>1 DEF Entry
<1>5. \A i : i \in OnesFed' <=> i \in OnesFed \/ (i = fed /\ NextBit2 = 1)
  BY <1>1, <1>2
<1>6. fed \notin OnesFed
  BY <1>1
<1>7. ASSUME NEW i \in OnesFed
      PROVE  i \in Hits(j)' <=> i \in SymmetricDifference(A, B)
  <2>1. /\ i \in Int /\ fed - 1 - i \in Nat /\ (fed - 1 - i) + 1 = fed - i
        /\ i # fed /\ i \in OnesFed'
    BY <1>1, <1>5
  <2> DEFINE n == fed - 1 - i
             up == j # 0 /\ j - 1 \in Power[n]
             key == Width - 1 \in Power[n] /\ j \in KeyBits
  <2>2. j \in Power[n + 1] <=> (up /\ ~ key) \/ (key /\ ~ up)
    <3>1. n \in Nat
      BY <2>1
    <3> HIDE DEF n
    <3> QED BY <3>1, NextPower
  <2>3. i \in A <=> up
    BY <2>1 DEF Hits
  <2>4. i \in B <=> key
    BY <2>1 DEF Hits
  <2>5. i \in Hits(j)' <=> j \in Power[n + 1]
    BY <1>3, <2>1
  <2> HIDE DEF up, key, A, B, n
  <2> QED BY <2>2, <2>3, <2>4, <2>5 DEF SymmetricDifference
<1>8. ASSUME NEW i, i \notin OnesFed
      PROVE  i \in Hits(j)' <=> i \in SymmetricDifference(A, B)
  <2>1. i \notin B
    BY <1>8 DEF Hits
  <2>2. i \in A <=> i = fed /\ NextBit2 = 1 /\ j = 0
    BY <1>8 DEF Hits
  <2>3. i \in Hits(j)' <=> i = fed /\ NextBit2 = 1 /\ j = 0
    <3>1. i \in Hits(j)' <=> i = fed /\ NextBit2 = 1 /\ j \in Power[fed - i]
      BY <1>3, <1>5, <1>8
    <3>2. fed - fed = 0
      BY <1>1
    <3> QED BY <1>4, <3>1, <3>2
  <2> HIDE DEF A, B
  <2> QED BY <2>1, <2>2, <2>3 DEF SymmetricDifference
<1> HIDE DEF A, B
<1>9. \A i : i \in Hits(j)' <=> i \in SymmetricDifference(A, B)
  BY <1>7, <1>8
<1>10. Hits(j)' = SymmetricDifference(A, B)
  BY <1>9
<1> QED BY <1>10 DEF A, B

LEMMA StepRemainder ==
  ASSUME TypeOK, RemainderInv, NextBit2 \in Bit, fed' = fed + 1, message' = message,
         reg2' = CrcBit2(reg2, NextBit2)
  PROVE  RemainderInv'
<1> SUFFICES ASSUME NEW j \in 0 .. Width - 1 PROVE reg2'[j] = Cardinality(Hits(j)') % 2
  BY DEF RemainderInv
<1> DEFINE A == IF j = 0 THEN IF NextBit2 = 1 THEN {fed} ELSE {} ELSE Hits(j - 1)
           B == IF j \in KeyBits THEN Hits(Width - 1) ELSE {}
           in == IF j = 0 THEN NextBit2 ELSE reg2[j - 1]
           key == IF reg2[Width - 1] = 1 THEN Key[j] ELSE 0
<1>1. reg2 \in Register /\ Width \in Nat \ {0} /\ Width - 1 \in 0 .. Width - 1
  BY CrcAssumption DEF TypeOK
<1>2. reg2'[j] = Flip(in, key)
  BY <1>1, CrcBitValue
<1>3. /\ Cardinality({}) = 0 /\ IsFiniteSet({})
      /\ Cardinality({fed}) = 1 /\ IsFiniteSet({fed})
  BY FS_EmptySet, FS_Singleton
<1>4. 0 % 2 = 0 /\ 1 % 2 = 1
  OBVIOUS
<1>5. IsFiniteSet(A) /\ Cardinality(A) % 2 = in
  <2>1. CASE j = 0
    <3>1. NextBit2 = 0 \/ NextBit2 = 1
      BY DEF Bit
    <3> QED BY <1>3, <1>4, <2>1, <3>1
  <2>2. CASE j # 0
    <3>1. j - 1 \in 0 .. Width - 1
      BY <1>1, <2>2
    <3> QED BY <2>2, <3>1, HitsFinite DEF RemainderInv
  <2> QED BY <2>1, <2>2
<1>6. IsFiniteSet(B) /\ Cardinality(B) % 2 = key
  <2>1. /\ IsFiniteSet(Hits(Width - 1))
        /\ reg2[Width - 1] = Cardinality(Hits(Width - 1)) % 2
        /\ (reg2[Width - 1] = 0 \/ reg2[Width - 1] = 1)
    BY <1>1, HitsFinite DEF RemainderInv, Register, Bit
  <2>2. Key[j] = IF j \in KeyBits THEN 1 ELSE 0
    BY DEF Key
  <2> QED BY <1>3, <1>4, <2>1, <2>2
<1>7. Hits(j)' = SymmetricDifference(A, B)
  BY StepHits
<1> HIDE DEF A, B, in, key
<1> QED BY <1>2, <1>5, <1>6, <1>7, ParityOfDifference

LEMMA RemainderPreserved == CrcInv /\ RemainderInv /\ [Next]_vars => RemainderInv'
<1> SUFFICES ASSUME CrcInv, RemainderInv, [Next]_vars PROVE RemainderInv' OBVIOUS
<1>1. TypeOK /\ ByteInv
  BY DEF CrcInv
<1>2. ASSUME NEW flip \in Bit, ProcessBit(flip) PROVE RemainderInv'
  <2>1. NextBit2 \in Bit
    BY <1>1, SameBits
  <2>2. fed < Bits2 /\ fed' = fed + 1 /\ message' = message
    BY <1>1, <1>2, Lengths DEF ProcessBit, Done, TypeOK
  <2>3. reg2' = CrcBit2(reg2, NextBit2)
    BY <1>2, <2>2 DEF ProcessBit
  <2> QED BY <1>1, <2>1, <2>2, <2>3, StepRemainder
<1>3. CASE UNCHANGED vars
  BY <1>3 DEF vars, RemainderInv, Hits, OnesFed, MessageBits
<1> QED BY <1>2, <1>3 DEF Next

LEMMA RemainderImplies == TypeOK /\ RemainderInv => IsRemainder
<1> SUFFICES ASSUME TypeOK, RemainderInv PROVE IsRemainder OBVIOUS
<1> DEFINE powers == {<<i, Power[fed - 1 - i]>> : i \in OnesFed}
<1>1. ASSUME NEW j \in 0 .. Width - 1
      PROVE  Cardinality({p \in powers : j \in p[2]}) = Cardinality(Hits(j))
  <2> DEFINE S == {p \in powers : j \in p[2]}
             f == [i \in Hits(j) |-> <<i, Power[fed - 1 - i]>>]
  <2>1. f \in [Hits(j) -> S]
    BY DEF Hits
  <2>2. \A a, b \in Hits(j) : f[a] = f[b] => a = b
    OBVIOUS
  <2>3. \A p \in S : \E i \in Hits(j) : f[i] = p
    BY DEF Hits
  <2> HIDE DEF f, S
  <2>4. f \in Bijection(Hits(j), S)
    BY <2>1, <2>2, <2>3 DEF Bijection, Injection, Surjection, IsInjective
  <2>5. ExistsBijection(Hits(j), S)
    BY <2>4 DEF ExistsBijection
  <2>6. Cardinality(S) = Cardinality(Hits(j))
    BY <2>5, HitsFinite, FS_Bijection
  <2> QED BY <2>6 DEF S
<1> HIDE DEF powers
<1>2. \A j \in 0 .. Width - 1 : reg2[j] = Cardinality({p \in powers : j \in p[2]}) % 2
  BY <1>1 DEF RemainderInv
<1> QED BY <1>2 DEF IsRemainder, powers

\* For every message and every key: the register is the remainder of what was fed,
\* as a polynomial, modulo the key's (a2/crc16.c:29-86), the textbook CRC.
THEOREM RemainderCorrect == Spec => []IsRemainder
<1> DEFINE Inv == CrcInv /\ RemainderInv
<1>1. Init => Inv
  BY InitInv, InitRemainder
<1>2. Inv /\ [Next]_vars => Inv'
  BY StepInv, RemainderPreserved
<1>3. Inv => IsRemainder
  BY RemainderImplies DEF CrcInv
<1> QED BY <1>1, <1>2, <1>3, PTL DEF Spec
=============================================================================
