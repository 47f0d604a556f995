----------------------------- MODULE PfactProofs ------------------------------
(***************************************************************************)
(* Proofs about Pfact, for every n, every size of the pipes and every order*)
(* of the processes: the chain ends from its end, one worker answers, the  *)
(* workers hold the primes in order, and the answer is the one for n.      *)
(***************************************************************************)
EXTENDS Pfact, SequenceTheorems, WellFoundedInduction, TLAPS

\* The numbers the master sends, and END.
Stream == (2 .. MaxK) \cup {n, END}

Workers == 1 .. Len(worker)

\* p is on its way out, or gone.
Done(p) == worker[p].pc \in {"exiting", "exited", "reaped"}

-----------------------------------------------------------------------------
\* The chain.

MasterInv ==
  /\ master.pc \in {"write", "poll"} => master.k \in 2 .. MaxK
  /\ worker[1].pc = "reaped" => master.pc \in {"wait", "exited"}
  /\ master.pc = "exited" => HasExited(1)
  /\ master.stages # NONE => worker[1].pc = "reaped" /\ master.stages = worker[1].code

NumbersOf(w) ==
  /\ \A i \in 1 .. Len(w.in) : w.in[i] \in Stream
  /\ w.pc \in {"poll", "dispatch"} => w.cur \in Stream
  /\ w.m >= 1
  /\ w.factor1 # 0 => n % w.factor1 = 0

NumbersInv ==
  \A p \in Workers :
    NumbersOf(worker[p]) /\ (worker[p].pc \in {"poll", "waitEnd"} => HasChild(p))

\* The first worker starts with m = 2, and neither 0 nor 2 gets past it.
FirstInv ==
  /\ Len(worker) >= 1
  /\ worker[1].m = 2 /\ worker[1].factor1 \in {0, 2} /\ worker[1].pc # "readM"
  /\ n \in {0, 2} => Len(worker) = 1

\* The number a new worker waits for is the one its parent is about to pass on.
NewInv ==
  \A p \in Workers :
    worker[p].pc = "readM" =>
      /\ p = Len(worker) /\ worker[p].cur \in Stream \ {END, 0}
      /\ ~ Divides(worker[p - 1].m, worker[p].cur)
      /\ worker[p].in = << >> =>
           worker[p - 1].pc = "dispatch" /\ worker[p - 1].cur = worker[p].cur
      /\ worker[p].in # << >> => Head(worker[p].in) = worker[p].cur

\* A worker that goes on has tested its m to no answer; only the first starts with
\* an m, and tests it at the first number, which is 2.
AtStart ==
  \/ /\ worker[1].pc = "read" /\ worker[1].in = << >>
     /\ master.pc = "write" /\ master.k = 2
  \/ worker[1].pc = "read" /\ worker[1].in # << >> /\ Head(worker[1].in) = 2
  \/ worker[1].pc = "dispatch" /\ worker[1].cur = 2

TestedInv ==
  \A p \in Workers :
    worker[p].pc \in {"read", "poll", "dispatch", "waitEnd"} =>
      Lines(worker[p]) = << >> \/ (p = 1 /\ ~ HasChild(1) /\ AtStart)

\* Exits travel from the end of the chain to its start.
ExitInv ==
  /\ \A p, q \in Workers : p < q /\ Done(p) => worker[q].pc = "reaped"
  /\ \A p \in Workers : p > 1 /\ worker[p].pc = "reaped" => Done(p - 1)

Found == IF answers = <<PrimeLine>> THEN 1 ELSE 0

AnswerInv ==
  /\ answers = << >> \/ Len(answers) = 1
  /\ answers # << >> <=> Done(Len(worker))
  /\ \A p \in Workers :
       Done(p) => worker[p].code = (Len(worker) - p + 1 - Found) % ExitMod

ChainInv ==
  /\ TypeOK /\ MasterInv /\ NumbersInv /\ FirstInv /\ NewInv /\ TestedInv
  /\ ExitInv /\ AnswerInv

-----------------------------------------------------------------------------
\* The numbers, for n >= 3: below that no worker but the first has to sieve.

Key(x) == IF x = END THEN n + 1 ELSE x

\* x is a number that the first p workers let through, or END.
Passes(p, x) == x # END => \A i \in 1 .. p : ~ Divides(worker[i].m, x)

\* p has read x, or one after it, and has done with it.
Taken(p, x) ==
  IF worker[p].pc = "readM" THEN Key(x) < Key(worker[p].cur)
  ELSE Key(x) <= Key(worker[p].cur)
Handled(p, x) ==
  IF worker[p].pc \in {"readM", "poll", "dispatch"} THEN Key(x) < Key(worker[p].cur)
  ELSE Key(x) <= Key(worker[p].cur)

\* The master has written x.
Fed(x) ==
  CASE master.pc = "write" -> Key(x) < master.k
    [] master.pc = "poll" -> Key(x) <= master.k
    [] master.pc = "writeN" -> Key(x) <= MaxK
    [] master.pc = "writeEnd" -> Key(x) <= n
    [] OTHER -> TRUE

Arrived(p, x) == IF p = 1 THEN Fed(x) ELSE Handled(p - 1, x) /\ Passes(p - 1, x)

Ordered(in) == \A i, j \in 1 .. Len(in) : i < j => Key(in[i]) < Key(in[j])
Holds(in, x) == \E i \in 1 .. Len(in) : in[i] = x

\* A pipe holds what arrived and was not taken, in order.
PipeInv(p) ==
  /\ Ordered(worker[p].in)
  /\ \A x \in Stream : Holds(worker[p].in, x) <=> Arrived(p, x) /\ ~ Taken(p, x)

\* The number p holds came through the workers before it, and p's m was the first
\* that did.
CurInv(p) ==
  /\ p > 1 \/ worker[p].cur # 1 => worker[p].cur \in Stream /\ Passes(p - 1, worker[p].cur)
  /\ worker[p].pc = "waitEnd" => worker[p].cur = END
  /\ p > 1 => LET first == IF worker[p].pc = "readM" THEN worker[p].cur ELSE worker[p].m
              IN  /\ first \in Stream \ {END}
                  /\ \A x \in Stream : Passes(p - 1, x) => Key(x) >= first

ReachedInv(p) ==
  /\ p > 1 /\ worker[p].pc # "readM" => Handled(p - 1, worker[p].cur)
  /\ p = 1 /\ worker[1].cur # 1 => Fed(worker[1].cur)

\* The last worker has let nothing through.
LastInv(p) ==
  ~ HasChild(p) /\ worker[p].pc # "readM" =>
     \A x \in Stream \ {END} : Handled(p, x) => ~ Passes(p, x)

\* The factor that was found is the only m so far that divides n, and no answer.
NoAnswer(f) == f # n /\ (f * f) % IntMod # n
MsTested(p) ==
  IF worker[p].pc = "readM" \/ (p = 1 /\ ~ Handled(1, 2)) THEN p - 1 ELSE p
FactorInv(p) ==
  /\ \A i \in 1 .. MsTested(p) : Divides(worker[i].m, n) => worker[i].m = worker[p].factor1
  /\ worker[p].factor1 # 0 => \E i \in 1 .. MsTested(p) : worker[i].m = worker[p].factor1
  /\ NoAnswer(worker[p].factor1)

AliveInv(p) ==
  PipeInv(p) /\ CurInv(p) /\ ReachedInv(p) /\ LastInv(p) /\ FactorInv(p)

SieveInv ==
  n >= 3 =>
    /\ SievePrimes
    /\ \A p \in Workers : ~ Done(p) => AliveInv(p)

\* With n = 2 the first worker answers at the first number.
TwoInv ==
  n = 2 => worker[1].factor1 = 0 /\ \A i \in 1 .. Len(answers) : answers[i] = PrimeLine

\* The lines that can come of n: only factors up to MaxK are ever met.
Expected ==
  IF Prime(n) THEN {PrimeLine}
  ELSE LET factors == {p \in 2 .. MaxK : n % p = 0 /\ Prime(p)}
           products == {Product(p, q) : p, q \in factors}
           right == {x \in products : x.p <= x.q /\ x.p * x.q = n} IN
       IF right = {} THEN {NoProduct} ELSE right

AnswerExpected ==
  n >= 2 => \A i \in 1 .. Len(answers) : answers[i] \in Expected

PfactInv == ChainInv /\ SieveInv /\ TwoInv /\ AnswerExpected

-----------------------------------------------------------------------------
(* Arithmetic *)

\* A set of numbers that is not empty has a least one.
LEMMA Least ==
  ASSUME NEW T, T \subseteq Nat, T # {}
  PROVE  \E x \in T : \A y \in T : x <= y
<1>1. PICK x \in T : \A y \in T : ~ (<<y, x>> \in OpToRel(<, Nat))
  BY WFMin, NatLessThanWellFounded
<1>2. ASSUME NEW y \in T PROVE x <= y
  <2>1. x \in Nat /\ y \in Nat
    OBVIOUS
  <2>2. ~ (y < x)
    BY <1>1, <2>1 DEF OpToRel
  <2> QED BY <2>1, <2>2
<1> QED BY <1>2

\* Dividing, and what divides.
LEMMA DivMod ==
  ASSUME NEW x \in Nat, NEW d \in Nat \ {0}
  PROVE  x \div d \in Nat /\ x % d \in 0 .. d - 1 /\ x = d * (x \div d) + (x % d)
OBVIOUS

\* A multiple of d less than d, either way, is 0.
LEMMA SmallMultiple ==
  ASSUME NEW d \in Nat \ {0}, NEW c \in Int, NEW r \in Int, d * c = r, -d < r, r < d
  PROVE  c = 0 /\ r = 0
<1>1. CASE c >= 1
  <2>1. d * c >= d * 1
    BY <1>1
  <2> QED BY <2>1
<1>2. CASE c <= -1
  <2>1. d * c <= d * (-1)
    BY <1>2
  <2> QED BY <2>1
<1>3. CASE c = 0
  BY <1>3
<1> QED BY <1>1, <1>2, <1>3

LEMMA Multiple ==
  ASSUME NEW x \in Nat, NEW d \in Nat \ {0}
  PROVE  x % d = 0 <=> \E c \in Nat : x = d * c
<1> DEFINE q == x \div d
           r == x % d
<1>1. q \in Nat /\ r \in 0 .. d - 1 /\ x = d * q + r
  BY DivMod
<1> HIDE DEF q, r
<1>2. ASSUME NEW c \in Nat, x = d * c PROVE r = 0
  <2>1. d * (c - q) = d * c - d * q
    BY <1>1
  <2>2. d * (c - q) = r
    BY <1>1, <1>2, <2>1
  <2> QED BY <1>1, <2>2, SmallMultiple
<1>3. r = 0 => x = d * q
  BY <1>1
<1> QED BY <1>1, <1>2, <1>3 DEF r

LEMMA DividesThrough ==
  ASSUME NEW x \in Nat, NEW d \in Nat \ {0}, NEW e \in Nat \ {0}, x % d = 0, d % e = 0
  PROVE  x % e = 0
<1>1. PICK c \in Nat : x = d * c
  BY Multiple
<1>2. PICK b \in Nat : d = e * b
  BY Multiple
<1>3. x = e * (b * c) /\ b * c \in Nat
  BY <1>1, <1>2
<1> QED BY <1>3, Multiple

LEMMA DivisorFits ==
  ASSUME NEW x \in Nat \ {0}, NEW d \in Nat \ {0}, x % d = 0
  PROVE  d <= x
<1>1. PICK c \in Nat : x = d * c
  BY Multiple
<1>2. c # 0
  BY <1>1
<1>3. d * c >= d * 1
  BY <1>2
<1> QED BY <1>1, <1>3

\* A number that is not prime has a prime divisor no greater than its root.
LEMMA SmallDivisor ==
  ASSUME NEW x \in Nat, x >= 2, ~ Prime(x)
  PROVE  \E d \in 2 .. x - 1 : Prime(d) /\ x % d = 0 /\ d * d <= x
<1> DEFINE T == {d \in 2 .. x - 1 : x % d = 0}
<1>0. PICK e \in 2 .. x - 1 : x % e = 0
  BY DEF Prime
<1>1. T # {} /\ T \subseteq Nat
  <2>1. e \in T
    BY <1>0
  <2>2. T \subseteq Nat
    OBVIOUS
  <2> HIDE DEF T
  <2> QED BY <2>1, <2>2
<1>2. PICK d \in T : \A y \in T : d <= y
  BY <1>1, Least
<1>3. d \in Nat \ {0} /\ d \in 2 .. x - 1 /\ x % d = 0
  BY <1>2
<1>4. Prime(d)
  <2>1. ASSUME NEW f \in 2 .. d - 1, d % f = 0 PROVE FALSE
    <3>1. f \in Nat \ {0} /\ f \in 2 .. x - 1 /\ ~ (d <= f)
      BY <1>3
    <3>2. x % f = 0
      BY <1>3, <2>1, <3>1, DividesThrough
    <3>3. f \in T
      BY <3>1, <3>2
    <3> QED BY <1>2, <3>1, <3>3
  <2>2. d >= 2
    BY <1>3
  <2> QED BY <2>1, <2>2 DEF Prime
<1>5. PICK c \in Nat : x = d * c
  BY <1>3, Multiple
<1>6. c >= 2
  <2>1. c # 0
    BY <1>3, <1>5
  <2>2. c # 1
    BY <1>3, <1>5
  <2> QED BY <2>1, <2>2
<1>7. c \in T
  <2>1. x = c * d
    BY <1>3, <1>5
  <2>2. x % c = 0
    BY <1>3, <1>6, <2>1, Multiple
  <2>3. c < x
    <3>1. c * d >= c * 2
      BY <1>3, <1>6
    <3> QED BY <1>6, <2>1, <3>1
  <2> QED BY <1>6, <2>2, <2>3
<1>8. d * d <= x
  <2>1. d <= c
    BY <1>2, <1>7
  <2>2. d * d <= d * c
    BY <1>3, <2>1
  <2> QED BY <1>5, <2>2
<1> QED BY <1>3, <1>4, <1>8

LEMMA PrimeDivisor ==
  ASSUME NEW x \in Nat, x >= 2
  PROVE  \E d \in 2 .. x : Prime(d) /\ x % d = 0
<1>1. CASE Prime(x)
  <2>1. x = x * 1
    OBVIOUS
  <2>2. x % x = 0
    BY <2>1, Multiple
  <2> QED BY <1>1, <2>2
<1>2. CASE ~ Prime(x)
  BY <1>2, SmallDivisor
<1> QED BY <1>1, <1>2

LEMMA PrimeDivides ==
  ASSUME NEW x \in Nat, NEW d \in Nat, Prime(x), d >= 2, x % d = 0
  PROVE  d = x
<1>1. x >= 2
  BY DEF Prime
<1>2. d <= x
  BY <1>1, DivisorFits
<1> QED BY <1>1, <1>2 DEF Prime

\* A prime that divides a product divides one of its factors: of the numbers d of
\* which it divides d * b, the least divides a and the prime.
LEMMA PrimeFactor ==
  ASSUME NEW x \in Nat, Prime(x), NEW a \in Nat, NEW b \in Nat, (a * b) % x = 0
  PROVE  a % x = 0 \/ b % x = 0
<1>0. x >= 2 /\ x \in Nat \ {0}
  BY DEF Prime
<1> DEFINE T == {d \in Nat \ {0} : (d * b) % x = 0}
<1>1. x \in T
  <2>1. (x * b) % x = 0
    <3>1. x * b \in Nat
      OBVIOUS
    <3> QED BY <1>0, <3>1, Multiple
  <2> QED BY <1>0, <2>1
<1>2. PICK d \in T : \A y \in T : d <= y
  BY <1>1, Least
<1>3. d \in Nat \ {0} /\ (d * b) % x = 0
  BY <1>2
<1>4. ASSUME NEW y \in Nat, (y * b) % x = 0 PROVE y % d = 0
  <2> DEFINE q == y \div d
             r == y % d
  <2>1. q \in Nat /\ r \in 0 .. d - 1 /\ y = d * q + r
    BY <1>3, DivMod
  <2> HIDE DEF q, r
  <2>2. d * b \in Nat /\ y * b \in Nat /\ r \in Nat /\ r * b \in Nat
    BY <1>3, <2>1
  <2>3. PICK e \in Nat : d * b = x * e
    BY <1>0, <1>3, <2>2, Multiple
  <2>4. PICK f \in Nat : y * b = x * f
    BY <1>0, <1>4, <2>2, Multiple
  <2>5. r * b = x * (f - e * q)
    <3>1. y * b = (d * b) * q + r * b
      BY <1>3, <2>1
    <3>2. y * b = (x * e) * q + r * b
      BY <2>3, <3>1
    <3>3. (x * e) * q = x * (e * q)
      BY <1>0, <2>1
    <3>4. r * b = x * f - x * (e * q)
      <4>1. x * (e * q) \in Int /\ x * f \in Int /\ r * b \in Int
        BY <1>0, <2>1
      <4> QED BY <2>4, <3>2, <3>3, <4>1
    <3>5. x * (f - e * q) = x * f - x * (e * q)
      BY <1>0, <2>1
    <3> QED BY <3>4, <3>5
  <2>6. f - e * q >= 0
    <3> SUFFICES ASSUME f - e * q <= -1 PROVE FALSE
      BY <2>1
    <3>1. f - e * q \in Int
      BY <2>1
    <3>2. x * (f - e * q) <= x * (-1)
      BY <1>0, <3>1
    <3> QED BY <1>0, <2>2, <2>5, <3>2
  <2>7. (r * b) % x = 0
    <3>1. f - e * q \in Nat
      BY <2>1, <2>6
    <3> QED BY <1>0, <2>2, <2>5, <3>1, Multiple
  <2>8. r = 0
    <3> SUFFICES ASSUME r # 0 PROVE FALSE
      OBVIOUS
    <3>1. r \in T
      BY <2>1, <2>7
    <3>2. ~ (d <= r)
      BY <1>3, <2>1
    <3> QED BY <1>2, <3>1, <3>2
  <2> QED BY <2>8 DEF r
<1>5. a % d = 0
  BY <1>4
<1>6. x % d = 0
  BY <1>1, <1>4
<1>7. d = 1 \/ d = x
  <2>1. d >= 2 => d = x
    BY <1>3, <1>6, PrimeDivides
  <2> QED BY <1>3, <2>1
<1>8. CASE d = 1
  BY <1>3, <1>8
<1>9. CASE d = x
  BY <1>5, <1>9
<1> QED BY <1>7, <1>8, <1>9

\* Two primes that divide a number are two of its factors.
LEMMA TwoPrimes ==
  ASSUME NEW x \in Nat \ {0}, NEW p \in Nat, NEW q \in Nat, Prime(p), Prime(q), p # q,
         x % p = 0, x % q = 0
  PROVE  p * q <= x
<1>0. p >= 2 /\ q >= 2
  BY DEF Prime
<1>1. PICK c \in Nat : x = p * c
  <2>1. p \in Nat \ {0} /\ x \in Nat
    BY <1>0
  <2> QED BY <2>1, Multiple
<1>2. p % q # 0
  BY <1>0, PrimeDivides
<1>3. c % q = 0
  BY <1>1, <1>2, PrimeFactor
<1>4. PICK b \in Nat : c = q * b
  BY <1>0, <1>3, Multiple
<1>5. x = (p * q) * b
  BY <1>1, <1>4
<1>6. b >= 1
  BY <1>5
<1>7. p * q \in Nat
  BY <1>0
<1>8. (p * q) * b >= (p * q) * 1
  BY <1>6, <1>7
<1> QED BY <1>5, <1>7, <1>8

\* ceil(sqrt(n)).
LEMMA MaxKIs ==
  ASSUME n \in Nat
  PROVE  /\ MaxK \in 0 .. n /\ MaxK * MaxK >= n
         /\ \A j \in 0 .. MaxK - 1 : j * j < n
<1> DEFINE T == {k \in Nat : k * k >= n}
           Root(k) == k * k >= n /\ \A j \in 0 .. k - 1 : j * j < n
<1>1. n \in T
  <2>1. CASE n = 0
    BY <2>1
  <2>2. CASE n >= 1
    <3>1. n * n >= n * 1
      BY <2>2
    <3> QED BY <3>1
  <2> QED BY <2>1, <2>2
<1>2. PICK k \in T : \A y \in T : k <= y
  BY <1>1, Least
<1>3. k \in 0 .. n /\ k * k >= n
  BY <1>1, <1>2
<1>4. ASSUME NEW j \in 0 .. k - 1 PROVE j * j < n
  <2>1. j \in Nat /\ j * j \in Nat /\ ~ (k <= j)
    BY <1>3
  <2>2. j \notin T
    BY <1>2, <2>1
  <2> QED BY <2>1, <2>2
<1>5. \E r \in 0 .. n : Root(r)
  BY <1>3, <1>4
<1>6. MaxK = CHOOSE r \in 0 .. n : Root(r)
  BY DEF MaxK
<1> HIDE DEF Root
<1>7. MaxK \in 0 .. n /\ Root(MaxK)
  BY <1>5, <1>6
<1> QED BY <1>7 DEF Root

LEMMA MaxKRange ==
  ASSUME n \in Nat
  PROVE  /\ MaxK \in Nat /\ MaxK <= n
         /\ n >= 2 => MaxK >= 2
         /\ n >= 3 => MaxK < n
         /\ n < 2 => MaxK < 2
<1>1. /\ MaxK \in 0 .. n /\ MaxK * MaxK >= n
      /\ \A j \in 0 .. MaxK - 1 : j * j < n
  BY MaxKIs
<1>2. n >= 2 => MaxK >= 2
  <2> SUFFICES ASSUME n >= 2, MaxK = 0 \/ MaxK = 1 PROVE FALSE
    BY <1>1
  <2>1. MaxK * MaxK <= 1
    OBVIOUS
  <2> QED BY <1>1, <2>1
<1>3. n >= 3 => MaxK < n
  <2> SUFFICES ASSUME n >= 3, MaxK = n PROVE FALSE
    BY <1>1
  <2>1. (n - 1) * (n - 1) < n
    BY <1>1
  <2>2. (n - 1) * (n - 1) >= (n - 1) * 2
    OBVIOUS
  <2> QED BY <2>1, <2>2
<1> QED BY <1>1, <1>2, <1>3

\* A status that grows by one stays the remainder of what it counts.
LEMMA StatusCounts ==
  ASSUME NEW x \in Nat
  PROVE  /\ ExitStatus((x % ExitMod) + 1) = (x + 1) % ExitMod
         /\ x % ExitMod \in Nat /\ x % ExitMod < ExitMod
         /\ 0 % ExitMod = 0 /\ 1 % ExitMod = 1
<1>0. ExitMod \in Nat \ {0} /\ ExitMod >= 2
  BY PfactAssumption
<1> DEFINE q == x \div ExitMod
           r == x % ExitMod
<1>1. q \in Nat /\ r \in 0 .. ExitMod - 1 /\ x = ExitMod * q + r
  BY <1>0, DivMod
<1>2. \A y \in Nat : y < ExitMod => y % ExitMod = y
  BY <1>0
<1>3. (x + 1) % ExitMod = (r + 1) % ExitMod
  <2> DEFINE s == (x + 1) % ExitMod
             t == (x + 1) \div ExitMod
             u == (r + 1) % ExitMod
             v == (r + 1) \div ExitMod
  <2>1. t \in Nat /\ s \in 0 .. ExitMod - 1 /\ x + 1 = ExitMod * t + s
    BY <1>0, DivMod, x + 1 \in Nat
  <2>2. v \in Nat /\ u \in 0 .. ExitMod - 1 /\ r + 1 = ExitMod * v + u
    BY <1>0, <1>1, DivMod, r + 1 \in Nat
  <2> HIDE DEF q, r, s, t, u, v
  <2>3. ExitMod * (q + v - t) = s - u
    <3>1. ExitMod * (q + v - t) = ExitMod * q + ExitMod * v - ExitMod * t
      BY <1>0, <1>1, <2>1, <2>2
    <3> QED BY <1>0, <1>1, <2>1, <2>2, <3>1
  <2>4. s - u = 0
    BY <1>0, <1>1, <2>1, <2>2, <2>3, SmallMultiple
  <2>5. s = u
    BY <2>1, <2>2, <2>4
  <2> QED BY <2>5 DEF s, u
<1> QED BY <1>0, <1>1, <1>2, <1>3 DEF ExitStatus
-----------------------------------------------------------------------------
(* The operators *)

AnswerLines == {PrimeLine, NoProduct} \cup {Product(p, q) : p, q \in 1 .. n}

\* What a worker prints is one line, or nothing.
LEMMA LinesAre ==
  ASSUME NEW w \in Worker, w.m >= 1, n \in Numbers, w.factor1 # 0 => n % w.factor1 = 0,
         n = 0 => w.m = 2 /\ w.factor1 \in {0, 2}
  PROVE  Lines(w) = << >> \/ \E line \in AnswerLines : Lines(w) = <<line>>
<1>1. n \in Nat /\ w.m \in Nat \ {0} /\ w.factor1 \in Nat /\ IntMod \in Nat /\ IntMod > 4
  BY PfactAssumption DEF Worker
<1>2. CASE n = 0
  <2>1. w.m * w.m = 4 /\ (w.factor1 # 0 => w.factor1 * w.m = 4) /\ 4 % IntMod = 4
    BY <1>1, <1>2
  <2> QED BY <1>2, <2>1 DEF Lines
<1>3. CASE n # 0 /\ Divides(w.m, n)
  <2>1. w.m \in 1 .. n
    BY <1>1, <1>3, DivisorFits DEF Divides
  <2>2. w.factor1 # 0 => w.factor1 \in 1 .. n
    BY <1>1, <1>3, DivisorFits
  <2>3. Product(w.m, w.m) \in AnswerLines
    BY <2>1 DEF AnswerLines
  <2>4. w.factor1 # 0 => Product(w.factor1, w.m) \in AnswerLines
    BY <2>1, <2>2 DEF AnswerLines
  <2>5. PrimeLine \in AnswerLines /\ NoProduct \in AnswerLines
    BY DEF AnswerLines
  <2> QED BY <2>3, <2>4, <2>5 DEF Lines
<1>4. CASE ~ Divides(w.m, n)
  BY <1>4 DEF Lines
<1> QED BY <1>2, <1>3, <1>4

\* What a worker prints depends on its m and its factor.
LEMMA SameLines ==
  ASSUME NEW v, NEW w, v.m = w.m, v.factor1 = w.factor1
  PROVE  Lines(v) = Lines(w)
BY DEF Lines

LEMMA LinesNext ==
  ASSUME n' = n, NEW p, NEW w, worker'[p].m = w.m, worker'[p].factor1 = w.factor1
  PROVE  Lines(worker[p])' = Lines(w)
BY DEF Lines, Divides

\* A worker that found nothing to print will not find it later.
LEMMA TestedGoesOn ==
  ASSUME NEW w \in Worker, w.m >= 1, Lines(w) = << >>
  PROVE  /\ Tested(w) \in Worker /\ Tested(w).pc = "read"
         /\ Tested(w).in = w.in /\ Tested(w).cur = w.cur
         /\ Tested(w).m = w.m /\ Tested(w).code = w.code
         /\ Tested(w).factor1 = IF Divides(w.m, n) /\ w.factor1 = 0 THEN w.m ELSE w.factor1
         /\ Lines(Tested(w)) = << >>
<1> DEFINE f == IF Divides(w.m, n) /\ w.factor1 = 0 THEN w.m ELSE w.factor1
           v == [w EXCEPT !.pc = "read", !.factor1 = f]
<1>1. f \in Nat /\ f = IF Divides(w.m, n) /\ w.factor1 = 0 THEN w.m ELSE w.factor1
  BY DEF Worker
<1>2. Tested(w) = v
  BY DEF Tested
<1> HIDE DEF f
<1>3. /\ v \in Worker /\ v.pc = "read" /\ v.in = w.in /\ v.cur = w.cur /\ v.m = w.m
      /\ v.code = w.code /\ v.factor1 = f
  BY <1>1 DEF Worker, WorkerPCs
<1> HIDE DEF v
<1>4. Lines(v) = << >>
  <2>1. CASE f = w.factor1
    BY <1>3, <2>1, SameLines
  <2>2. CASE f # w.factor1
    <3>1. f = w.m /\ w.factor1 = 0 /\ Divides(w.m, n)
      BY <1>1, <2>2
    <3>2. (w.m * w.m) % IntMod # n
      BY <3>1 DEF Lines
    <3> QED BY <1>3, <3>1, <3>2 DEF Lines
  <2> QED BY <2>1, <2>2
<1> QED BY <1>1, <1>2, <1>3, <1>4

LEMMA TestedExits ==
  ASSUME NEW w \in Worker, Lines(w) # << >>
  PROVE  /\ Tested(w) \in Worker /\ Tested(w).pc = "exiting"
         /\ Tested(w).in = w.in /\ Tested(w).m = w.m /\ Tested(w).factor1 = w.factor1
         /\ Tested(w).cur = w.cur
         /\ Tested(w).code = IF Lines(w) = <<PrimeLine>> THEN 0 ELSE 1
<1> DEFINE c == IF Lines(w) = <<PrimeLine>> THEN 0 ELSE 1
<1>1. c \in Nat /\ Tested(w) = [w EXCEPT !.pc = "exiting", !.code = c]
  BY DEF Tested
<1> HIDE DEF c
<1>2. [w EXCEPT !.pc = "exiting", !.code = c].code = c
  BY <1>1 DEF Worker
<1>3. /\ Tested(w) \in Worker /\ Tested(w).pc = "exiting"
      /\ Tested(w).in = w.in /\ Tested(w).m = w.m /\ Tested(w).factor1 = w.factor1
      /\ Tested(w).cur = w.cur
  BY <1>1 DEF Worker, WorkerPCs
<1> QED BY <1>1, <1>2, <1>3 DEF c

-----------------------------------------------------------------------------
(* How the actions change the workers *)

\* Only p becomes another worker, w; or p and the next one, v.
OnlyAt(p, w) ==
  /\ worker' \in Seq(Worker) /\ Len(worker') = Len(worker) /\ worker'[p] = w
  /\ \A q \in Workers : q # p => worker'[q] = worker[q]

AtBoth(p, w, v) ==
  /\ worker' \in Seq(Worker) /\ Len(worker') = Len(worker)
  /\ worker'[p] = w /\ worker'[p + 1] = v
  /\ \A q \in Workers : q # p /\ q # p + 1 => worker'[q] = worker[q]

LEMMA SetOne ==
  ASSUME worker \in Seq(Worker), NEW p \in Workers, NEW w \in Worker,
         worker' = [worker EXCEPT ![p] = w]
  PROVE  OnlyAt(p, w)
BY ExceptSeq DEF OnlyAt, Workers

LEMMA SetTwo ==
  ASSUME worker \in Seq(Worker), NEW p \in Workers, p + 1 \in Workers, NEW w \in Worker,
         NEW v \in Worker, worker' = [worker EXCEPT ![p] = w, ![p + 1] = v]
  PROVE  AtBoth(p, w, v)
<1> DEFINE one == [worker EXCEPT ![p] = w]
<1>1. /\ one \in Seq(Worker) /\ Len(one) = Len(worker)
      /\ \A q \in Workers : one[q] = IF q = p THEN w ELSE worker[q]
  BY ExceptSeq DEF Workers
<1>2. worker' = [one EXCEPT ![p + 1] = v]
  OBVIOUS
<1> HIDE DEF one
<1>3. /\ worker' \in Seq(Worker) /\ Len(worker') = Len(worker)
      /\ \A q \in Workers : worker'[q] = IF q = p + 1 THEN v ELSE one[q]
  BY <1>1, <1>2, ExceptSeq DEF Workers
<1>4. p # p + 1
  BY DEF Workers
<1> QED BY <1>1, <1>3, <1>4 DEF AtBoth

\* What is in a pipe after a write and after a read.
LEMMA PipeWritten ==
  ASSUME NEW in \in Seq(Int), NEW x \in Int
  PROVE  /\ Append(in, x) \in Seq(Int) /\ Len(Append(in, x)) = Len(in) + 1
         /\ Append(in, x) # << >>
         /\ \A i \in 1 .. Len(in) : Append(in, x)[i] = in[i]
         /\ Append(in, x)[Len(in) + 1] = x
         /\ Head(Append(in, x)) = IF in = << >> THEN x ELSE Head(in)
<1>1. /\ Append(in, x) \in Seq(Int) /\ Len(Append(in, x)) = Len(in) + 1 /\ Len(in) \in Nat
      /\ \A i \in 1 .. Len(in) : Append(in, x)[i] = in[i]
      /\ Append(in, x)[Len(in) + 1] = x
  BY AppendProperties
<1>2. Append(in, x) # << >>
  BY <1>1
<1>3. Head(Append(in, x)) = Append(in, x)[1]
  BY <1>1, <1>2
<1>4. Append(in, x)[1] = IF in = << >> THEN x ELSE Head(in)
  BY <1>1
<1> QED BY <1>1, <1>2, <1>3, <1>4

LEMMA PipeRead ==
  ASSUME NEW in \in Seq(Int), in # << >>
  PROVE  /\ Head(in) \in Int /\ Head(in) = in[1] /\ Len(in) \in Nat \ {0}
         /\ Tail(in) \in Seq(Int) /\ Len(Tail(in)) = Len(in) - 1
         /\ \A i \in 1 .. Len(in) - 1 : Tail(in)[i] = in[i + 1]
BY HeadTailProperties, EmptySeq

\* The bounds of the loop and the numbers sent do not change with n.
LEMMA SameStream ==
  ASSUME n' = n
  PROVE  MaxK' = MaxK /\ Stream' = Stream /\ AnswerLines' = AnswerLines
BY DEF MaxK, Stream, AnswerLines

LEMMA WorkerFacts ==
  ASSUME TypeOK, NEW p \in Workers
  PROVE  /\ worker \in Seq(Worker) /\ worker[p] \in Worker
         /\ worker[p].pc \in WorkerPCs /\ worker[p].in \in Seq(Int) /\ worker[p].cur \in Int
         /\ worker[p].m \in Nat /\ worker[p].factor1 \in Nat /\ worker[p].code \in Nat
         /\ Len(worker) \in Nat /\ p \in Nat \ {0} /\ p <= Len(worker)
<1>1. worker \in Seq(Worker) /\ worker[p] \in Worker
  BY ElementOfSeq DEF TypeOK, Workers
<1>2. Len(worker) \in Nat
  BY <1>1, LenProperties
<1>3. p \in Nat \ {0} /\ p <= Len(worker)
  BY <1>2 DEF Workers
<1> QED BY <1>1, <1>2, <1>3 DEF Worker

\* A step in which no worker exits, is waited for, or answers.
Quiet ==
  /\ worker' \in Seq(Worker) /\ Len(worker') = Len(worker)
  /\ n' = n /\ answers' = answers
  /\ \A q \in Workers :
       /\ worker'[q].code = worker[q].code
       /\ worker'[q].pc = worker[q].pc \/ (~ Done(q) /\ worker'[q].pc \in WorkerPCs
            /\ worker'[q].pc \notin {"exiting", "exited", "reaped", "readM"})
       /\ Len(worker'[q].in) <= PipeRoom

\* It changes nothing in what is known of exits and answers.
LEMMA QuietExits ==
  ASSUME ChainInv, Quiet
  PROVE  /\ ExitInv' /\ AnswerInv' /\ Workers' = Workers
         /\ \A q \in Workers : Done(q)' <=> Done(q)
         /\ \A q \in Workers : worker'[q].pc = "reaped" <=> worker[q].pc = "reaped"
<1>1. Workers' = Workers /\ Len(worker) \in Workers
  BY WorkerFacts DEF Quiet, Workers, ChainInv, FirstInv
<1>2. \A q \in Workers : Done(q)' <=> Done(q)
  BY DEF Quiet, Done
<1>3. \A q \in Workers : worker'[q].pc = "reaped" <=> worker[q].pc = "reaped"
  BY DEF Quiet, Done
<1>4. ExitInv'
  <2>1. ASSUME NEW p \in Workers, NEW q \in Workers, p < q, Done(p)' PROVE worker'[q].pc = "reaped"
    BY <1>2, <1>3, <2>1 DEF ChainInv, ExitInv
  <2>2. ASSUME NEW p \in Workers, p > 1, worker'[p].pc = "reaped" PROVE Done(p - 1)'
    <3>1. p - 1 \in Workers
      BY <2>2 DEF Workers
    <3>2. Done(p - 1)
      BY <1>3, <2>2 DEF ChainInv, ExitInv
    <3>3. worker'[p - 1].pc = worker[p - 1].pc
      BY <3>1, <3>2 DEF Quiet
    <3> QED BY <3>2, <3>3 DEF Done
  <2> QED BY <1>1, <2>1, <2>2 DEF ExitInv
<1>5. AnswerInv'
  <2>1. Done(Len(worker))' <=> Done(Len(worker))
    <3>1. worker'[Len(worker)].pc = worker[Len(worker)].pc \/
            (~ Done(Len(worker)) /\ worker'[Len(worker)].pc \notin {"exiting", "exited", "reaped"})
      BY <1>1 DEF Quiet
    <3>2. Len(worker') = Len(worker)
      BY DEF Quiet
    <3> QED BY <3>1, <3>2 DEF Done
  <2>2. Found' = Found
    BY DEF Found, Quiet
  <2>3. Len(worker)' = Len(worker) /\ answers' = answers
    BY DEF Quiet
  <2>4. \A q \in Workers : Done(q)' => worker'[q].code = (Len(worker) - q + 1 - Found) % ExitMod
    BY <1>2 DEF Quiet, ChainInv, AnswerInv
  <2> QED BY <1>1, <2>1, <2>2, <2>3, <2>4 DEF ChainInv, AnswerInv
<1> QED BY <1>1, <1>2, <1>3, <1>4, <1>5

LEMMA QuietTypes ==
  ASSUME ChainInv, Quiet, master' \in Master, master'.code < ExitMod
  PROVE  TypeOK'
<1>1. Workers' = Workers
  BY QuietExits
<1>2. \A q \in Workers : worker'[q].code < ExitMod /\ Len(worker'[q].in) <= PipeRoom
  BY DEF Quiet, ChainInv, TypeOK, Workers
<1> QED BY <1>1, <1>2, SameStream DEF Quiet, ChainInv, TypeOK, Workers

LEMMA QuietMaster ==
  ASSUME ChainInv, Quiet, master' = master
  PROVE  MasterInv'
<1>1. 1 \in Workers
  BY WorkerFacts DEF Workers, ChainInv, FirstInv
<1>2. /\ worker'[1].pc = "reaped" <=> worker[1].pc = "reaped"
      /\ HasExited(1) => worker'[1].pc = worker[1].pc
      /\ worker'[1].code = worker[1].code
  BY <1>1, QuietExits DEF Quiet, HasExited, Done
<1>3. MaxK' = MaxK
  BY SameStream DEF Quiet
<1> QED BY <1>2, <1>3 DEF ChainInv, MasterInv, HasExited

\* A quiet step of one worker, p, which goes on.
LEMMA QuietOne ==
  ASSUME ChainInv, NEW p \in Workers, ~ Done(p), NEW w \in Worker, OnlyAt(p, w),
         UNCHANGED <<n, master, answers>>,
         w.pc \in {"read", "poll", "dispatch", "waitEnd"}, w.code = worker[p].code,
         Len(w.in) <= PipeRoom, NumbersOf(w),
         w.pc \in {"poll", "waitEnd"} => HasChild(p),
         p = 1 => w.m = 2 /\ w.factor1 \in {0, 2},
         HasChild(p) => w.m = worker[p].m,
         HasChild(p) /\ worker[p + 1].pc = "readM" => worker[p + 1].in # << >>,
         Lines(w) = << >> \/ (p = 1 /\ ~ HasChild(1) /\ AtStart')
  PROVE  ChainInv'
<1>1. /\ worker' \in Seq(Worker) /\ Len(worker') = Len(worker) /\ worker'[p] = w
      /\ \A q \in Workers : q # p => worker'[q] = worker[q]
      /\ Workers' = Workers /\ 1 \in Workers /\ Len(worker) \in Nat /\ p \in Nat /\ p <= Len(worker)
  BY WorkerFacts DEF OnlyAt, Workers, ChainInv, FirstInv
<1>2. Quiet
  BY SMTT(30), <1>1 DEF Quiet, ChainInv, TypeOK, WorkerPCs, Workers
<1>3. TypeOK' /\ MasterInv' /\ ExitInv' /\ AnswerInv'
  BY <1>2, QuietExits, QuietTypes, QuietMaster DEF ChainInv, TypeOK
<1>4. \A q \in Workers : HasChild(q)' <=> HasChild(q)
  BY <1>1 DEF HasChild
<1>5. NumbersInv'
  <2>1. ASSUME NEW q \in Workers
        PROVE  NumbersOf(worker[q])' /\ (worker'[q].pc \in {"poll", "waitEnd"} => HasChild(q)')
    <3>1. CASE q = p
      BY <1>1, <1>4, <3>1, SameStream DEF NumbersOf
    <3>2. CASE q # p
      <4>1. NumbersOf(worker[q]) /\ (worker[q].pc \in {"poll", "waitEnd"} => HasChild(q))
        BY DEF ChainInv, NumbersInv
      <4> QED BY <1>1, <1>4, <3>2, <4>1, SameStream DEF NumbersOf
    <3> QED BY <3>1, <3>2
  <2> QED BY <1>1, <2>1 DEF NumbersInv
<1>6. FirstInv'
  <2>1. CASE p = 1
    BY <1>1, <2>1 DEF ChainInv, FirstInv
  <2>2. CASE p # 1
    BY <1>1, <2>2 DEF ChainInv, FirstInv
  <2> QED BY <2>1, <2>2
<1>7. NewInv'
  <2> SUFFICES ASSUME NEW q \in Workers, worker'[q].pc = "readM"
               PROVE  /\ q = Len(worker) /\ worker'[q].cur \in Stream \ {END, 0}
                      /\ worker'[q].cur % worker'[q - 1].m # 0
                      /\ worker'[q].in = << >> =>
                           worker'[q - 1].pc = "dispatch" /\ worker'[q - 1].cur = worker'[q].cur
                      /\ worker'[q].in # << >> => Head(worker'[q].in) = worker'[q].cur
    BY <1>1, SameStream DEF NewInv, Divides
  <2>1. q # p /\ worker[q].pc = "readM" /\ q # 1 /\ worker'[q] = worker[q]
    BY <1>1 DEF ChainInv, FirstInv
  <2>2. /\ q = Len(worker) /\ worker[q].cur \in Stream \ {END, 0}
        /\ worker[q].cur % worker[q - 1].m # 0
        /\ worker[q].in = << >> =>
             worker[q - 1].pc = "dispatch" /\ worker[q - 1].cur = worker[q].cur
        /\ worker[q].in # << >> => Head(worker[q].in) = worker[q].cur
    BY <2>1 DEF ChainInv, NewInv, Divides
  <2>3. q - 1 \in Workers
    BY <1>1, <2>1 DEF Workers
  <2>4. CASE q - 1 # p
    BY <1>1, <2>1, <2>2, <2>3, <2>4
  <2>5. CASE q - 1 = p
    <3>1. HasChild(p) /\ p + 1 = q
      BY <1>1, <2>2, <2>5 DEF HasChild, Workers
    <3> QED BY <1>1, <2>1, <2>2, <2>5, <3>1
  <2> QED BY <2>4, <2>5
<1>8. TestedInv'
  <2> SUFFICES ASSUME NEW q \in Workers, worker'[q].pc \in {"read", "poll", "dispatch", "waitEnd"}
               PROVE  Lines(worker[q])' = << >> \/ (q = 1 /\ ~ HasChild(1)' /\ AtStart')
    BY <1>1 DEF TestedInv
  <2>1. CASE q = p
    <3>1. Lines(worker[q])' = Lines(w)
      BY <1>1, <2>1, LinesNext
    <3> QED BY <1>1, <1>4, <2>1, <3>1
  <2>2. CASE q # p
    <3>1. Lines(worker[q])' = Lines(worker[q])
      BY <1>1, <2>2, LinesNext
    <3>2. Lines(worker[q]) = << >> \/ (q = 1 /\ ~ HasChild(1))
      BY <1>1, <2>2 DEF ChainInv, TestedInv
    <3>3. q = 1 => HasChild(1)
      BY <1>1, <2>2 DEF HasChild, Workers
    <3> QED BY <3>1, <3>2, <3>3
  <2> QED BY <2>1, <2>2
<1> QED BY <1>3, <1>5, <1>6, <1>7, <1>8 DEF ChainInv

-----------------------------------------------------------------------------
(* The steps of a worker that goes on *)

\* The numbers of the stream.
LEMMA StreamNumbers ==
  ASSUME n \in Numbers
  PROVE  /\ n \in Nat /\ Stream \subseteq Int
         /\ \A x \in Stream : x = END \/ x \in Nat
BY PfactAssumption, MaxKRange DEF Stream, END

LEMMA ReadNumberChain ==
  ASSUME ChainInv, NEW p \in Workers, ReadNumber(p)
  PROVE  ChainInv'
<1> DEFINE next == IF HasChild(p) THEN "poll" ELSE "dispatch"
           w == [worker[p] EXCEPT !.cur = Head(worker[p].in), !.in = Tail(worker[p].in),
                                  !.pc = next]
<1>1. /\ worker \in Seq(Worker) /\ worker[p] \in Worker /\ p \in Nat \ {0}
      /\ worker[p].pc = "read" /\ worker[p].in # << >> /\ worker[p].in \in Seq(Int)
      /\ UNCHANGED <<n, master, answers>>
  BY WorkerFacts DEF ReadNumber, ChainInv
<1>2. /\ Head(worker[p].in) \in Int /\ Head(worker[p].in) = worker[p].in[1]
      /\ Len(worker[p].in) \in Nat \ {0}
      /\ Tail(worker[p].in) \in Seq(Int) /\ Len(Tail(worker[p].in)) = Len(worker[p].in) - 1
      /\ \A i \in 1 .. Len(worker[p].in) - 1 : Tail(worker[p].in)[i] = worker[p].in[i + 1]
  BY <1>1, PipeRead
<1>3. next \in {"poll", "dispatch"} /\ (next = "poll" <=> HasChild(p))
  OBVIOUS
<1> HIDE DEF next
<1>4. /\ w \in Worker /\ w.cur = Head(worker[p].in) /\ w.in = Tail(worker[p].in) /\ w.pc = next
      /\ w.m = worker[p].m /\ w.factor1 = worker[p].factor1 /\ w.code = worker[p].code
  BY <1>1, <1>2, <1>3 DEF Worker, WorkerPCs
<1>5. worker' = [worker EXCEPT ![p] = w]
  BY <1>1 DEF ReadNumber, next
<1> HIDE DEF w
<1>6. OnlyAt(p, w)
  BY <1>1, <1>4, <1>5, SetOne
<1>7. NumbersOf(w)
  BY <1>1, <1>2, <1>4 DEF ChainInv, NumbersInv, NumbersOf
<1>8. Len(w.in) <= PipeRoom
  BY <1>1, <1>2, <1>4, PfactAssumption DEF ChainInv, TypeOK, Workers
<1>9. Lines(w) = << >> \/ (p = 1 /\ ~ HasChild(1) /\ AtStart')
  <2>1. Lines(w) = Lines(worker[p])
    BY <1>4, SameLines
  <2>2. Lines(worker[p]) = << >> \/ (p = 1 /\ ~ HasChild(1) /\ AtStart)
    BY <1>1 DEF ChainInv, TestedInv
  <2>3. p = 1 /\ AtStart => Head(worker[p].in) = 2
    BY <1>1 DEF AtStart
  <2>4. p = 1 /\ ~ HasChild(1) /\ AtStart => worker'[1].pc = "dispatch" /\ worker'[1].cur = 2
    BY <1>3, <1>4, <1>6, <2>3 DEF OnlyAt
  <2> QED BY <2>1, <2>2, <2>4 DEF AtStart
<1>10. HasChild(p) /\ worker[p + 1].pc = "readM" => worker[p + 1].in # << >>
  <2> SUFFICES ASSUME HasChild(p), worker[p + 1].pc = "readM", worker[p + 1].in = << >> PROVE FALSE
    OBVIOUS
  <2>1. p + 1 \in Workers /\ p + 1 - 1 = p
    BY <1>1, WorkerFacts DEF HasChild, Workers, ChainInv
  <2> QED BY <1>1, <2>1 DEF ChainInv, NewInv
<1>11. p = 1 => w.m = 2 /\ w.factor1 \in {0, 2}
  BY <1>4 DEF ChainInv, FirstInv
<1>12. ~ Done(p)
  BY <1>1 DEF Done
<1> QED BY <1>1, <1>3, <1>4, <1>6, <1>7, <1>8, <1>9, <1>10, <1>11, <1>12, QuietOne

LEMMA PollGoesOn ==
  ASSUME ChainInv, NEW p \in Workers, PollChild(p), worker[p + 1].pc # "exited"
  PROVE  ChainInv'
<1> DEFINE w == [worker[p] EXCEPT !.pc = "dispatch"]
<1>1. /\ worker \in Seq(Worker) /\ worker[p] \in Worker /\ p \in Nat \ {0}
      /\ worker[p].pc = "poll" /\ HasChild(p) /\ UNCHANGED <<n, master, answers>>
  BY WorkerFacts DEF PollChild, ChainInv, NumbersInv
<1>2. /\ w \in Worker /\ w.pc = "dispatch" /\ w.cur = worker[p].cur /\ w.in = worker[p].in
      /\ w.m = worker[p].m /\ w.factor1 = worker[p].factor1 /\ w.code = worker[p].code
  BY <1>1 DEF Worker, WorkerPCs
<1>3. worker' = [worker EXCEPT ![p] = w]
  BY <1>1 DEF PollChild
<1> HIDE DEF w
<1>4. OnlyAt(p, w)
  BY <1>1, <1>2, <1>3, SetOne
<1>5. NumbersOf(w)
  BY <1>1, <1>2 DEF ChainInv, NumbersInv, NumbersOf
<1>6. Len(w.in) <= PipeRoom
  BY <1>2 DEF ChainInv, TypeOK, Workers
<1>7. Lines(w) = << >>
  <2>1. Lines(w) = Lines(worker[p])
    BY <1>2, SameLines
  <2> QED BY <1>1, <2>1 DEF ChainInv, TestedInv
<1>8. worker[p + 1].pc = "readM" => worker[p + 1].in # << >>
  <2>1. p + 1 \in Workers /\ p + 1 - 1 = p
    BY <1>1, WorkerFacts DEF HasChild, Workers, ChainInv
  <2> QED BY <1>1, <2>1 DEF ChainInv, NewInv
<1>9. p = 1 => w.m = 2 /\ w.factor1 \in {0, 2}
  BY <1>2 DEF ChainInv, FirstInv
<1>10. ~ Done(p)
  BY <1>1 DEF Done
<1> QED BY <1>1, <1>2, <1>4, <1>5, <1>6, <1>7, <1>8, <1>9, <1>10, QuietOne

\* A worker that tests its m and goes on keeps what is known of its numbers.
LEMMA TestedNumbers ==
  ASSUME NEW w \in Worker, NumbersOf(w), Lines(w) = << >>
  PROVE  NumbersOf(Tested(w))
<1>1. /\ Tested(w).in = w.in /\ Tested(w).m = w.m /\ Tested(w).pc = "read" /\ w.m >= 1
      /\ Tested(w).factor1 = IF Divides(w.m, n) /\ w.factor1 = 0 THEN w.m ELSE w.factor1
  BY TestedGoesOn DEF NumbersOf
<1> QED BY <1>1 DEF NumbersOf, Divides

LEMMA DropGoesOn ==
  ASSUME ChainInv, NEW p \in Workers, DropNumber(p), Lines(worker[p]) = << >>
  PROVE  ChainInv'
<1> DEFINE w == Tested(worker[p])
<1>1. /\ worker \in Seq(Worker) /\ worker[p] \in Worker /\ p \in Nat \ {0} /\ worker[p].m >= 1
      /\ worker[p].pc = "dispatch" /\ NumbersOf(worker[p])
      /\ Divides(worker[p].m, worker[p].cur)
  BY WorkerFacts DEF DropNumber, AtNumber, ChainInv, NumbersInv, NumbersOf
<1>2. /\ w \in Worker /\ w.pc = "read" /\ w.in = worker[p].in
      /\ w.m = worker[p].m /\ w.code = worker[p].code
      /\ w.factor1 = (IF Divides(worker[p].m, n) /\ worker[p].factor1 = 0
                      THEN worker[p].m ELSE worker[p].factor1)
      /\ Lines(w) = << >>
  BY <1>1, TestedGoesOn
<1>3. worker' = [worker EXCEPT ![p] = w] /\ UNCHANGED <<n, master>>
  BY <1>1 DEF DropNumber
<1>4. NumbersOf(w)
  BY <1>1, TestedNumbers
<1> HIDE DEF w
<1>5. answers' = answers
  <2>1. answers' = answers \o << >> /\ answers \in Seq(AnswerLines)
    BY DEF DropNumber, ChainInv, TypeOK, AnswerLines
  <2> QED BY <2>1, ConcatEmptySeq
<1>6. OnlyAt(p, w)
  BY <1>1, <1>2, <1>3, SetOne
<1>7. Len(w.in) <= PipeRoom
  BY <1>2 DEF ChainInv, TypeOK, Workers
<1>8. HasChild(p) /\ worker[p + 1].pc = "readM" => worker[p + 1].in # << >>
  <2> SUFFICES ASSUME HasChild(p), worker[p + 1].pc = "readM", worker[p + 1].in = << >> PROVE FALSE
    OBVIOUS
  <2>1. p + 1 \in Workers /\ p + 1 - 1 = p
    BY <1>1, WorkerFacts DEF HasChild, Workers, ChainInv
  <2> QED BY <1>1, <2>1 DEF ChainInv, NewInv
<1>9. p = 1 => w.m = 2 /\ w.factor1 \in {0, 2}
  BY <1>2 DEF ChainInv, FirstInv
<1>10. ~ Done(p)
  BY <1>1 DEF Done
<1> QED BY <1>1, <1>2, <1>3, <1>4, <1>5, <1>6, <1>7, <1>8, <1>9, <1>10, QuietOne

\* The new worker as it reads its m, and what is known of it.
WithM(p) == [worker[p] EXCEPT !.m = Head(worker[p].in), !.in = Tail(worker[p].in)]

LEMMA ReadMFacts ==
  ASSUME ChainInv, NEW p \in Workers, ReadM(p)
  PROVE  /\ WithM(p) \in Worker /\ WithM(p).m = worker[p].cur /\ WithM(p).cur = worker[p].cur
         /\ WithM(p).in = Tail(worker[p].in) /\ WithM(p).factor1 = worker[p].factor1
         /\ WithM(p).code = worker[p].code /\ WithM(p).pc = "readM"
         /\ NumbersOf(WithM(p)) /\ Len(WithM(p).in) <= PipeRoom
         /\ p = Len(worker) /\ p > 1 /\ ~ HasChild(p) /\ ~ Done(p) /\ n # 0
         /\ UNCHANGED <<n, master>> /\ answers' = answers \o Lines(WithM(p))
         /\ worker' = [worker EXCEPT ![p] = Tested(WithM(p))]
         /\ worker \in Seq(Worker) /\ worker[p].in \in Seq(Int) /\ worker[p].in # << >>
         /\ worker[p].cur = worker[p].in[1]
<1>1. /\ worker \in Seq(Worker) /\ worker[p] \in Worker /\ p \in Nat \ {0}
      /\ worker[p].pc = "readM" /\ worker[p].in # << >> /\ worker[p].in \in Seq(Int)
      /\ Len(worker) \in Nat /\ worker[p].m \in Nat
  BY WorkerFacts DEF ReadM, ChainInv
<1>2. /\ Head(worker[p].in) \in Int /\ Head(worker[p].in) = worker[p].in[1]
      /\ Len(worker[p].in) \in Nat \ {0}
      /\ Tail(worker[p].in) \in Seq(Int) /\ Len(Tail(worker[p].in)) = Len(worker[p].in) - 1
      /\ \A i \in 1 .. Len(worker[p].in) - 1 : Tail(worker[p].in)[i] = worker[p].in[i + 1]
  BY <1>1, PipeRead
<1>3. /\ p = Len(worker) /\ worker[p].cur \in Stream \ {END, 0}
      /\ Head(worker[p].in) = worker[p].cur
  BY <1>1 DEF ChainInv, NewInv
<1>4. worker[p].cur \in Nat \ {0}
  BY <1>3, StreamNumbers DEF ChainInv, TypeOK
<1>5. p > 1
  BY <1>1 DEF ChainInv, FirstInv
<1>6. n # 0
  BY <1>1, <1>3, <1>5 DEF ChainInv, FirstInv
<1>7. /\ WithM(p) \in Worker /\ WithM(p).m = worker[p].cur /\ WithM(p).cur = worker[p].cur
      /\ WithM(p).in = Tail(worker[p].in) /\ WithM(p).factor1 = worker[p].factor1
      /\ WithM(p).code = worker[p].code /\ WithM(p).pc = "readM"
  BY <1>1, <1>2, <1>3, <1>4 DEF Worker, WithM
<1>8. NumbersOf(WithM(p))
  BY <1>1, <1>2, <1>4, <1>7 DEF ChainInv, NumbersInv, NumbersOf
<1>9. Len(WithM(p).in) <= PipeRoom
  BY <1>2, <1>7, PfactAssumption DEF ChainInv, TypeOK, Workers
<1>10. /\ UNCHANGED <<n, master>> /\ answers' = answers \o Lines(WithM(p))
       /\ worker' = [worker EXCEPT ![p] = Tested(WithM(p))]
  BY DEF ReadM, WithM
<1> QED BY <1>1, <1>2, <1>3, <1>5, <1>6, <1>7, <1>8, <1>9, <1>10 DEF HasChild, Done

LEMMA ReadMGoesOn ==
  ASSUME ChainInv, NEW p \in Workers, ReadM(p), Lines(WithM(p)) = << >>
  PROVE  ChainInv'
<1> DEFINE w == Tested(WithM(p))
<1>1. /\ WithM(p) \in Worker /\ WithM(p).m >= 1 /\ NumbersOf(WithM(p))
      /\ Len(WithM(p).in) <= PipeRoom /\ p > 1 /\ ~ HasChild(p) /\ ~ Done(p)
      /\ UNCHANGED <<n, master>> /\ worker \in Seq(Worker) /\ WithM(p).code = worker[p].code
      /\ answers' = answers \o << >> /\ worker' = [worker EXCEPT ![p] = w]
  BY ReadMFacts DEF NumbersOf
<1>2. /\ w \in Worker /\ w.pc = "read" /\ w.in = WithM(p).in /\ w.code = WithM(p).code
      /\ Lines(w) = << >>
  BY <1>1, TestedGoesOn
<1>3. NumbersOf(w)
  BY <1>1, TestedNumbers
<1> HIDE DEF w
<1>4. answers' = answers
  <2>1. answers \in Seq(AnswerLines)
    BY DEF ChainInv, TypeOK, AnswerLines
  <2> QED BY <1>1, <2>1, ConcatEmptySeq
<1>5. OnlyAt(p, w)
  BY <1>1, <1>2, SetOne
<1>6. p # 1
  BY <1>1
<1> QED BY <1>1, <1>2, <1>3, <1>4, <1>5, <1>6, QuietOne

\* A quiet step in which p writes the number it holds to the next worker.
Fuller(p) == [worker[p + 1] EXCEPT !.in = Append(worker[p + 1].in, worker[p].cur)]

LEMMA FullerFacts ==
  ASSUME ChainInv, NEW p \in Workers, worker[p].pc = "dispatch", HasChild(p), HasRoom(p + 1)
  PROVE  /\ p + 1 \in Workers /\ worker[p + 1] \in Worker /\ worker[p] \in Worker
         /\ Fuller(p) \in Worker /\ Fuller(p).in = Append(worker[p + 1].in, worker[p].cur)
         /\ Fuller(p).pc = worker[p + 1].pc /\ Fuller(p).cur = worker[p + 1].cur
         /\ Fuller(p).m = worker[p + 1].m /\ Fuller(p).factor1 = worker[p + 1].factor1
         /\ Fuller(p).code = worker[p + 1].code
         /\ NumbersOf(Fuller(p)) /\ Len(Fuller(p).in) <= PipeRoom /\ Fuller(p).in # << >>
         /\ Head(Fuller(p).in) = IF worker[p + 1].in = << >> THEN worker[p].cur
                                 ELSE Head(worker[p + 1].in)
<1>1. p + 1 \in Workers
  BY WorkerFacts DEF HasChild, Workers, ChainInv
<1>2. /\ worker[p + 1] \in Worker /\ worker[p + 1].in \in Seq(Int) /\ worker[p].cur \in Int
      /\ worker[p] \in Worker
  BY <1>1, WorkerFacts DEF ChainInv
<1> DEFINE in == Append(worker[p + 1].in, worker[p].cur)
<1>3. /\ in \in Seq(Int) /\ Len(in) = Len(worker[p + 1].in) + 1 /\ in # << >>
      /\ \A i \in 1 .. Len(worker[p + 1].in) : in[i] = worker[p + 1].in[i]
      /\ in[Len(worker[p + 1].in) + 1] = worker[p].cur
      /\ Head(in) = IF worker[p + 1].in = << >> THEN worker[p].cur ELSE Head(worker[p + 1].in)
      /\ Len(worker[p + 1].in) \in Nat
  BY ZenonT(40), <1>2, PipeWritten, LenProperties
<1> HIDE DEF in
<1>4. Fuller(p) = [worker[p + 1] EXCEPT !.in = in]
  BY DEF Fuller, in
<1>5. /\ Fuller(p) \in Worker /\ Fuller(p).in = in
      /\ Fuller(p).pc = worker[p + 1].pc /\ Fuller(p).cur = worker[p + 1].cur
      /\ Fuller(p).m = worker[p + 1].m /\ Fuller(p).factor1 = worker[p + 1].factor1
      /\ Fuller(p).code = worker[p + 1].code
  BY <1>2, <1>3, <1>4 DEF Worker
<1>6. NumbersOf(Fuller(p))
  <2>1. NumbersOf(worker[p + 1]) /\ worker[p].cur \in Stream
    BY <1>1 DEF ChainInv, NumbersInv, NumbersOf
  <2>2. ASSUME NEW i \in 1 .. Len(in) PROVE in[i] \in Stream
    <3>1. CASE i = Len(worker[p + 1].in) + 1
      BY <1>3, <2>1, <3>1
    <3>2. CASE i # Len(worker[p + 1].in) + 1
      <4>1. i \in 1 .. Len(worker[p + 1].in)
        BY <1>3, <3>2
      <4> QED BY <1>3, <2>1, <4>1 DEF NumbersOf
    <3> QED BY <3>1, <3>2
  <2> QED BY <1>5, <2>1, <2>2 DEF NumbersOf
<1>7. Len(Fuller(p).in) <= PipeRoom
  BY <1>3, <1>5, PfactAssumption DEF HasRoom
<1> QED BY <1>1, <1>2, <1>3, <1>5, <1>6, <1>7 DEF in

LEMMA QuietBoth ==
  ASSUME ChainInv, NEW p \in Workers, worker[p].pc = "dispatch", HasChild(p), HasRoom(p + 1),
         NEW w \in Worker, AtBoth(p, w, Fuller(p)), UNCHANGED <<n, master, answers>>,
         w.pc = "read" \/ w.pc = "waitEnd", w.code = worker[p].code, w.m = worker[p].m,
         Len(w.in) <= PipeRoom, NumbersOf(w), Lines(w) = << >>,
         p = 1 => w.factor1 \in {0, 2}
  PROVE  ChainInv'
<1>1. /\ worker' \in Seq(Worker) /\ Len(worker') = Len(worker) /\ worker'[p] = w
      /\ worker'[p + 1] = Fuller(p)
      /\ \A q \in Workers : q # p /\ q # p + 1 => worker'[q] = worker[q]
      /\ Workers' = Workers /\ 1 \in Workers /\ Len(worker) \in Nat /\ p \in Nat \ {0}
      /\ p <= Len(worker)
  BY WorkerFacts DEF AtBoth, Workers, ChainInv, FirstInv
<1>2. /\ p + 1 \in Workers /\ Fuller(p).pc = worker[p + 1].pc /\ Fuller(p).cur = worker[p + 1].cur
      /\ Fuller(p).m = worker[p + 1].m /\ Fuller(p).factor1 = worker[p + 1].factor1
      /\ Fuller(p).code = worker[p + 1].code
      /\ NumbersOf(Fuller(p)) /\ Len(Fuller(p).in) <= PipeRoom /\ Fuller(p).in # << >>
      /\ Head(Fuller(p).in) = IF worker[p + 1].in = << >> THEN worker[p].cur
                              ELSE Head(worker[p + 1].in)
  BY FullerFacts
<1>3. Quiet
  <2>1. ASSUME NEW q \in Workers
        PROVE  /\ worker'[q].code = worker[q].code
               /\ worker'[q].pc = worker[q].pc \/ (~ Done(q) /\ worker'[q].pc \in WorkerPCs
                    /\ worker'[q].pc \notin {"exiting", "exited", "reaped", "readM"})
               /\ Len(worker'[q].in) <= PipeRoom
    <3>1. CASE q = p
      BY <1>1, <3>1 DEF Done, WorkerPCs
    <3>2. CASE q = p + 1
      BY <1>1, <1>2, <3>2
    <3>3. CASE q # p /\ q # p + 1
      BY <1>1, <3>3 DEF ChainInv, TypeOK, Workers
    <3> QED BY <3>1, <3>2, <3>3
  <2> QED BY <1>1, <2>1 DEF Quiet
<1>4. TypeOK' /\ MasterInv' /\ ExitInv' /\ AnswerInv'
  BY <1>3, QuietExits, QuietTypes, QuietMaster DEF ChainInv, TypeOK
<1>5. \A q \in Workers : HasChild(q)' <=> HasChild(q)
  BY <1>1 DEF HasChild
<1>6. NumbersInv'
  <2>1. ASSUME NEW q \in Workers
        PROVE  NumbersOf(worker[q])' /\ (worker'[q].pc \in {"poll", "waitEnd"} => HasChild(q)')
    <3>0. NumbersOf(worker[q]) /\ (worker[q].pc \in {"poll", "waitEnd"} => HasChild(q))
      BY DEF ChainInv, NumbersInv
    <3>1. CASE q = p
      BY <1>1, <1>5, <3>1, SameStream DEF NumbersOf
    <3>2. CASE q = p + 1
      BY <1>1, <1>2, <1>5, <3>0, <3>2, SameStream DEF NumbersOf
    <3>3. CASE q # p /\ q # p + 1
      BY <1>1, <1>5, <3>0, <3>3, SameStream DEF NumbersOf
    <3> QED BY <3>1, <3>2, <3>3
  <2> QED BY <1>1, <2>1 DEF NumbersInv
<1>7. FirstInv'
  <2>1. CASE p = 1
    BY <1>1, <2>1 DEF ChainInv, FirstInv
  <2>2. CASE p # 1
    <3>1. worker'[1] = worker[1]
      BY <1>1, <2>2
    <3> QED BY <1>1, <3>1 DEF ChainInv, FirstInv
  <2> QED BY <2>1, <2>2
<1>8. NewInv'
  <2> SUFFICES ASSUME NEW q \in Workers, worker'[q].pc = "readM"
               PROVE  /\ q = Len(worker) /\ worker'[q].cur \in Stream \ {END, 0}
                      /\ worker'[q].cur % worker'[q - 1].m # 0
                      /\ worker'[q].in = << >> =>
                           worker'[q - 1].pc = "dispatch" /\ worker'[q - 1].cur = worker'[q].cur
                      /\ worker'[q].in # << >> => Head(worker'[q].in) = worker'[q].cur
    BY <1>1, SameStream DEF NewInv, Divides
  <2>1. q # p /\ worker[q].pc = "readM" /\ q # 1
    BY <1>1, <1>2 DEF ChainInv, FirstInv
  <2>2. /\ q = Len(worker) /\ worker[q].cur \in Stream \ {END, 0}
        /\ worker[q].cur % worker[q - 1].m # 0
        /\ worker[q].in = << >> =>
             worker[q - 1].pc = "dispatch" /\ worker[q - 1].cur = worker[q].cur
        /\ worker[q].in # << >> => Head(worker[q].in) = worker[q].cur
    BY <2>1 DEF ChainInv, NewInv, Divides
  <2>3. q - 1 \in Workers
    BY <1>1, <2>1 DEF Workers
  <2>4. CASE q = p + 1
    <3>1. q - 1 = p
      BY <1>1, <2>4
    <3> QED BY <1>1, <1>2, <2>2, <2>4, <3>1
  <2>5. CASE q # p + 1
    <3>0. q \in Nat
      BY <1>1 DEF Workers
    <3>1. worker'[q] = worker[q] /\ q - 1 # p
      BY <1>1, <2>1, <2>5, <3>0
    <3>2. worker'[q - 1].m = worker[q - 1].m
      BY <1>1, <1>2, <2>3, <3>1
    <3>3. q - 1 # p + 1 => worker'[q - 1] = worker[q - 1]
      BY <1>1, <2>3, <3>1
    <3>4. q - 1 = p + 1 => worker'[q - 1].pc = worker[q - 1].pc /\ worker'[q - 1].cur = worker[q - 1].cur
      BY <1>1, <1>2
    <3> QED BY <2>2, <3>1, <3>2, <3>3, <3>4
  <2> QED BY <2>4, <2>5
<1>9. TestedInv'
  <2> SUFFICES ASSUME NEW q \in Workers, worker'[q].pc \in {"read", "poll", "dispatch", "waitEnd"}
               PROVE  Lines(worker[q])' = << >>
    BY <1>1 DEF TestedInv
  <2>1. CASE q = p
    BY <1>1, <2>1, LinesNext
  <2>2. CASE q # p
    <3>1. Lines(worker[q])' = Lines(worker[q]) /\ worker[q].pc = worker'[q].pc
      <4>1. CASE q = p + 1
        BY <1>1, <1>2, <4>1, LinesNext
      <4>2. CASE q # p + 1
        BY <1>1, <2>2, <4>2, LinesNext
      <4> QED BY <4>1, <4>2
    <3>2. Lines(worker[q]) = << >> \/ (q = 1 /\ ~ HasChild(1))
      BY <3>1 DEF ChainInv, TestedInv
    <3>3. q = 1 => HasChild(1)
      BY <1>1, <1>2 DEF HasChild, Workers
    <3> QED BY <3>1, <3>2, <3>3
  <2> QED BY <2>1, <2>2
<1> QED BY <1>4, <1>6, <1>7, <1>8, <1>9 DEF ChainInv

\* A worker with a child has tested its m.
LEMMA ParentTested ==
  ASSUME ChainInv, NEW p \in Workers, worker[p].pc = "dispatch", HasChild(p)
  PROVE  Lines(worker[p]) = << >>
BY DEF ChainInv, TestedInv

LEMMA PassNumberChain ==
  ASSUME ChainInv, NEW p \in Workers, PassNumber(p)
  PROVE  ChainInv'
<1> DEFINE w == Tested(worker[p])
<1>1. /\ worker \in Seq(Worker) /\ worker[p] \in Worker /\ worker[p].m >= 1
      /\ worker[p].pc = "dispatch" /\ NumbersOf(worker[p]) /\ HasChild(p) /\ HasRoom(p + 1)
      /\ Lines(worker[p]) = << >>
  BY WorkerFacts, ParentTested DEF PassNumber, AtNumber, ChainInv, NumbersInv, NumbersOf
<1>2. /\ w \in Worker /\ w.pc = "read" /\ w.in = worker[p].in
      /\ w.m = worker[p].m /\ w.code = worker[p].code
      /\ w.factor1 = (IF Divides(worker[p].m, n) /\ worker[p].factor1 = 0
                      THEN worker[p].m ELSE worker[p].factor1)
      /\ Lines(w) = << >>
  BY <1>1, TestedGoesOn
<1>3. p + 1 \in Workers /\ Fuller(p) \in Worker
  BY <1>1, FullerFacts
<1>4. worker' = [worker EXCEPT ![p] = w, ![p + 1] = Fuller(p)] /\ UNCHANGED <<n, master>>
  <2>1. p # p + 1
    BY DEF Workers
  <2> QED BY <1>1, <2>1 DEF PassNumber, Fuller
<1>5. NumbersOf(w)
  BY <1>1, TestedNumbers
<1> HIDE DEF w
<1>6. answers' = answers
  <2>1. answers' = answers \o << >> /\ answers \in Seq(AnswerLines)
    BY <1>1 DEF PassNumber, ChainInv, TypeOK, AnswerLines
  <2> QED BY <2>1, ConcatEmptySeq
<1>7. AtBoth(p, w, Fuller(p))
  BY <1>1, <1>2, <1>3, <1>4, SetTwo
<1>8. Len(w.in) <= PipeRoom
  BY <1>2 DEF ChainInv, TypeOK, Workers
<1>9. p = 1 => w.factor1 \in {0, 2}
  BY <1>2 DEF ChainInv, FirstInv
<1> QED BY <1>1, <1>2, <1>4, <1>5, <1>6, <1>7, <1>8, <1>9, QuietBoth

LEMMA PassEndChain ==
  ASSUME ChainInv, NEW p \in Workers, PassEnd(p)
  PROVE  ChainInv'
<1> DEFINE w == [worker[p] EXCEPT !.pc = "waitEnd"]
<1>1. /\ worker \in Seq(Worker) /\ worker[p] \in Worker
      /\ worker[p].pc = "dispatch" /\ NumbersOf(worker[p]) /\ HasChild(p) /\ HasRoom(p + 1)
      /\ Lines(worker[p]) = << >> /\ UNCHANGED <<n, master, answers>> /\ worker[p].cur = END
  BY WorkerFacts, ParentTested DEF PassEnd, AtEnd, ChainInv, NumbersInv
<1>2. /\ w \in Worker /\ w.pc = "waitEnd" /\ w.in = worker[p].in
      /\ w.m = worker[p].m /\ w.code = worker[p].code /\ w.factor1 = worker[p].factor1
  BY <1>1 DEF Worker, WorkerPCs
<1>3. p + 1 \in Workers /\ Fuller(p) \in Worker
  BY <1>1, FullerFacts
<1>4. worker' = [worker EXCEPT ![p] = w, ![p + 1] = Fuller(p)]
  <2>1. Fuller(p) = [worker[p + 1] EXCEPT !.in = Append(@, END)]
    BY <1>1 DEF Fuller
  <2>2. worker' = [worker EXCEPT ![p + 1].in = Append(@, END), ![p].pc = "waitEnd"]
    BY DEF PassEnd
  <2>3. p # p + 1
    BY DEF Workers
  <2> QED BY <1>1, <1>3, <2>1, <2>2, <2>3
<1> HIDE DEF w
<1>5. NumbersOf(w) /\ Lines(w) = << >>
  BY <1>1, <1>2, SameLines DEF NumbersOf
<1>6. AtBoth(p, w, Fuller(p))
  BY <1>1, <1>2, <1>3, <1>4, SetTwo
<1>7. Len(w.in) <= PipeRoom
  BY <1>2 DEF ChainInv, TypeOK, Workers
<1>8. p = 1 => w.factor1 \in {0, 2}
  BY <1>2 DEF ChainInv, FirstInv
<1> QED BY <1>1, <1>2, <1>5, <1>6, <1>7, <1>8, QuietBoth

\* Nobody is done before the last worker is.
LEMMA NobodyDone ==
  ASSUME ChainInv, ~ Done(Len(worker))
  PROVE  answers = << >> /\ \A q \in Workers : ~ Done(q)
<1>1. Len(worker) \in Workers
  BY WorkerFacts DEF Workers, ChainInv, FirstInv
<1>2. answers = << >>
  BY DEF ChainInv, AnswerInv
<1>3. ASSUME NEW q \in Workers, Done(q) PROVE FALSE
  <2>1. q < Len(worker)
    BY <1>1, <1>3 DEF Workers
  <2>2. worker[Len(worker)].pc = "reaped"
    BY <1>1, <1>3, <2>1 DEF ChainInv, ExitInv
  <2> QED BY <2>2 DEF Done
<1> QED BY <1>2, <1>3

\* The number p holds as it forks.
LEMMA ForkFacts ==
  ASSUME ChainInv, NEW p \in Workers, ForkChild(p)
  PROVE  /\ worker[p].cur \in Stream \ {END, 0} /\ worker[p].cur \in Nat
         /\ n \notin {0, 2} /\ Lines(worker[p]) = << >>
<1>1. /\ worker[p].m \in Nat \ {0} /\ worker[p].cur \in Stream \ {END}
      /\ worker[p].cur % worker[p].m # 0 /\ worker[p].pc = "dispatch"
  BY WorkerFacts DEF ForkChild, AtNumber, Divides, ChainInv, NumbersInv, NumbersOf
<1>2. worker[p].cur # 0
  BY <1>1
<1>3. worker[p].cur \in Nat
  BY <1>1, StreamNumbers DEF ChainInv, TypeOK
<1>4. n # 0
  <2> SUFFICES ASSUME n = 0 PROVE FALSE
    OBVIOUS
  <2>1. MaxK \in Nat /\ MaxK < 2
    BY MaxKRange
  <2> QED BY <1>1, <1>2, <2>1 DEF Stream
<1>5. n # 2
  <2> SUFFICES ASSUME n = 2 PROVE FALSE
    OBVIOUS
  <2>1. MaxK \in Nat /\ MaxK <= 2
    BY MaxKRange
  <2>2. worker[p].cur = 2
    BY <1>1, <1>2, <2>1 DEF Stream
  <2>3. p = 1
    <3>1. Len(worker) = 1
      BY DEF ChainInv, FirstInv
    <3> QED BY <3>1 DEF Workers
  <2>4. worker[p].m = 2
    BY <2>3 DEF ChainInv, FirstInv
  <2> QED BY <1>1, <2>2, <2>4
<1>6. Lines(worker[p]) = << >>
  <2> SUFFICES ASSUME p = 1, AtStart PROVE FALSE
    BY <1>1 DEF ChainInv, TestedInv
  <2>1. worker[1].cur = 2 /\ worker[1].m = 2
    BY <1>1 DEF AtStart, ChainInv, FirstInv
  <2> QED BY <1>1, <2>1
<1> QED BY <1>1, <1>2, <1>3, <1>4, <1>5, <1>6

LEMMA ForkChildChain ==
  ASSUME ChainInv, NEW p \in Workers, ForkChild(p)
  PROVE  ChainInv'
<1> DEFINE v == NewWorker(worker[p].factor1, worker[p].cur, "readM")
<1>1. /\ worker \in Seq(Worker) /\ worker[p] \in Worker /\ NumbersOf(worker[p])
      /\ worker[p].pc = "dispatch" /\ UNCHANGED <<n, master, answers>>
      /\ ~ Divides(worker[p].m, worker[p].cur) /\ Len(worker) \in Nat /\ p = Len(worker)
      /\ p \in Nat \ {0} /\ worker[p].factor1 \in Nat /\ worker[p].cur \in Int
  BY WorkerFacts DEF ForkChild, AtNumber, ChainInv, NumbersInv, HasChild
<1>2. /\ worker[p].cur \in Stream \ {END, 0} /\ worker[p].cur \in Nat
      /\ n \notin {0, 2} /\ Lines(worker[p]) = << >>
  BY ForkFacts
<1>3. /\ v.pc = "readM" /\ v.in = << >> /\ v.cur = worker[p].cur /\ v.m = 2
      /\ v.factor1 = worker[p].factor1 /\ v.code = 0
  BY DEF NewWorker
<1>4. v \in Worker /\ Len(v.in) = 0
  BY <1>1, EmptySeq DEF NewWorker, Worker, WorkerPCs
<1>5. worker' = Append(worker, v)
  BY DEF ForkChild
<1> HIDE DEF v
<1>6. /\ worker' \in Seq(Worker) /\ Len(worker') = Len(worker) + 1
      /\ worker'[Len(worker) + 1] = v /\ \A q \in Workers : worker'[q] = worker[q]
  BY <1>1, <1>4, <1>5, AppendProperties DEF Workers
<1>7. /\ Workers' = Workers \cup {Len(worker) + 1} /\ 1 \in Workers
      /\ \A q \in Workers : q \in Nat \ {0} /\ q <= Len(worker)
  BY <1>1, <1>6 DEF Workers
<1>8. answers = << >> /\ \A q \in Workers : ~ Done(q)
  BY <1>1, NobodyDone DEF Done
<1>9. \A q \in Workers : ~ Done(q)'
  BY <1>6, <1>8 DEF Done
<1>10. \A q \in Workers' : q = Len(worker) + 1 => ~ Done(q)'
  BY <1>3, <1>6 DEF Done
<1>11. TypeOK'
  <2>1. ASSUME NEW q \in Workers'
        PROVE  worker'[q].code < ExitMod /\ Len(worker'[q].in) <= PipeRoom
    <3>1. CASE q \in Workers
      BY <1>6, <3>1 DEF ChainInv, TypeOK, Workers
    <3>2. CASE q = Len(worker) + 1
      BY <1>3, <1>4, <1>6, <3>2, PfactAssumption
    <3> QED BY <1>7, <3>1, <3>2
  <2> QED BY <1>1, <1>6, <2>1, SameStream DEF ChainInv, TypeOK, Workers
<1>12. MasterInv'
  <2>1. worker'[1] = worker[1] /\ master' = master /\ MaxK' = MaxK
    BY <1>1, <1>6, <1>7, SameStream
  <2> QED BY <2>1 DEF ChainInv, MasterInv, HasExited
<1>13. NumbersInv'
  <2>1. ASSUME NEW q \in Workers
        PROVE  NumbersOf(worker[q])' /\ (worker'[q].pc \in {"poll", "waitEnd"} => HasChild(q)')
    <3>1. NumbersOf(worker[q]) /\ (worker[q].pc \in {"poll", "waitEnd"} => HasChild(q))
      BY DEF ChainInv, NumbersInv
    <3>2. HasChild(q) => HasChild(q)'
      BY <1>1, <1>6, <1>7 DEF HasChild
    <3> QED BY <1>1, <1>6, <3>1, <3>2, SameStream DEF NumbersOf
  <2>3. worker'[Len(worker) + 1].pc = "readM"
    BY <1>3, <1>6
  <2>4. ASSUME NEW q \in Workers'
        PROVE  NumbersOf(worker[q])' /\ (worker'[q].pc \in {"poll", "waitEnd"} => HasChild(q)')
    <3>1. CASE q \in Workers
      BY <2>1, <3>1
    <3>2. CASE q = Len(worker) + 1
      <4>1. NumbersOf(worker[q])'
        BY <1>1, <1>3, <1>4, <1>6, <3>2, SameStream DEF NumbersOf
      <4> QED BY <2>3, <3>2, <4>1
    <3> QED BY <1>7, <3>1, <3>2
  <2> QED BY <2>4 DEF NumbersInv
<1>14. FirstInv'
  BY <1>1, <1>2, <1>6, <1>7 DEF ChainInv, FirstInv
<1>15. NewInv'
  <2> SUFFICES ASSUME NEW q \in Workers', worker'[q].pc = "readM"
               PROVE  /\ q = Len(worker) + 1 /\ worker'[q].cur \in Stream \ {END, 0}
                      /\ worker'[q].cur % worker'[q - 1].m # 0
                      /\ worker'[q].in = << >> =>
                           worker'[q - 1].pc = "dispatch" /\ worker'[q - 1].cur = worker'[q].cur
                      /\ worker'[q].in # << >> => Head(worker'[q].in) = worker'[q].cur
    BY <1>1, <1>6, SameStream DEF NewInv, Divides
  <2>1. q = Len(worker) + 1
    <3> SUFFICES ASSUME q \in Workers PROVE FALSE
      BY <1>7
    <3>1. worker[q].pc = "readM"
      BY <1>6
    <3>2. q = p
      BY <1>1, <3>1 DEF ChainInv, NewInv
    <3> QED BY <1>1, <3>1, <3>2
  <2>2. q - 1 = p /\ worker'[p] = worker[p] /\ worker'[q] = v
    BY <1>1, <1>6, <2>1
  <2> QED BY <1>1, <1>2, <1>3, <2>1, <2>2 DEF Divides
<1>16. TestedInv'
  <2> SUFFICES ASSUME NEW q \in Workers', worker'[q].pc \in {"read", "poll", "dispatch", "waitEnd"}
               PROVE  Lines(worker[q])' = << >>
    BY DEF TestedInv
  <2>1. q \in Workers /\ worker'[q] = worker[q]
    BY <1>3, <1>6, <1>7
  <2>2. Lines(worker[q])' = Lines(worker[q])
    BY <1>1, <2>1, LinesNext
  <2>3. Lines(worker[q]) = << >> \/ (q = 1 /\ ~ HasChild(1))
    BY <2>1 DEF ChainInv, TestedInv
  <2>4. q = 1 /\ ~ HasChild(1) => q = p
    BY <1>1, <1>7 DEF HasChild
  <2> QED BY <1>2, <2>2, <2>3, <2>4
<1>17. \A q \in Workers' : ~ Done(q)'
  BY <1>7, <1>9, <1>10
<1>18. ExitInv'
  <2>1. \A q \in Workers' : worker'[q].pc # "reaped"
    <3>1. ASSUME NEW q \in Workers PROVE worker'[q].pc # "reaped"
      BY <1>6, <1>8 DEF Done
    <3> QED BY <1>3, <1>6, <1>7, <3>1
  <2> QED BY <1>17, <2>1 DEF ExitInv
<1>19. AnswerInv'
  <2>1. Len(worker') \in Workers' /\ answers' = << >>
    BY <1>1, <1>6, <1>7, <1>8
  <2> QED BY <1>17, <2>1 DEF AnswerInv
<1> QED BY <1>11, <1>12, <1>13, <1>14, <1>15, <1>16, <1>18, <1>19 DEF ChainInv

-----------------------------------------------------------------------------
(* The steps in which a worker leaves *)

\* Some workers move on along the exit states, the others stay as they are.
Leaving ==
  /\ worker' \in Seq(Worker) /\ Len(worker') = Len(worker) /\ n' = n
  /\ \A q \in Workers :
       \/ worker'[q] = worker[q]
       \/ /\ worker'[q].pc \in {"exiting", "exited", "reaped"}
          /\ worker'[q].code < ExitMod /\ Len(worker'[q].in) <= PipeRoom
          /\ NumbersOf(worker'[q])
          /\ q = 1 => worker'[1].m = worker[1].m /\ worker'[1].factor1 = worker[1].factor1
          /\ HasChild(q) => worker'[q].m = worker[q].m /\ worker[q + 1].pc # "readM"
  /\ master' = master \/ Done(1)

LEMMA LeavingKeeps ==
  ASSUME ChainInv, Leaving
  PROVE  /\ NumbersInv' /\ FirstInv' /\ NewInv' /\ TestedInv' /\ Workers' = Workers
         /\ \A q \in Workers : worker'[q].code < ExitMod /\ Len(worker'[q].in) <= PipeRoom
         /\ 1 \in Workers /\ Len(worker) \in Workers
<1>1. /\ worker' \in Seq(Worker) /\ Len(worker') = Len(worker) /\ n' = n
      /\ Workers' = Workers /\ 1 \in Workers /\ Len(worker) \in Workers
      /\ \A q \in Workers : q \in Nat \ {0} /\ q <= Len(worker)
  BY WorkerFacts DEF Leaving, Workers, ChainInv, FirstInv
<1>2. ASSUME NEW q \in Workers, worker'[q].pc \notin {"exiting", "exited", "reaped"}
      PROVE  worker'[q] = worker[q]
  BY <1>2 DEF Leaving
<1>3. ASSUME NEW q \in Workers PROVE worker'[q].code < ExitMod /\ Len(worker'[q].in) <= PipeRoom
  BY DEF Leaving, ChainInv, TypeOK, Workers
<1>4. NumbersInv'
  <2>1. ASSUME NEW q \in Workers
        PROVE  NumbersOf(worker[q])' /\ (worker'[q].pc \in {"poll", "waitEnd"} => HasChild(q)')
    <3>1. NumbersOf(worker[q]) /\ (worker[q].pc \in {"poll", "waitEnd"} => HasChild(q))
      BY DEF ChainInv, NumbersInv
    <3>2. NumbersOf(worker'[q]) /\ (worker'[q].pc \in {"poll", "waitEnd"} => HasChild(q))
      BY <1>2, <3>1 DEF Leaving
    <3> QED BY <1>1, <3>2, SameStream DEF NumbersOf, HasChild
  <2> QED BY <1>1, <2>1 DEF NumbersInv
<1>5. FirstInv'
  <2>1. worker'[1].m = worker[1].m /\ worker'[1].factor1 = worker[1].factor1
    BY <1>1 DEF Leaving
  <2>2. worker'[1].pc # "readM"
    BY <1>1, <1>2 DEF ChainInv, FirstInv
  <2> QED BY <1>1, <2>1, <2>2 DEF ChainInv, FirstInv
<1>6. NewInv'
  <2> SUFFICES ASSUME NEW q \in Workers, worker'[q].pc = "readM"
               PROVE  /\ q = Len(worker) /\ worker'[q].cur \in Stream \ {END, 0}
                      /\ worker'[q].cur % worker'[q - 1].m # 0
                      /\ worker'[q].in = << >> =>
                           worker'[q - 1].pc = "dispatch" /\ worker'[q - 1].cur = worker'[q].cur
                      /\ worker'[q].in # << >> => Head(worker'[q].in) = worker'[q].cur
    BY <1>1, SameStream DEF NewInv, Divides
  <2>1. worker'[q] = worker[q] /\ worker[q].pc = "readM"
    BY <1>2
  <2>2. q - 1 \in Workers /\ HasChild(q - 1)
    <3>1. q # 1
      BY <2>1 DEF ChainInv, FirstInv
    <3> QED BY <1>1, <3>1 DEF Workers, HasChild
  <2>3. worker'[q - 1] = worker[q - 1]
    <3>1. q - 1 + 1 = q
      BY <1>1
    <3> QED BY <2>1, <2>2, <3>1 DEF Leaving
  <2> QED BY <2>1, <2>3 DEF ChainInv, NewInv, Divides
<1>7. TestedInv'
  <2> SUFFICES ASSUME NEW q \in Workers, worker'[q].pc \in {"read", "poll", "dispatch", "waitEnd"}
               PROVE  Lines(worker[q])' = << >> \/ (q = 1 /\ ~ HasChild(1)' /\ AtStart')
    BY <1>1 DEF TestedInv
  <2>1. worker'[q] = worker[q]
    BY <1>2
  <2>2. Lines(worker[q])' = Lines(worker[q])
    BY <1>1, <2>1, LinesNext
  <2>3. Lines(worker[q]) = << >> \/ (q = 1 /\ ~ HasChild(1) /\ AtStart)
    BY <2>1 DEF ChainInv, TestedInv
  <2>4. q = 1 => master' = master
    BY <2>1 DEF Leaving, Done
  <2>5. q = 1 /\ AtStart => AtStart'
    BY <2>1, <2>4 DEF AtStart
  <2>6. HasChild(1)' <=> HasChild(1)
    BY <1>1 DEF HasChild
  <2> QED BY <2>2, <2>3, <2>5, <2>6
<1> QED BY <1>1, <1>3, <1>4, <1>5, <1>6, <1>7

LEMMA ExitAfterChildChain ==
  ASSUME ChainInv, NEW p \in Workers, worker[p].pc \in {"poll", "waitEnd"},
         worker[p + 1].pc = "exited", ExitAfterChild(p), UNCHANGED <<n, master, answers>>
  PROVE  ChainInv'
<1> DEFINE code == ExitStatus(worker[p + 1].code + 1)
           w == [worker[p] EXCEPT !.pc = "exiting", !.code = code]
           v == [worker[p + 1] EXCEPT !.pc = "reaped"]
<1>1. HasChild(p) /\ p + 1 \in Workers /\ p \in Nat \ {0} /\ Len(worker) \in Nat /\ p < Len(worker)
  BY WorkerFacts DEF ChainInv, NumbersInv, HasChild, Workers
<1>2. /\ worker \in Seq(Worker) /\ worker[p] \in Worker /\ worker[p + 1] \in Worker
      /\ worker[p + 1].code \in Nat
  BY <1>1, WorkerFacts DEF ChainInv
<1>3. Done(p + 1) /\ ~ Done(p)
  BY DEF Done
<1>4. code = (Len(worker) - p + 1 - Found) % ExitMod /\ code \in Nat /\ code < ExitMod
  <2>1. worker[p + 1].code = (Len(worker) - (p + 1) + 1 - Found) % ExitMod
    BY <1>1, <1>3 DEF ChainInv, AnswerInv
  <2>2. Found \in {0, 1}
    BY DEF Found
  <2> DEFINE x == Len(worker) - (p + 1) + 1 - Found
  <2>3. x \in Nat /\ x + 1 \in Nat /\ x + 1 = Len(worker) - p + 1 - Found
    BY <1>1, <2>2
  <2> HIDE DEF x
  <2>4. ExitStatus((x % ExitMod) + 1) = (x + 1) % ExitMod
    BY <2>3, StatusCounts
  <2>5. (x + 1) % ExitMod \in Nat /\ (x + 1) % ExitMod < ExitMod
    BY <2>3, StatusCounts
  <2> QED BY <2>1, <2>3, <2>4, <2>5 DEF x
<1>5. worker' = [worker EXCEPT ![p] = w, ![p + 1] = v]
  <2>1. p # p + 1
    BY <1>1
  <2> QED BY <1>2, <2>1 DEF ExitAfterChild
<1> HIDE DEF code
<1>6. /\ w \in Worker /\ w.pc = "exiting" /\ w.code = code /\ w.in = worker[p].in
      /\ w.m = worker[p].m /\ w.factor1 = worker[p].factor1
  BY <1>2, <1>4 DEF Worker, WorkerPCs
<1>7. /\ v \in Worker /\ v.pc = "reaped" /\ v.code = worker[p + 1].code
      /\ v.in = worker[p + 1].in /\ v.m = worker[p + 1].m /\ v.factor1 = worker[p + 1].factor1
  BY <1>2 DEF Worker, WorkerPCs
<1> HIDE DEF w, v
<1>8. /\ worker' \in Seq(Worker) /\ Len(worker') = Len(worker)
      /\ worker'[p] = w /\ worker'[p + 1] = v
      /\ \A q \in Workers : q # p /\ q # p + 1 => worker'[q] = worker[q]
  BY <1>1, <1>2, <1>5, <1>6, <1>7, SetTwo DEF AtBoth
<1>9. /\ NumbersOf(w) /\ NumbersOf(v) /\ Len(w.in) <= PipeRoom /\ Len(v.in) <= PipeRoom
      /\ v.code < ExitMod
  BY <1>1, <1>6, <1>7 DEF ChainInv, NumbersInv, NumbersOf, TypeOK, Workers
<1>10. HasChild(p + 1) => worker[p + 2].pc # "readM"
  <2>1. HasChild(p + 1) => p + 2 \in Workers /\ p + 1 < p + 2
    BY <1>1 DEF HasChild, Workers
  <2>2. HasChild(p + 1) => worker[p + 2].pc = "reaped"
    BY <1>1, <1>3, <2>1 DEF ChainInv, ExitInv
  <2> QED BY <2>2
<1>11. Leaving
  <2>1. ASSUME NEW q \in Workers, worker'[q] # worker[q]
        PROVE  /\ worker'[q].pc \in {"exiting", "exited", "reaped"}
               /\ worker'[q].code < ExitMod /\ Len(worker'[q].in) <= PipeRoom
               /\ NumbersOf(worker'[q])
               /\ q = 1 => worker'[1].m = worker[1].m /\ worker'[1].factor1 = worker[1].factor1
               /\ HasChild(q) => worker'[q].m = worker[q].m /\ worker[q + 1].pc # "readM"
    <3>1. CASE q = p
      BY <1>4, <1>6, <1>8, <1>9, <3>1
    <3>2. CASE q = p + 1
      <4>1. p + 1 + 1 = p + 2
        BY <1>1
      <4> QED BY <1>7, <1>8, <1>9, <1>10, <3>2, <4>1
    <3> QED BY <1>8, <2>1, <3>1, <3>2
  <2> QED BY <1>8, <2>1 DEF Leaving
<1>12. /\ NumbersInv' /\ FirstInv' /\ NewInv' /\ TestedInv' /\ Workers' = Workers
       /\ \A q \in Workers : worker'[q].code < ExitMod /\ Len(worker'[q].in) <= PipeRoom
       /\ 1 \in Workers /\ Len(worker) \in Workers
  BY <1>11, LeavingKeeps
<1>13. TypeOK'
  BY <1>8, <1>12, SameStream DEF ChainInv, TypeOK, Workers
<1>14. ASSUME NEW q \in Workers
       PROVE  /\ Done(q)' <=> (Done(q) \/ q = p)
              /\ q # p + 1 => (worker'[q].pc = "reaped" <=> worker[q].pc = "reaped")
              /\ HasExited(q) => HasExited(q)'
  BY <1>1, <1>3, <1>6, <1>7, <1>8 DEF Done, HasExited
<1>15. MasterInv'
  <2>1. 1 # p + 1 /\ (Done(1) => worker'[1] = worker[1])
    BY <1>1, <1>3, <1>8, <1>12 DEF Done
  <2>2. master' = master /\ MaxK' = MaxK
    BY SameStream
  <2>3. worker'[1].pc = "reaped" <=> worker[1].pc = "reaped"
    BY <1>12, <1>14, <2>1
  <2>4. HasExited(1) => HasExited(1)'
    BY <1>12, <1>14
  <2>5. worker[1].pc = "reaped" => worker'[1].code = worker[1].code
    BY <2>1 DEF Done
  <2> QED BY <2>2, <2>3, <2>4, <2>5 DEF ChainInv, MasterInv
<1>16. ExitInv'
  <2>1. ASSUME NEW i \in Workers, NEW q \in Workers, i < q, Done(i)' PROVE worker'[q].pc = "reaped"
    <3>1. CASE q = p + 1
      BY <1>7, <1>8, <3>1
    <3>2. CASE q # p + 1 /\ i # p
      <4>1. worker[q].pc = "reaped"
        BY <1>14, <2>1, <3>2 DEF ChainInv, ExitInv
      <4> QED BY <1>14, <3>2, <4>1
    <3>3. CASE q # p + 1 /\ i = p
      <4>1. p + 1 < q
        BY <1>1, <2>1, <3>3 DEF Workers
      <4>2. worker[q].pc = "reaped"
        BY <1>1, <1>3, <4>1 DEF ChainInv, ExitInv
      <4> QED BY <1>14, <3>3, <4>2
    <3> QED BY <3>1, <3>2, <3>3
  <2>2. ASSUME NEW q \in Workers, q > 1, worker'[q].pc = "reaped" PROVE Done(q - 1)'
    <3>1. q - 1 \in Workers
      BY <2>2 DEF Workers
    <3>2. CASE q = p + 1
      <4>1. q - 1 = p
        BY <1>1, <3>2
      <4> QED BY <1>14, <3>1, <4>1
    <3>3. CASE q # p + 1
      <4>1. Done(q - 1)
        BY <1>14, <2>2, <3>3 DEF ChainInv, ExitInv
      <4> QED BY <1>14, <3>1, <4>1
    <3> QED BY <3>2, <3>3
  <2> QED BY <1>12, <2>1, <2>2 DEF ExitInv
<1>17. AnswerInv'
  <2>1. Done(Len(worker))' <=> Done(Len(worker))
    <3>1. worker'[Len(worker)].pc = (IF Len(worker) = p + 1 THEN "reaped" ELSE worker[Len(worker)].pc)
      BY <1>1, <1>7, <1>8, <1>12
    <3>2. Len(worker') = Len(worker)
      BY <1>8
    <3> QED BY <1>3, <3>1, <3>2 DEF Done
  <2>2. Found' = Found /\ Len(worker)' = Len(worker) /\ answers' = answers
    BY <1>8 DEF Found
  <2>3. ASSUME NEW q \in Workers, Done(q)'
        PROVE worker'[q].code = (Len(worker) - q + 1 - Found) % ExitMod
    <3>1. CASE q = p
      BY <1>4, <1>6, <1>8, <3>1
    <3>2. CASE q # p
      <4>1. worker'[q].code = worker[q].code
        BY <1>7, <1>8, <3>2
      <4> QED BY <1>14, <2>3, <3>2, <4>1 DEF ChainInv, AnswerInv
    <3> QED BY <3>1, <3>2
  <2> QED BY <1>12, <2>1, <2>2, <2>3 DEF ChainInv, AnswerInv
<1> QED BY <1>12, <1>13, <1>15, <1>16, <1>17 DEF ChainInv

\* The last worker answers.
LEMMA LastAnswers ==
  ASSUME ChainInv, NEW p \in Workers, p = Len(worker), ~ Done(p), NEW w \in Worker,
         worker' = [worker EXCEPT ![p] = w], UNCHANGED <<n, master>>,
         NEW line \in AnswerLines, answers' = <<line>>,
         w.pc = "exiting", w.code = IF line = PrimeLine THEN 0 ELSE 1,
         NumbersOf(w), Len(w.in) <= PipeRoom,
         p = 1 => w.m = worker[1].m /\ w.factor1 = worker[1].factor1
  PROVE  ChainInv'
<1>1. /\ worker' \in Seq(Worker) /\ Len(worker') = Len(worker) /\ worker'[p] = w
      /\ \A q \in Workers : q # p => worker'[q] = worker[q]
      /\ Len(worker) \in Nat /\ p \in Nat \ {0}
  BY SetOne, WorkerFacts DEF OnlyAt, ChainInv
<1>2. answers = << >> /\ \A q \in Workers : ~ Done(q)
  BY NobodyDone
<1>3. /\ w.code \in {0, 1} /\ w.code < ExitMod
      /\ w.code = (Len(worker) - p + 1 - (IF line = PrimeLine THEN 1 ELSE 0)) % ExitMod
  <2>1. 0 \in Nat /\ ExitMod >= 2
    BY PfactAssumption
  <2>2. 0 % ExitMod = 0 /\ 1 % ExitMod = 1
    BY <2>1, StatusCounts
  <2> DEFINE s == Len(worker) - p + 1 - (IF line = PrimeLine THEN 1 ELSE 0)
  <2>3. s = w.code
    BY <1>1
  <2>4. w.code \in {0, 1}
    OBVIOUS
  <2> HIDE DEF s
  <2>5. w.code < ExitMod /\ w.code = s % ExitMod
    BY <2>1, <2>2, <2>3, <2>4, PfactAssumption
  <2> QED BY <2>4, <2>5 DEF s
<1>4. Leaving
  <2>1. ~ HasChild(p)
    BY <1>1 DEF HasChild
  <2> QED BY <1>1, <1>3, <2>1 DEF Leaving
<1>5. /\ NumbersInv' /\ FirstInv' /\ NewInv' /\ TestedInv' /\ Workers' = Workers
      /\ \A q \in Workers : worker'[q].code < ExitMod /\ Len(worker'[q].in) <= PipeRoom
      /\ 1 \in Workers /\ Len(worker) \in Workers
  BY <1>4, LeavingKeeps
<1>6. answers' \in Seq(AnswerLines)
  BY DEF AnswerLines
<1>7. TypeOK'
  BY <1>1, <1>5, <1>6, SameStream DEF ChainInv, TypeOK, Workers, AnswerLines
<1>8. \A q \in Workers : worker'[q].pc # "reaped" /\ (Done(q)' <=> q = p)
  BY <1>1, <1>2 DEF Done
<1>9. MasterInv'
  <2>1. master.pc # "exited" /\ master.stages = NONE
    <3>1. ~ HasExited(1) /\ worker[1].pc # "reaped"
      BY <1>2, <1>5 DEF Done, HasExited
    <3> QED BY <3>1 DEF ChainInv, MasterInv
  <2>2. master' = master /\ MaxK' = MaxK /\ worker'[1].pc # "reaped"
    BY <1>5, <1>8, SameStream
  <2> QED BY <2>1, <2>2 DEF ChainInv, MasterInv
<1>10. ExitInv'
  <2>1. ASSUME NEW i \in Workers, NEW q \in Workers, i < q, Done(i)' PROVE FALSE
    BY <1>1, <1>8, <2>1 DEF Workers
  <2> QED BY <1>5, <1>8, <2>1 DEF ExitInv
<1>11. AnswerInv'
  <2>1. Done(Len(worker))'
    <3>1. worker'[Len(worker')].pc = "exiting"
      BY <1>1
    <3> QED BY <3>1 DEF Done
  <2>2. answers' # << >> /\ Len(answers') = 1
    OBVIOUS
  <2>3. Found' = IF line = PrimeLine THEN 1 ELSE 0
    BY DEF Found
  <2> QED BY <1>1, <1>3, <1>5, <1>8, <2>1, <2>2, <2>3 DEF AnswerInv
<1> QED BY <1>5, <1>7, <1>9, <1>10, <1>11 DEF ChainInv

\* The line it prints after a test, and its exit status.
LEMMA TestAnswers ==
  ASSUME ChainInv, NEW p \in Workers, p = Len(worker), ~ Done(p), NEW w \in Worker,
         Lines(w) # << >>, NumbersOf(w), Len(w.in) <= PipeRoom,
         p = 1 => w.m = worker[1].m /\ w.factor1 = worker[1].factor1,
         worker' = [worker EXCEPT ![p] = Tested(w)], UNCHANGED <<n, master>>,
         answers' = answers \o Lines(w)
  PROVE  ChainInv'
<1>1. /\ Tested(w) \in Worker /\ Tested(w).pc = "exiting"
      /\ Tested(w).in = w.in /\ Tested(w).m = w.m /\ Tested(w).factor1 = w.factor1
      /\ Tested(w).code = IF Lines(w) = <<PrimeLine>> THEN 0 ELSE 1
  BY TestedExits
<1>2. n = 0 => p = 1
  BY DEF ChainInv, FirstInv
<1>3. n = 0 => w.m = 2 /\ w.factor1 \in {0, 2}
  BY <1>2 DEF ChainInv, FirstInv
<1>4. PICK line \in AnswerLines : Lines(w) = <<line>>
  BY <1>3, LinesAre DEF NumbersOf, ChainInv, TypeOK
<1>5. answers' = <<line>>
  <2>1. answers = << >>
    BY NobodyDone
  <2>2. answers' = << >> \o <<line>> /\ <<line>> \in Seq(AnswerLines)
    BY <1>4, <2>1
  <2> QED BY <2>2, ConcatEmptySeq
<1>6. <<line>> = <<PrimeLine>> <=> line = PrimeLine
  <2>1. <<line>>[1] = line /\ <<PrimeLine>>[1] = PrimeLine
    OBVIOUS
  <2> QED BY <2>1
<1>7. Tested(w).code = IF line = PrimeLine THEN 0 ELSE 1
  BY <1>1, <1>4, <1>6
<1>8. NumbersOf(Tested(w))
  BY <1>1 DEF NumbersOf
<1> QED BY <1>1, <1>5, <1>7, <1>8, LastAnswers

LEMMA DropAnswers ==
  ASSUME ChainInv, NEW p \in Workers, DropNumber(p), Lines(worker[p]) # << >>
  PROVE  ChainInv'
<1>1. /\ worker[p] \in Worker /\ worker[p].pc = "dispatch" /\ NumbersOf(worker[p])
      /\ worker \in Seq(Worker) /\ Len(worker[p].in) <= PipeRoom
  BY WorkerFacts DEF DropNumber, AtNumber, ChainInv, NumbersInv, TypeOK, Workers
<1>2. p = 1 /\ ~ HasChild(1)
  BY <1>1 DEF ChainInv, TestedInv
<1>3. p = Len(worker)
  <2>1. Len(worker) \in Nat /\ Len(worker) >= 1
    BY WorkerFacts DEF ChainInv, FirstInv
  <2> QED BY <1>2, <2>1 DEF HasChild
<1>4. ~ Done(p)
  BY <1>1 DEF Done
<1>5. /\ worker' = [worker EXCEPT ![p] = Tested(worker[p])] /\ UNCHANGED <<n, master>>
      /\ answers' = answers \o Lines(worker[p])
  BY <1>1 DEF DropNumber
<1> QED BY <1>1, <1>2, <1>3, <1>4, <1>5, TestAnswers

LEMMA ReadMAnswers ==
  ASSUME ChainInv, NEW p \in Workers, ReadM(p), Lines(WithM(p)) # << >>
  PROVE  ChainInv'
<1>1. /\ WithM(p) \in Worker /\ NumbersOf(WithM(p)) /\ Len(WithM(p).in) <= PipeRoom
      /\ p = Len(worker) /\ p # 1 /\ ~ Done(p)
      /\ UNCHANGED <<n, master>> /\ answers' = answers \o Lines(WithM(p))
      /\ worker' = [worker EXCEPT ![p] = Tested(WithM(p))]
  BY ReadMFacts
<1> QED BY <1>1, TestAnswers

LEMMA FinishLastChain ==
  ASSUME ChainInv, NEW p \in Workers, FinishLast(p)
  PROVE  ChainInv'
<1> DEFINE w == [worker[p] EXCEPT !.pc = "exiting", !.code = 1]
<1>1. /\ worker[p] \in Worker /\ worker[p].pc = "dispatch" /\ NumbersOf(worker[p])
      /\ worker \in Seq(Worker) /\ Len(worker[p].in) <= PipeRoom /\ p = Len(worker)
  BY WorkerFacts DEF FinishLast, AtEnd, HasChild, ChainInv, NumbersInv, TypeOK, Workers
<1>2. ~ Done(p)
  BY <1>1 DEF Done
<1>3. answers' = <<NoProduct>> /\ UNCHANGED <<n, master>>
  BY <1>1, <1>2, NobodyDone DEF FinishLast
<1>4. NoProduct \in AnswerLines /\ NoProduct # PrimeLine
  <2>1. NoProduct.says # PrimeLine.says
    BY DEF NoProduct, PrimeLine
  <2> QED BY <2>1 DEF AnswerLines
<1>5. worker' = [worker EXCEPT ![p] = w]
  BY <1>1 DEF FinishLast
<1>6. /\ w \in Worker /\ w.pc = "exiting" /\ w.code = 1 /\ w.in = worker[p].in
      /\ w.m = worker[p].m /\ w.factor1 = worker[p].factor1
  BY <1>1 DEF Worker, WorkerPCs
<1> HIDE DEF w
<1>7. NumbersOf(w) /\ Len(w.in) <= PipeRoom
  BY <1>1, <1>6 DEF NumbersOf
<1> QED BY <1>1, <1>2, <1>3, <1>4, <1>5, <1>6, <1>7, LastAnswers

\* Steps of workers that are done, of the first at least: nothing else changes.
LEMMA DoneMovesOn ==
  ASSUME ChainInv, NEW p \in Workers, Done(p), NEW pc \in {"exited", "reaped"},
         pc = "reaped" => p = 1, worker[p].pc # "reaped",
         worker' = [worker EXCEPT ![p].pc = pc], UNCHANGED <<n, answers>>,
         master' = master \/ p = 1, master' \in Master, master'.code < ExitMod
  PROVE  /\ TypeOK' /\ NumbersInv' /\ FirstInv' /\ NewInv' /\ TestedInv'
         /\ ExitInv' /\ AnswerInv'
         /\ worker'[p].pc = pc /\ \A q \in Workers : worker'[q].code = worker[q].code
<1> DEFINE w == [worker[p] EXCEPT !.pc = pc]
<1>1. /\ worker[p] \in Worker /\ NumbersOf(worker[p]) /\ Len(worker) \in Nat
      /\ worker \in Seq(Worker) /\ Len(worker[p].in) <= PipeRoom /\ worker[p].code < ExitMod
  BY WorkerFacts DEF ChainInv, NumbersInv, TypeOK, Workers
<1>2. worker' = [worker EXCEPT ![p] = w]
  BY <1>1
<1>3. /\ w \in Worker /\ w.pc = pc /\ w.code = worker[p].code /\ w.in = worker[p].in
      /\ w.m = worker[p].m /\ w.factor1 = worker[p].factor1
  BY <1>1 DEF Worker, WorkerPCs
<1> HIDE DEF w
<1>4. /\ worker' \in Seq(Worker) /\ Len(worker') = Len(worker) /\ worker'[p] = w
      /\ \A q \in Workers : q # p => worker'[q] = worker[q]
  BY <1>1, <1>2, <1>3, SetOne DEF OnlyAt
<1>5. NumbersOf(w) /\ Len(w.in) <= PipeRoom
  BY <1>1, <1>3 DEF NumbersOf
<1>6. HasChild(p) => worker[p + 1].pc # "readM"
  <2>1. HasChild(p) => p + 1 \in Workers /\ p < p + 1
    BY <1>1 DEF HasChild, Workers
  <2>2. HasChild(p) => worker[p + 1].pc = "reaped"
    BY <2>1 DEF ChainInv, ExitInv
  <2> QED BY <2>2
<1>7. Leaving
  BY <1>1, <1>3, <1>4, <1>5, <1>6 DEF Leaving
<1>8. /\ NumbersInv' /\ FirstInv' /\ NewInv' /\ TestedInv' /\ Workers' = Workers
      /\ \A q \in Workers : worker'[q].code < ExitMod /\ Len(worker'[q].in) <= PipeRoom
      /\ 1 \in Workers /\ Len(worker) \in Workers
  BY <1>7, LeavingKeeps
<1>9. TypeOK'
  BY <1>4, <1>8, SameStream DEF ChainInv, TypeOK, Workers
<1>10. \A q \in Workers : /\ Done(q)' <=> Done(q)
                          /\ worker[q].pc = "reaped" => worker'[q].pc = "reaped"
                          /\ worker'[q].pc = "reaped" => worker[q].pc = "reaped" \/ q = 1
                          /\ worker'[q].code = worker[q].code
  BY <1>3, <1>4 DEF Done
<1>11. ExitInv'
  <2>1. ASSUME NEW i \in Workers, NEW q \in Workers, i < q, Done(i)' PROVE worker'[q].pc = "reaped"
    BY <1>10, <2>1 DEF ChainInv, ExitInv
  <2>2. ASSUME NEW q \in Workers, q > 1, worker'[q].pc = "reaped" PROVE Done(q - 1)'
    <3>1. q - 1 \in Workers
      BY <2>2 DEF Workers
    <3>2. Done(q - 1)
      BY <1>10, <2>2 DEF ChainInv, ExitInv
    <3> QED BY <1>10, <3>1, <3>2
  <2> QED BY <1>8, <2>1, <2>2 DEF ExitInv
<1>12. AnswerInv'
  <2>1. Done(Len(worker))' <=> Done(Len(worker))
    <3>1. worker'[Len(worker)].pc = (IF Len(worker) = p THEN pc ELSE worker[Len(worker)].pc)
      BY <1>3, <1>4, <1>8
    <3>2. Len(worker') = Len(worker)
      BY <1>4
    <3> QED BY <3>1, <3>2 DEF Done
  <2>2. Found' = Found /\ Len(worker)' = Len(worker) /\ answers' = answers
    BY <1>4 DEF Found
  <2>3. \A q \in Workers : Done(q)' => worker'[q].code = (Len(worker) - q + 1 - Found) % ExitMod
    BY <1>10 DEF ChainInv, AnswerInv
  <2> QED BY <1>8, <2>1, <2>2, <2>3 DEF ChainInv, AnswerInv
<1> QED BY <1>3, <1>4, <1>8, <1>9, <1>10, <1>11, <1>12

LEMMA ExitChain ==
  ASSUME ChainInv, NEW p \in Workers, Exit(p)
  PROVE  ChainInv'
<1>1. Done(p) /\ worker[p].pc = "exiting" /\ UNCHANGED <<n, master, answers>>
  BY DEF Exit, Done
<1>2. master' \in Master /\ master'.code < ExitMod /\ 1 \in Workers
  BY <1>1, WorkerFacts DEF ChainInv, TypeOK, FirstInv, Workers
<1>3. /\ TypeOK' /\ NumbersInv' /\ FirstInv' /\ NewInv' /\ TestedInv'
      /\ ExitInv' /\ AnswerInv' /\ worker'[p].pc = "exited"
      /\ \A q \in Workers : worker'[q].code = worker[q].code
  <2>1. worker' = [worker EXCEPT ![p].pc = "exited"]
    BY DEF Exit
  <2> QED BY <1>1, <1>2, <2>1, DoneMovesOn
<1>4. MasterInv'
  <2>1. worker[1].pc = "reaped" => worker'[1] = worker[1]
    BY <1>1, <1>2 DEF Exit, ChainInv, TypeOK
  <2>2. worker'[1].pc = "reaped" => worker[1].pc = "reaped"
    <3>1. CASE p = 1
      BY <1>3, <3>1
    <3>2. CASE p # 1
      BY <1>2, <3>2 DEF Exit, ChainInv, TypeOK
    <3> QED BY <3>1, <3>2
  <2>3. HasExited(1) => HasExited(1)'
    <3>1. p = 1 => HasExited(1)'
      BY <1>3 DEF HasExited
    <3>2. p # 1 => worker'[1] = worker[1]
      BY <1>2 DEF Exit, ChainInv, TypeOK
    <3> QED BY <3>1, <3>2 DEF HasExited
  <2>4. worker'[1].code = worker[1].code /\ MaxK' = MaxK
    BY <1>1, <1>2, <1>3, SameStream
  <2> QED BY <1>1, <2>1, <2>2, <2>3, <2>4 DEF ChainInv, MasterInv
<1> QED BY <1>3, <1>4 DEF ChainInv

-----------------------------------------------------------------------------
(* The steps of the master *)

\* The first worker's pipe with one number more.
Filled(x) == [worker[1] EXCEPT !.in = Append(worker[1].in, x)]

LEMMA WriteChain ==
  ASSUME ChainInv, NEW x \in Stream, CanWrite, WriteFirst(x), UNCHANGED <<n, answers>>,
         master' \in Master, master'.code < ExitMod, MasterInv',
         AtStart => AtStart'
  PROVE  ChainInv'
<1> DEFINE w == Filled(x)
           in == Append(worker[1].in, x)
<1>0. 1 \in Workers /\ Len(worker) \in Nat
  BY WorkerFacts DEF ChainInv, FirstInv, Workers
<1>1. /\ worker[1] \in Worker /\ NumbersOf(worker[1]) /\ worker \in Seq(Worker)
      /\ worker[1].in \in Seq(Int) /\ x \in Int /\ Len(worker[1].in) < PipeRoom
      /\ Len(worker[1].in) \in Nat
  BY <1>0, WorkerFacts, StreamNumbers, LenProperties
  DEF ChainInv, NumbersInv, CanWrite, HasRoom, TypeOK
<1>2. /\ in \in Seq(Int) /\ Len(in) = Len(worker[1].in) + 1 /\ in # << >>
      /\ \A i \in 1 .. Len(worker[1].in) : in[i] = worker[1].in[i]
      /\ in[Len(worker[1].in) + 1] = x
  BY <1>1, PipeWritten
<1>3. w = [worker[1] EXCEPT !.in = in]
  BY DEF Filled
<1>4. worker' = [worker EXCEPT ![1] = w]
  BY <1>1 DEF WriteFirst, Filled
<1> HIDE DEF in
<1>5. /\ w \in Worker /\ w.pc = worker[1].pc /\ w.code = worker[1].code /\ w.in = in
      /\ w.cur = worker[1].cur /\ w.m = worker[1].m /\ w.factor1 = worker[1].factor1
  BY <1>1, <1>2, <1>3 DEF Worker
<1> HIDE DEF w
<1>6. /\ worker' \in Seq(Worker) /\ Len(worker') = Len(worker) /\ worker'[1] = w
      /\ \A q \in Workers : q # 1 => worker'[q] = worker[q]
      /\ Workers' = Workers
  BY <1>0, <1>1, <1>4, <1>5, SetOne DEF OnlyAt, Workers
<1>7. Quiet
  <2>1. Len(in) <= PipeRoom
    BY <1>1, <1>2, PfactAssumption
  <2> QED BY <1>5, <1>6, <2>1 DEF Quiet, ChainInv, TypeOK, Workers
<1>8. TypeOK' /\ ExitInv' /\ AnswerInv'
  BY <1>7, QuietExits, QuietTypes
<1>9. \A q \in Workers : HasChild(q)' <=> HasChild(q)
  BY <1>6 DEF HasChild
<1>10. NumbersOf(w)
  <2>1. ASSUME NEW i \in 1 .. Len(in) PROVE in[i] \in Stream
    <3>1. i = Len(worker[1].in) + 1 \/ i \in 1 .. Len(worker[1].in)
      BY SMTT(30), <1>1, <1>2
    <3> QED BY <1>1, <1>2, <3>1 DEF NumbersOf
  <2> QED BY <1>1, <1>5, <2>1 DEF NumbersOf
<1>11. NumbersInv'
  <2>1. ASSUME NEW q \in Workers
        PROVE  NumbersOf(worker[q])' /\ (worker'[q].pc \in {"poll", "waitEnd"} => HasChild(q)')
    <3>0. NumbersOf(worker[q]) /\ (worker[q].pc \in {"poll", "waitEnd"} => HasChild(q))
      BY DEF ChainInv, NumbersInv
    <3>1. NumbersOf(worker'[q]) /\ worker'[q].pc = worker[q].pc
      BY <1>5, <1>6, <1>10, <3>0
    <3> QED BY <1>9, <3>0, <3>1, SameStream DEF NumbersOf
  <2> QED BY <1>6, <2>1 DEF NumbersInv
<1>12. FirstInv'
  BY <1>5, <1>6 DEF ChainInv, FirstInv
<1>13. NewInv'
  <2> SUFFICES ASSUME NEW q \in Workers, worker'[q].pc = "readM"
               PROVE  /\ q = Len(worker) /\ worker'[q].cur \in Stream \ {END, 0}
                      /\ worker'[q].cur % worker'[q - 1].m # 0
                      /\ worker'[q].in = << >> =>
                           worker'[q - 1].pc = "dispatch" /\ worker'[q - 1].cur = worker'[q].cur
                      /\ worker'[q].in # << >> => Head(worker'[q].in) = worker'[q].cur
    BY <1>6, SameStream DEF NewInv, Divides
  <2>1. q # 1 /\ worker[q].pc = "readM" /\ worker'[q] = worker[q]
    BY <1>5, <1>6 DEF ChainInv, FirstInv
  <2>2. q - 1 \in Workers
    BY <1>0, <2>1 DEF Workers
  <2>3. /\ worker'[q - 1].pc = worker[q - 1].pc /\ worker'[q - 1].cur = worker[q - 1].cur
        /\ worker'[q - 1].m = worker[q - 1].m
    BY <1>5, <1>6, <2>2
  <2> QED BY <2>1, <2>3 DEF ChainInv, NewInv, Divides
<1>14. TestedInv'
  <2> SUFFICES ASSUME NEW q \in Workers, worker'[q].pc \in {"read", "poll", "dispatch", "waitEnd"}
               PROVE  Lines(worker[q])' = << >> \/ (q = 1 /\ ~ HasChild(1)' /\ AtStart')
    BY <1>6 DEF TestedInv
  <2>1. /\ worker'[q].pc = worker[q].pc
        /\ worker'[q].m = worker[q].m /\ worker'[q].factor1 = worker[q].factor1
    BY <1>5, <1>6
  <2>2. Lines(worker[q])' = Lines(worker[q])
    BY <2>1, LinesNext
  <2>3. Lines(worker[q]) = << >> \/ (q = 1 /\ ~ HasChild(1) /\ AtStart)
    BY <2>1 DEF ChainInv, TestedInv
  <2> QED BY <1>0, <1>9, <2>2, <2>3
<1> QED BY <1>8, <1>11, <1>12, <1>13, <1>14 DEF ChainInv

\* A step that leaves the workers as they are.
LEMMA MasterOnly ==
  ASSUME ChainInv, UNCHANGED <<n, worker, answers>>, master' \in Master,
         master'.code < ExitMod, MasterInv', AtStart => AtStart'
  PROVE  ChainInv'
<1>1. Stream' = Stream /\ Workers' = Workers /\ AnswerLines' = AnswerLines /\ Found' = Found
  BY SameStream DEF Workers, Found
<1>2. TypeOK'
  BY <1>1 DEF ChainInv, TypeOK, AnswerLines
<1>3. NumbersInv' /\ FirstInv' /\ NewInv'
  BY <1>1 DEF ChainInv, NumbersInv, NumbersOf, HasChild, FirstInv, NewInv, Divides
<1>4. TestedInv'
  <2>1. \A q \in Workers : Lines(worker[q])' = Lines(worker[q])
    BY DEF Lines, Divides
  <2> QED BY <1>1, <2>1 DEF ChainInv, TestedInv, HasChild
<1>5. ExitInv' /\ AnswerInv'
  BY <1>1 DEF ChainInv, ExitInv, AnswerInv, Done
<1> QED BY <1>2, <1>3, <1>4, <1>5 DEF ChainInv

LEMMA MasterFacts ==
  ASSUME ChainInv
  PROVE  /\ master \in Master /\ master.pc \in MasterPCs /\ master.k \in Nat
         /\ master.code \in Nat /\ master.code < ExitMod /\ master.stages \in Int
         /\ ExitStatus(-1) \in Nat /\ ExitStatus(-1) < ExitMod /\ 1 \in Workers /\ n \in Nat
<1>1. ExitMod \in Nat /\ ExitMod >= 2
  BY PfactAssumption
<1>2. (-1) % ExitMod \in Nat /\ (-1) % ExitMod < ExitMod
  BY <1>1
<1>3. 1 \in Workers
  BY WorkerFacts DEF ChainInv, FirstInv, Workers
<1> QED BY <1>2, <1>3, StreamNumbers DEF ChainInv, TypeOK, Master, ExitStatus

LEMMA FeedNumberChain ==
  ASSUME ChainInv, FeedNumber
  PROVE  ChainInv'
<1>1. master.pc = "write" /\ CanWrite /\ UNCHANGED <<n, answers>> /\ WriteFirst(master.k)
  BY DEF FeedNumber
<1>2. /\ master' \in Master /\ master'.code < ExitMod /\ master'.pc = "poll"
      /\ master'.k = master.k /\ master'.stages = master.stages
  BY MasterFacts DEF FeedNumber, Master, MasterPCs
<1>3. master.k \in 2 .. MaxK /\ master.k \in Stream
  BY <1>1 DEF ChainInv, MasterInv, Stream
<1>4. /\ worker'[1].pc = worker[1].pc /\ worker'[1].code = worker[1].code
      /\ worker'[1].cur = worker[1].cur /\ worker'[1].in = Append(worker[1].in, master.k)
      /\ worker[1].in \in Seq(Int)
  BY <1>1, MasterFacts, WorkerFacts DEF WriteFirst, ChainInv, Worker, Workers
<1>5. MasterInv'
  BY <1>1, <1>2, <1>3, <1>4, SameStream DEF ChainInv, MasterInv, HasExited
<1>6. AtStart => AtStart'
  <2>1. /\ worker'[1].in # << >>
        /\ Head(worker'[1].in) = IF worker[1].in = << >> THEN master.k ELSE Head(worker[1].in)
    <3>1. master.k \in Int
      BY MasterFacts
    <3> QED BY <1>4, <3>1, PipeWritten
  <2> QED BY <1>2, <1>4, <2>1 DEF AtStart
<1> QED BY <1>1, <1>2, <1>3, <1>5, <1>6, WriteChain

\* Writes after the loop: the first number is on its way already.
LEMMA WriteLastChain ==
  ASSUME ChainInv, NEW x \in Stream, CanWrite, WriteFirst(x), UNCHANGED <<n, answers>>,
         NEW pc \in {"writeEnd", "wait"}, master' = [master EXCEPT !.pc = pc],
         master.pc \in {"writeN", "writeEnd"}
  PROVE  ChainInv'
<1>1. /\ master' \in Master /\ master'.code < ExitMod /\ master'.pc = pc
      /\ master'.stages = master.stages
  BY MasterFacts DEF Master, MasterPCs
<1>2. /\ worker'[1].pc = worker[1].pc /\ worker'[1].code = worker[1].code
      /\ worker'[1].cur = worker[1].cur /\ worker'[1].in = Append(worker[1].in, x)
      /\ worker[1].in \in Seq(Int) /\ x \in Int
  <2>1. x \in Int
    BY StreamNumbers DEF ChainInv, TypeOK
  <2>2. worker \in Seq(Worker) /\ 1 \in 1 .. Len(worker) /\ worker[1] \in Worker
    BY MasterFacts, WorkerFacts DEF ChainInv, Workers
  <2> QED BY SMTT(30), <2>1, <2>2 DEF WriteFirst, Worker
<1>3. MasterInv'
  BY <1>1, <1>2 DEF ChainInv, MasterInv, HasExited
<1>4. AtStart => AtStart'
  <2>1. /\ worker'[1].in # << >>
        /\ Head(worker'[1].in) = IF worker[1].in = << >> THEN x ELSE Head(worker[1].in)
    BY <1>2, PipeWritten
  <2> QED BY <1>2, <2>1 DEF AtStart
<1> QED BY <1>1, <1>3, <1>4, WriteChain

LEMMA PollWorkerChain ==
  ASSUME ChainInv, PollWorker
  PROVE  ChainInv'
<1>1. master.pc = "poll" /\ UNCHANGED <<n, answers>> /\ master.k \in 2 .. MaxK /\ MaxK \in Nat
  BY MasterFacts, MaxKRange DEF PollWorker, ChainInv, MasterInv
<1>2. CASE worker[1].pc = "exited"
  <2>1. /\ master' = [master EXCEPT !.pc = "wait"]
        /\ worker' = [worker EXCEPT ![1].pc = "reaped"]
    BY <1>2 DEF PollWorker
  <2>2. /\ master' \in Master /\ master'.code < ExitMod /\ master'.pc = "wait"
        /\ master'.stages = master.stages
    BY <2>1, MasterFacts DEF Master, MasterPCs
  <2>3. /\ TypeOK' /\ NumbersInv' /\ FirstInv' /\ NewInv' /\ TestedInv'
        /\ ExitInv' /\ AnswerInv' /\ worker'[1].pc = "reaped"
        /\ worker'[1].code = worker[1].code
    BY <1>1, <1>2, <2>1, <2>2, DoneMovesOn, MasterFacts DEF Done
  <2>4. MasterInv'
    BY <1>2, <2>2, <2>3 DEF ChainInv, MasterInv
  <2> QED BY <2>3, <2>4 DEF ChainInv
<1>3. CASE worker[1].pc # "exited"
  <2> DEFINE pc == IF master.k < MaxK THEN "write" ELSE "writeN"
  <2>1. master' = [master EXCEPT !.k = @ + 1, !.pc = pc] /\ UNCHANGED worker
    BY <1>3 DEF PollWorker
  <2>2. pc \in {"write", "writeN"} /\ (pc = "write" => master.k < MaxK)
    OBVIOUS
  <2> HIDE DEF pc
  <2>3. /\ master' \in Master /\ master'.code < ExitMod /\ master'.pc = pc
        /\ master'.stages = master.stages /\ master'.k = master.k + 1
    <3> DEFINE k == master.k + 1
    <3>1. master' = [master EXCEPT !.k = k, !.pc = pc] /\ k \in Nat
      BY <2>1, MasterFacts
    <3> HIDE DEF k
    <3>2. /\ master' \in Master /\ master'.pc = pc /\ master'.k = k
          /\ master'.stages = master.stages /\ master'.code = master.code
      BY <2>2, <3>1, MasterFacts DEF Master, MasterPCs
    <3> QED BY <3>2, MasterFacts DEF k
  <2>4. MasterInv'
    BY <1>1, <2>1, <2>2, <2>3, SameStream DEF ChainInv, MasterInv, HasExited
  <2>5. AtStart => AtStart'
    BY <1>1, <2>1 DEF AtStart
  <2> QED BY <1>1, <2>1, <2>3, <2>4, <2>5, MasterOnly
<1> QED BY <1>2, <1>3

\* The master fails to write, or finds nobody to wait for.
LEMMA MasterFails ==
  ASSUME ChainInv, BrokenPipe \/ WaitError
  PROVE  ChainInv'
<1>1. /\ UNCHANGED <<n, worker, answers>>
      /\ master' = [master EXCEPT !.pc = "exited", !.code = ExitStatus(-1)]
      /\ HasExited(1) /\ master.pc \in {"write", "writeN", "writeEnd", "wait"}
  BY MasterFacts DEF BrokenPipe, WaitError, HasExited, Workers
<1>2. /\ master' \in Master /\ master'.code < ExitMod /\ master'.pc = "exited"
      /\ master'.stages = master.stages
  BY <1>1, MasterFacts DEF Master, MasterPCs
<1>3. MasterInv'
  BY <1>1, <1>2 DEF ChainInv, MasterInv, HasExited
<1>4. AtStart => AtStart'
  <2>1. worker[1].pc # "read" /\ worker[1].pc # "dispatch"
    BY <1>1 DEF HasExited
  <2> QED BY <2>1 DEF AtStart
<1> QED BY <1>1, <1>2, <1>3, <1>4, MasterOnly

LEMMA ReportChain ==
  ASSUME ChainInv, ReportStages
  PROVE  ChainInv'
<1>1. /\ worker[1].pc = "exited" /\ UNCHANGED <<n, answers>>
      /\ worker' = [worker EXCEPT ![1].pc = "reaped"]
      /\ master' = [master EXCEPT !.pc = "exited", !.stages = worker[1].code]
  BY DEF ReportStages
<1>2. worker[1].code \in Nat
  BY MasterFacts, WorkerFacts DEF ChainInv
<1>3. /\ master' \in Master /\ master'.code < ExitMod /\ master'.pc = "exited"
      /\ master'.stages = worker[1].code
  <2> DEFINE c == worker[1].code
  <2>1. c \in Int
    BY <1>2
  <2> HIDE DEF c
  <2>2. master' = [master EXCEPT !.pc = "exited", !.stages = c]
    BY <1>1 DEF c
  <2>3. /\ master' \in Master /\ master'.pc = "exited" /\ master'.stages = c
        /\ master'.code = master.code
    BY <2>1, <2>2, MasterFacts DEF Master, MasterPCs
  <2> QED BY <2>3, MasterFacts DEF c
<1>4. /\ TypeOK' /\ NumbersInv' /\ FirstInv' /\ NewInv' /\ TestedInv'
      /\ ExitInv' /\ AnswerInv' /\ worker'[1].pc = "reaped"
      /\ worker'[1].code = worker[1].code
  BY <1>1, <1>3, DoneMovesOn, MasterFacts DEF Done
<1>5. MasterInv'
  BY <1>3, <1>4 DEF MasterInv, HasExited
<1> QED BY <1>4, <1>5 DEF ChainInv

-----------------------------------------------------------------------------
(* The chain's invariant *)

LEMMA ChainInit ==
  ASSUME Init
  PROVE  ChainInv
<1> DEFINE w == NewWorker(0, 1, "read")
<1>1. n \in Numbers /\ n \in Nat /\ MaxK \in Nat /\ (n >= 2 => MaxK >= 2)
  BY MaxKRange, PfactAssumption DEF Init
<1>2. PICK g \in BOOLEAN :
        master = [pc |-> IF MaxK >= 2 THEN "write" ELSE IF g THEN "wait" ELSE "writeN",
                  k |-> 2, code |-> 0, stages |-> NONE]
  BY PfactAssumption DEF Init
<1>3. worker = <<w>> /\ answers = << >>
  BY DEF Init
<1>4. /\ w.pc = "read" /\ w.in = << >> /\ w.cur = 1 /\ w.m = 2 /\ w.factor1 = 0 /\ w.code = 0
      /\ w \in Worker /\ Len(w.in) = 0
  BY EmptySeq DEF NewWorker, Worker, WorkerPCs
<1> HIDE DEF w
<1>5. /\ worker \in Seq(Worker) /\ Len(worker) = 1 /\ worker[1] = w /\ Workers = {1}
  BY <1>3, <1>4 DEF Workers
<1>6. /\ master.pc \in {"write", "wait", "writeN"} /\ (master.pc = "write" <=> MaxK >= 2)
      /\ master.k = 2 /\ master.code = 0 /\ master.stages = NONE /\ master \in Master
  BY <1>2 DEF Master, MasterPCs, NONE
<1>7. answers \in Seq({PrimeLine, NoProduct} \cup {Product(p, q) : p, q \in 1 .. n})
  BY <1>3, EmptySeq
<1>8. TypeOK
  BY <1>1, <1>4, <1>5, <1>6, <1>7, PfactAssumption DEF TypeOK
<1>9. MasterInv
  BY <1>1, <1>4, <1>5, <1>6 DEF MasterInv
<1>10. NumbersInv
  BY <1>4, <1>5 DEF NumbersInv, NumbersOf
<1>11. FirstInv /\ NewInv
  BY <1>4, <1>5 DEF FirstInv, NewInv
<1>12. TestedInv
  <2>1. CASE master.pc = "write"
    BY <1>4, <1>5, <1>6, <2>1 DEF TestedInv, AtStart, HasChild
  <2>2. CASE master.pc # "write"
    <3>1. n = 0 \/ n = 1
      BY <1>1, <1>6, <2>2
    <3>2. (2 * 2) % IntMod = 4 /\ 1 % 2 = 1
      BY PfactAssumption
    <3>3. Lines(w) = << >>
      BY <1>4, <3>1, <3>2 DEF Lines, Divides
    <3> QED BY <1>5, <3>3 DEF TestedInv
  <2> QED BY <2>1, <2>2
<1>13. ExitInv
  BY <1>4, <1>5 DEF ExitInv, Done
<1>14. AnswerInv
  BY <1>3, <1>4, <1>5 DEF AnswerInv, Done
<1> QED BY <1>8, <1>9, <1>10, <1>11, <1>12, <1>13, <1>14 DEF ChainInv

LEMMA MasterChain ==
  ASSUME ChainInv, MasterStep
  PROVE  ChainInv'
<1>1. CASE FeedNumber
  BY <1>1, FeedNumberChain
<1>2. CASE PollWorker
  BY <1>2, PollWorkerChain
<1>3. CASE FeedN
  <2>1. n \in Stream
    BY DEF Stream
  <2> QED BY <1>3, <2>1, WriteLastChain DEF FeedN
<1>4. CASE FeedEnd
  <2>1. END \in Stream
    BY DEF Stream
  <2> QED BY <1>4, <2>1, WriteLastChain DEF FeedEnd
<1>5. CASE BrokenPipe \/ WaitError
  BY <1>5, MasterFails
<1>6. CASE ReportStages
  BY <1>6, ReportChain
<1> QED BY <1>1, <1>2, <1>3, <1>4, <1>5, <1>6 DEF MasterStep

LEMMA WorkerChain ==
  ASSUME ChainInv, NEW p \in Workers, WorkerStep(p)
  PROVE  ChainInv'
<1>1. CASE ReadNumber(p)
  BY <1>1, ReadNumberChain
<1>2. CASE PollChild(p)
  <2>1. CASE worker[p + 1].pc = "exited"
    BY <1>2, <2>1, ExitAfterChildChain DEF PollChild
  <2> QED BY <1>2, <2>1, PollGoesOn
<1>3. CASE DropNumber(p)
  BY <1>3, DropGoesOn, DropAnswers
<1>4. CASE ForkChild(p)
  BY <1>4, ForkChildChain
<1>5. CASE PassNumber(p)
  BY <1>5, PassNumberChain
<1>6. CASE ReadM(p)
  BY <1>6, ReadMGoesOn, ReadMAnswers
<1>7. CASE FinishLast(p)
  BY <1>7, FinishLastChain
<1>8. CASE PassEnd(p)
  BY <1>8, PassEndChain
<1>9. CASE WaitChild(p)
  BY <1>9, ExitAfterChildChain DEF WaitChild
<1>10. CASE Exit(p)
  BY <1>10, ExitChain
<1> QED BY <1>1, <1>2, <1>3, <1>4, <1>5, <1>6, <1>7, <1>8, <1>9, <1>10 DEF WorkerStep

LEMMA ChainNext ==
  ASSUME ChainInv, [Next]_vars
  PROVE  ChainInv'
<1>1. CASE MasterStep
  BY <1>1, MasterChain
<1>2. ASSUME NEW p \in Workers, WorkerStep(p) PROVE ChainInv'
  BY <1>2, WorkerChain
<1>3. CASE UNCHANGED vars
  <2>1. UNCHANGED <<n, worker, answers>> /\ master' = master
    BY <1>3 DEF vars
  <2>2. master' \in Master /\ master'.code < ExitMod
    BY <2>1, MasterFacts
  <2>3. MasterInv' /\ (AtStart => AtStart')
    BY <2>1, SameStream DEF ChainInv, MasterInv, HasExited, AtStart
  <2> QED BY <2>1, <2>2, <2>3, MasterOnly
<1> QED BY <1>1, <1>2, <1>3 DEF Next, Workers

\* The invariant from which what follows is read off.
THEOREM ChainInvariant == Spec => []ChainInv
<1>1. Init => ChainInv
  BY ChainInit
<1>2. ChainInv /\ [Next]_vars => ChainInv'
  BY ChainNext
<1> QED BY <1>1, <1>2, PTL DEF Spec

\* When the first worker is done there is one line.
LEMMA AnsweredWhenDone ==
  ASSUME ChainInv, Done(1)
  PROVE  Len(answers) = 1
<1>1. 1 \in Workers /\ Len(worker) \in Workers /\ Len(worker) \in Nat
  BY MasterFacts, WorkerFacts DEF ChainInv, Workers
<1>2. Done(Len(worker))
  <2>1. CASE Len(worker) = 1
    BY <2>1
  <2>2. CASE Len(worker) # 1
    <3>1. 1 < Len(worker)
      BY <1>1, <2>2 DEF Workers
    <3>2. worker[Len(worker)].pc = "reaped"
      BY <1>1, <3>1 DEF ChainInv, ExitInv
    <3> QED BY <3>2 DEF Done
  <2> QED BY <2>1, <2>2
<1> QED BY <1>2 DEF ChainInv, AnswerInv

\* Whatever n, the size of the pipes and the order of the processes, no status, no
\* pipe and no number leaves its range (pfact.c:149, 164).
THEOREM PfactTypes == Spec => []TypeOK
<1>1. ChainInv => TypeOK
  BY DEF ChainInv
<1> QED BY <1>1, ChainInvariant, PTL

\* No process of the chain outlives those that feed it, and none but the first is
\* left a zombie (pfact.c:130, 148, 158).
THEOREM ChainGone == Spec => []NothingLeft
<1>1. ASSUME ChainInv PROVE NothingLeft
  <2>1. master.pc = "exited" => HasExited(1)
    BY <1>1 DEF ChainInv, MasterInv
  <2>2. ASSUME NEW p \in 1 .. Len(worker) - 1, HasExited(p) PROVE worker[p + 1].pc = "reaped"
    <3>1. p \in Workers /\ p + 1 \in Workers /\ p < p + 1
      BY <1>1, MasterFacts, WorkerFacts DEF ChainInv, Workers
    <3>2. Done(p)
      BY <2>2 DEF HasExited, Done
    <3> QED BY <1>1, <3>1, <3>2 DEF ChainInv, ExitInv
  <2> QED BY <2>1, <2>2 DEF NothingLeft
<1> QED BY <1>1, ChainInvariant, PTL

\* One line is printed, by the last worker, and before the program ends, however the
\* exits overtake the numbers (pfact.c:94-130, 147-165).
THEOREM OneAnswer == Spec => []AnsweredOnce
<1>1. ASSUME ChainInv PROVE AnsweredOnce
  <2>1. Len(answers) <= 1
    <3>1. answers = << >> \/ Len(answers) = 1
      BY <1>1 DEF ChainInv, AnswerInv
    <3>2. CASE answers = << >>
      BY <3>2, EmptySeq
    <3>3. CASE Len(answers) = 1
      BY <3>3
    <3> QED BY <3>1, <3>2, <3>3
  <2>2. master.pc = "exited" => Len(answers) = 1
    <3>1. HasExited(1) => Done(1)
      BY DEF HasExited, Done
    <3> QED BY <1>1, <3>1, AnsweredWhenDone DEF ChainInv, MasterInv
  <2> QED BY <2>1, <2>2 DEF AnsweredOnce
<1> QED BY <1>1, ChainInvariant, PTL

\* The number of stages is that of the workers, however they learn of their
\* children's exits (pfact.c:137, 149, 164, 224).
THEOREM StagesRight == Spec => []StagesCounted
<1>1. ASSUME ChainInv, master.stages # NONE
      PROVE  master.stages = (Len(worker) - (IF PrimeLine \in {answers[i] : i \in 1 .. Len(answers)}
                                             THEN 1 ELSE 0)) % ExitMod
  <2>1. Done(1) /\ master.stages = worker[1].code
    BY <1>1 DEF ChainInv, MasterInv, Done
  <2>2. 1 \in Workers /\ Len(worker) \in Nat
    BY <1>1, MasterFacts, WorkerFacts DEF ChainInv
  <2>3. master.stages = (Len(worker) - 1 + 1 - Found) % ExitMod
    BY <1>1, <2>1, <2>2 DEF ChainInv, AnswerInv
  <2>4. Len(answers) = 1
    BY <1>1, <2>1, AnsweredWhenDone
  <2>5. answers = <<answers[1]>>
    <3>1. answers \in Seq(AnswerLines)
      BY <1>1 DEF ChainInv, TypeOK, AnswerLines
    <3> QED BY <2>4, <3>1
  <2>6. PrimeLine \in {answers[i] : i \in 1 .. Len(answers)} <=> answers[1] = PrimeLine
    BY <2>4
  <2>7. answers = <<PrimeLine>> <=> answers[1] = PrimeLine
    BY <2>5
  <2>8. Found = IF PrimeLine \in {answers[i] : i \in 1 .. Len(answers)} THEN 1 ELSE 0
    BY <2>6, <2>7 DEF Found
  <2>9. Found \in {0, 1}
    BY DEF Found
  <2>10. Len(worker) - 1 + 1 - Found = Len(worker) - Found
    BY <2>2, <2>9
  <2> QED BY <2>3, <2>8, <2>10
<1>2. ChainInv => StagesCounted
  BY <1>1 DEF StagesCounted
<1> QED BY <1>2, ChainInvariant, PTL

-----------------------------------------------------------------------------
(* The numbers in the pipes *)

LEMMA KeyFacts ==
  ASSUME n \in Numbers, n >= 3
  PROVE  /\ n \in Nat /\ MaxK \in Nat /\ MaxK >= 2 /\ MaxK < n /\ Stream \subseteq Int
         /\ 2 \in Stream /\ END \in Stream /\ n \in Stream
         /\ \A x \in Stream : /\ Key(x) \in Nat /\ Key(x) >= 2 /\ Key(x) <= n + 1
                              /\ x # END => x \in Nat /\ x >= 2 /\ x <= n /\ Key(x) = x
                              /\ x = END <=> Key(x) = n + 1
         /\ \A x, y \in Stream : Key(x) = Key(y) => x = y
<1>1. n \in Nat /\ MaxK \in Nat /\ MaxK >= 2 /\ MaxK < n
  BY MaxKRange, PfactAssumption
<1>2. 2 \in Stream /\ END \in Stream /\ n \in Stream /\ Stream \subseteq Int
  BY <1>1 DEF Stream, END
<1>3. ASSUME NEW x \in Stream
      PROVE  /\ Key(x) \in Nat /\ Key(x) >= 2 /\ Key(x) <= n + 1
             /\ x # END => x \in Nat /\ x >= 2 /\ x <= n /\ Key(x) = x
             /\ x = END <=> Key(x) = n + 1
  <2>1. CASE x = END
    BY <1>1, <2>1 DEF Key
  <2>2. CASE x # END
    BY <1>1, <2>2 DEF Key, Stream
  <2> QED BY <2>1, <2>2
<1>4. ASSUME NEW x \in Stream, NEW y \in Stream, Key(x) = Key(y) PROVE x = y
  <2>1. x = END <=> y = END
    BY <1>3, <1>4
  <2>2. x # END => x = Key(x) /\ y = Key(y)
    BY <1>3, <2>1
  <2> QED BY <1>4, <2>1, <2>2
<1> QED BY <1>1, <1>2, <1>3, <1>4

\* Taking the first of the numbers, and adding one after the last.
LEMMA OrderedTail ==
  ASSUME n \in Numbers, n >= 3, NEW in \in Seq(Int), in # << >>,
         \A i \in 1 .. Len(in) : in[i] \in Stream, Ordered(in)
  PROVE  /\ Head(in) \in Stream /\ Holds(in, Head(in)) /\ Ordered(Tail(in))
         /\ \A x \in Stream : Holds(in, x) => Key(x) >= Key(Head(in))
         /\ \A x \in Stream : Holds(Tail(in), x) <=> Holds(in, x) /\ Key(x) > Key(Head(in))
<1>1. /\ Head(in) = in[1] /\ Len(in) \in Nat \ {0}
      /\ Tail(in) \in Seq(Int) /\ Len(Tail(in)) = Len(in) - 1
      /\ \A i \in 1 .. Len(in) - 1 : Tail(in)[i] = in[i + 1]
  BY PipeRead
<1>2. 1 \in 1 .. Len(in)
  BY <1>1
<1>3. Head(in) \in Stream /\ Holds(in, Head(in))
  BY <1>1, <1>2 DEF Holds
<1>4. Ordered(Tail(in))
  <2>1. ASSUME NEW i \in 1 .. Len(Tail(in)), NEW j \in 1 .. Len(Tail(in)), i < j
        PROVE  Key(Tail(in)[i]) < Key(Tail(in)[j])
    <3>1. i + 1 \in 1 .. Len(in) /\ j + 1 \in 1 .. Len(in) /\ i + 1 < j + 1
      BY <1>1, <2>1
    <3>2. Tail(in)[i] = in[i + 1] /\ Tail(in)[j] = in[j + 1]
      BY <1>1
    <3>3. Key(in[i + 1]) < Key(in[j + 1])
      BY <3>1 DEF Ordered
    <3> QED BY <3>2, <3>3
  <2> QED BY <2>1 DEF Ordered
<1>5. ASSUME NEW i \in 1 .. Len(in), i # 1 PROVE Key(in[i]) > Key(Head(in))
  <2>1. 1 < i
    BY <1>1, <1>5
  <2>2. Key(in[1]) < Key(in[i])
    BY <1>2, <2>1 DEF Ordered
  <2>3. in[1] \in Stream /\ in[i] \in Stream
    BY <1>2
  <2>4. Key(in[1]) \in Nat /\ Key(in[i]) \in Nat
    BY <2>3, KeyFacts
  <2> QED BY <1>1, <2>2, <2>4
<1>6. ASSUME NEW x \in Stream, Holds(in, x) PROVE Key(x) >= Key(Head(in))
  <2>1. PICK i \in 1 .. Len(in) : in[i] = x
    BY <1>6 DEF Holds
  <2>2. Key(x) \in Nat /\ Key(Head(in)) \in Nat
    BY <1>3, KeyFacts
  <2> QED BY <1>1, <1>5, <2>1, <2>2
<1>7. ASSUME NEW x \in Stream
      PROVE  Holds(Tail(in), x) <=> Holds(in, x) /\ Key(x) > Key(Head(in))
  <2>1. ASSUME Holds(Tail(in), x) PROVE Holds(in, x) /\ Key(x) > Key(Head(in))
    <3>1. PICK i \in 1 .. Len(Tail(in)) : Tail(in)[i] = x
      BY <2>1 DEF Holds
    <3>2. i + 1 \in 1 .. Len(in) /\ i + 1 # 1 /\ in[i + 1] = x
      BY <1>1, <3>1
    <3> QED BY <1>5, <3>2 DEF Holds
  <2>2. ASSUME Holds(in, x), Key(x) > Key(Head(in)) PROVE Holds(Tail(in), x)
    <3>1. PICK i \in 1 .. Len(in) : in[i] = x
      BY <2>2 DEF Holds
    <3>2. Key(Head(in)) \in Nat
      BY <1>3, KeyFacts
    <3>3. i # 1
      BY <1>1, <2>2, <3>1, <3>2
    <3>4. i - 1 \in 1 .. Len(Tail(in)) /\ i - 1 + 1 = i
      BY <1>1, <3>3
    <3>5. Tail(in)[i - 1] = x
      BY <1>1, <3>1, <3>4
    <3> QED BY <3>4, <3>5 DEF Holds
  <2> QED BY <2>1, <2>2
<1> QED BY <1>3, <1>4, <1>6, <1>7

LEMMA OrderedAppend ==
  ASSUME NEW in \in Seq(Int), NEW y \in Int, Ordered(in),
         \A i \in 1 .. Len(in) : Key(in[i]) < Key(y)
  PROVE  /\ Ordered(Append(in, y))
         /\ \A x : Holds(Append(in, y), x) <=> Holds(in, x) \/ x = y
<1> DEFINE out == Append(in, y)
<1>1. /\ Len(out) = Len(in) + 1 /\ Len(in) \in Nat
      /\ \A i \in 1 .. Len(in) : out[i] = in[i]
      /\ out[Len(in) + 1] = y
  BY PipeWritten, LenProperties
<1> HIDE DEF out
<1>2. \A i \in 1 .. Len(out) : i \in 1 .. Len(in) \/ i = Len(in) + 1
  BY <1>1
<1>3. Ordered(out)
  <2>1. ASSUME NEW i \in 1 .. Len(out), NEW j \in 1 .. Len(out), i < j
        PROVE  Key(out[i]) < Key(out[j])
    <3>1. i \in 1 .. Len(in)
      BY <1>1, <2>1
    <3>2. CASE j \in 1 .. Len(in)
      BY <1>1, <2>1, <3>1, <3>2 DEF Ordered
    <3>3. CASE j = Len(in) + 1
      BY <1>1, <3>1, <3>3
    <3> QED BY <1>2, <3>2, <3>3
  <2> QED BY <2>1 DEF Ordered
<1>4. ASSUME NEW x PROVE Holds(out, x) <=> Holds(in, x) \/ x = y
  <2>1. ASSUME Holds(out, x) PROVE Holds(in, x) \/ x = y
    <3>1. PICK i \in 1 .. Len(out) : out[i] = x
      BY <2>1 DEF Holds
    <3> QED BY <1>1, <1>2, <3>1 DEF Holds
  <2>2. ASSUME Holds(in, x) PROVE Holds(out, x)
    <3>1. PICK i \in 1 .. Len(in) : in[i] = x
      BY <2>2 DEF Holds
    <3>2. i \in 1 .. Len(out)
      BY <1>1
    <3> QED BY <1>1, <3>1, <3>2 DEF Holds
  <2>3. Holds(out, y)
    <3>1. Len(in) + 1 \in 1 .. Len(out)
      BY <1>1
    <3> QED BY <1>1, <3>1 DEF Holds
  <2> QED BY <2>1, <2>2, <2>3
<1> QED BY <1>3, <1>4 DEF out

-----------------------------------------------------------------------------
(* What a step leaves of what is known of a worker *)

LEMMA PassesNext ==
  ASSUME NEW p \in Int, NEW x, \A i \in 1 .. p : worker'[i].m = worker[i].m
  PROVE  Passes(p, x)' <=> Passes(p, x)
BY DEF Passes, Divides

LEMMA KeyNext ==
  ASSUME n' = n
  PROVE  \A x : Key(x)' = Key(x)
BY DEF Key

LEMMA HandledNext ==
  ASSUME n' = n, NEW p, worker'[p].pc = worker[p].pc, worker'[p].cur = worker[p].cur, NEW x
  PROVE  (Handled(p, x)' <=> Handled(p, x)) /\ (Taken(p, x)' <=> Taken(p, x))
BY DEF Handled, Taken, Key

LEMMA PipeNext ==
  ASSUME n' = n, NEW q, NEW in, worker'[q].in = in, Ordered(in),
         \A x \in Stream : Holds(in, x) <=> Arrived(q, x)' /\ ~ Taken(q, x)'
  PROVE  PipeInv(q)'
<1>1. Ordered(worker[q].in)'
  BY DEF Ordered, Key
<1>2. ASSUME NEW x \in Stream PROVE Holds(worker[q].in, x)' <=> Arrived(q, x)' /\ ~ Taken(q, x)'
  BY DEF Holds
<1> QED BY <1>1, <1>2, SameStream DEF PipeInv

LEMMA CurNext ==
  ASSUME n' = n, NEW q \in Nat \ {0}, NEW w, worker'[q] = w,
         \A i \in 1 .. q - 1 : worker'[i].m = worker[i].m,
         q > 1 \/ w.cur # 1 => w.cur \in Stream /\ Passes(q - 1, w.cur),
         w.pc = "waitEnd" => w.cur = END,
         NEW first, first = IF w.pc = "readM" THEN w.cur ELSE w.m,
         q > 1 => /\ first \in Stream \ {END}
                  /\ \A x \in Stream : Passes(q - 1, x) => Key(x) >= first
  PROVE  CurInv(q)'
<1>1. q - 1 \in Int /\ Stream' = Stream
  BY SameStream
<1>2. \A x : Passes(q - 1, x)' <=> Passes(q - 1, x)
  BY <1>1, PassesNext
<1>3. q > 1 \/ w.cur # 1 => w.cur \in Stream /\ Passes(q - 1, worker[q].cur)'
  BY DEF Passes, Divides
<1>4. \A x : Key(x)' = Key(x)
  BY KeyNext
<1> QED BY <1>1, <1>2, <1>3, <1>4 DEF CurInv

LEMMA ReachedNext ==
  ASSUME n' = n, NEW q, NEW c, worker'[q].cur = c,
         q > 1 /\ worker'[q].pc # "readM" => Handled(q - 1, c)',
         q = 1 /\ c # 1 => Fed(c)'
  PROVE  ReachedInv(q)'
<1>1. q > 1 /\ worker'[q].pc # "readM" => Handled(q - 1, worker[q].cur)'
  BY DEF Handled, Key
<1>2. q = 1 /\ c # 1 => Fed(worker[1].cur)'
  BY DEF Fed, Key
<1> QED BY <1>1, <1>2 DEF ReachedInv

LEMMA FactorNext ==
  ASSUME n' = n, NEW q, NEW t, MsTested(q)' = t, NEW f, worker'[q].factor1 = f,
         \A i \in 1 .. t : Divides(worker'[i].m, n) => worker'[i].m = f,
         f # 0 => \E i \in 1 .. t : worker'[i].m = f,
         NoAnswer(f)
  PROVE  FactorInv(q)'
<1>1. \A i \in 1 .. t : Divides(worker[i].m, n)' => worker'[i].m = f
  BY DEF Divides
<1>2. NoAnswer(worker[q].factor1)'
  BY DEF NoAnswer
<1> QED BY <1>1, <1>2 DEF FactorInv

\* A worker that does not change, and whose pipe gets the same numbers.
LEMMA AliveSame ==
  ASSUME n' = n, NEW q \in Nat \ {0}, AliveInv(q), worker'[q] = worker[q],
         \A i \in 1 .. q - 1 : worker'[i].m = worker[i].m,
         \A x \in Stream : Arrived(q, x)' <=> Arrived(q, x),
         NEW c, c = worker[q].cur,
         q > 1 /\ Handled(q - 1, c) => Handled(q - 1, c)',
         q = 1 /\ Fed(c) => Fed(c)',
         HasChild(q) => HasChild(q)'
  PROVE  AliveInv(q)'
<1>1. \A x \in Stream : (Taken(q, x)' <=> Taken(q, x)) /\ (Handled(q, x)' <=> Handled(q, x))
  BY HandledNext
<1>2. PipeInv(q)'
  <2> DEFINE in == worker[q].in
  <2>1. worker'[q].in = in /\ Ordered(in)
    BY DEF AliveInv, PipeInv
  <2>2. \A x \in Stream : Holds(in, x) <=> Arrived(q, x)' /\ ~ Taken(q, x)'
    BY <1>1 DEF AliveInv, PipeInv
  <2> HIDE DEF in
  <2> QED BY <2>1, <2>2, PipeNext
<1>3. CurInv(q)'
  <2> DEFINE w == worker[q]
             first == IF w.pc = "readM" THEN w.cur ELSE w.m
  <2>1. /\ q > 1 \/ w.cur # 1 => w.cur \in Stream /\ Passes(q - 1, w.cur)
        /\ w.pc = "waitEnd" => w.cur = END
        /\ q > 1 => /\ first \in Stream \ {END}
                    /\ \A x \in Stream : Passes(q - 1, x) => Key(x) >= first
    BY DEF AliveInv, CurInv
  <2>2. worker'[q] = w /\ first = IF w.pc = "readM" THEN w.cur ELSE w.m
    OBVIOUS
  <2> HIDE DEF w, first
  <2> QED BY <2>1, <2>2, CurNext
<1>4. ReachedInv(q)'
  <2>1. q > 1 /\ worker'[q].pc # "readM" => Handled(q - 1, c)'
    BY DEF AliveInv, ReachedInv
  <2>2. q = 1 /\ c # 1 => Fed(c)'
    BY DEF AliveInv, ReachedInv
  <2>3. worker'[q].cur = c
    OBVIOUS
  <2> QED BY <2>1, <2>2, <2>3, ReachedNext
<1>5. LastInv(q)'
  <2>1. \A x : Passes(q, x)' <=> Passes(q, x)
    <3>1. q \in Int /\ \A i \in 1 .. q : worker'[i].m = worker[i].m
      OBVIOUS
    <3> QED BY <3>1, PassesNext
  <2>2. Stream' = Stream
    BY SameStream
  <2> QED BY <1>1, <2>1, <2>2 DEF AliveInv, LastInv
<1>6. FactorInv(q)'
  <2> DEFINE t == MsTested(q)
             f == worker[q].factor1
  <2>1. t \in Int /\ t <= q
    BY DEF MsTested
  <2>2. MsTested(q)' = t
    <3>1. q = 1 => (Handled(1, 2)' <=> Handled(1, 2))
      BY HandledNext
    <3> QED BY <3>1 DEF MsTested
  <2>3. \A i \in 1 .. t : worker'[i].m = worker[i].m
    BY <2>1
  <2>4. /\ \A i \in 1 .. t : Divides(worker[i].m, n) => worker[i].m = f
        /\ f # 0 => \E i \in 1 .. t : worker[i].m = f
        /\ NoAnswer(f)
    BY DEF AliveInv, FactorInv
  <2>5. worker'[q].factor1 = f
    OBVIOUS
  <2> HIDE DEF t, f
  <2> QED BY <2>2, <2>3, <2>4, <2>5, FactorNext
<1> QED BY <1>2, <1>3, <1>4, <1>5, <1>6 DEF AliveInv

\* The same for the ms.
LEMMA PrimesSame ==
  ASSUME n' = n, SievePrimes, Len(worker) \in Nat,
         \A q \in Workers' : worker'[q].pc # "readM" =>
           /\ q \in Workers /\ worker[q].pc # "readM"
           /\ \A i \in 1 .. q : worker'[i].m = worker[i].m
  PROVE  SievePrimes'
<1> SUFFICES ASSUME n >= 2, NEW p \in Workers', worker'[p].pc # "readM"
             PROVE  /\ Prime(worker'[p].m)
                    /\ {worker'[i].m : i \in 1 .. p - 1} =
                         {q \in 2 .. MaxK : Prime(q) /\ q < worker'[p].m}
  BY SameStream DEF SievePrimes, Prime, Workers
<1>1. /\ p \in Workers /\ worker[p].pc # "readM" /\ p \in Nat \ {0}
      /\ \A i \in 1 .. p : worker'[i].m = worker[i].m
  BY DEF Workers
<1>2. /\ Prime(worker[p].m)
      /\ {worker[i].m : i \in 1 .. p - 1} = {q \in 2 .. MaxK : Prime(q) /\ q < worker[p].m}
  BY <1>1 DEF SievePrimes, Workers
<1>3. worker'[p].m = worker[p].m
  BY <1>1
<1>4. {worker'[i].m : i \in 1 .. p - 1} = {worker[i].m : i \in 1 .. p - 1}
  BY <1>1
<1> QED BY <1>2, <1>3, <1>4

\* The workers before one that is not done are not done.
LEMMA AliveFacts ==
  ASSUME ChainInv, SieveInv, n >= 3, NEW p \in Workers, ~ Done(p)
  PROVE  /\ AliveInv(p) /\ SievePrimes /\ n \in Numbers
         /\ worker[p] \in Worker /\ worker[p].in \in Seq(Int) /\ worker[p].cur \in Int
         /\ Key(worker[p].cur) \in Int
         /\ worker[p].m \in Nat \ {0} /\ p \in Nat \ {0} /\ p <= Len(worker) /\ Len(worker) \in Nat
         /\ p > 1 => p - 1 \in Workers /\ ~ Done(p - 1) /\ worker[p - 1].pc # "readM"
         /\ Key(END) = n + 1 /\ n \in Nat
<1>1. /\ worker[p] \in Worker /\ worker[p].in \in Seq(Int) /\ worker[p].cur \in Int
      /\ worker[p].m \in Nat \ {0} /\ p \in Nat \ {0} /\ p <= Len(worker) /\ Len(worker) \in Nat
  BY WorkerFacts DEF ChainInv, NumbersInv, NumbersOf
<1>2. n \in Numbers /\ n \in Nat
  BY StreamNumbers DEF ChainInv, TypeOK
<1>3. Key(worker[p].cur) \in Int /\ Key(END) = n + 1
  BY <1>1, <1>2 DEF Key
<1>4. ASSUME p > 1 PROVE p - 1 \in Workers /\ ~ Done(p - 1) /\ worker[p - 1].pc # "readM"
  <2>1. p - 1 \in Workers /\ p - 1 < p
    BY <1>1, <1>4 DEF Workers
  <2>2. ~ Done(p - 1)
    <3> SUFFICES ASSUME Done(p - 1) PROVE FALSE
      OBVIOUS
    <3>1. worker[p].pc = "reaped"
      BY <2>1 DEF ChainInv, ExitInv
    <3> QED BY <3>1 DEF Done
  <2>3. worker[p - 1].pc = "readM" => p - 1 = Len(worker)
    BY <2>1 DEF ChainInv, NewInv
  <2> QED BY <1>1, <2>1, <2>2, <2>3
<1>5. AliveInv(p) /\ SievePrimes
  BY DEF SieveInv
<1> QED BY <1>1, <1>2, <1>3, <1>4, <1>5

\* A step of one worker: those after it see no number come or go.
LEMMA SieveOne ==
  ASSUME ChainInv, SieveInv, n >= 3, NEW p \in Workers, NEW w, OnlyAt(p, w),
         UNCHANGED <<n, master>>, SievePrimes',
         Done(p)' \/ AliveInv(p)',
         HasChild(p) =>
           /\ w.m = worker[p].m
           /\ \A x \in Stream : Handled(p, x) => Handled(p, x)'
           /\ \A x \in Stream : Handled(p, x)' /\ Passes(p, x) => Handled(p, x)
  PROVE  SieveInv'
<1>1. /\ worker' \in Seq(Worker) /\ Len(worker') = Len(worker) /\ worker'[p] = w
      /\ \A q \in Workers : q # p => worker'[q] = worker[q]
      /\ Workers' = Workers /\ p \in Nat \ {0} /\ p <= Len(worker) /\ Len(worker) \in Nat
  BY WorkerFacts DEF OnlyAt, Workers, ChainInv
<1>2. ASSUME NEW q \in Workers, ~ Done(q)', q # p PROVE AliveInv(q)'
  <2>1. worker'[q] = worker[q] /\ ~ Done(q)
    BY <1>1, <1>2 DEF Done
  <2>2. /\ AliveInv(q) /\ q \in Nat \ {0} /\ q <= Len(worker)
        /\ q > 1 => q - 1 \in Workers
    BY <2>1, AliveFacts
  <2>3. ASSUME NEW i \in 1 .. q - 1 PROVE worker'[i].m = worker[i].m
    <3>1. i \in Workers
      BY <2>2, <2>3 DEF Workers
    <3>2. i = p => HasChild(p)
      BY <2>2, <2>3 DEF HasChild
    <3> QED BY <1>1, <3>1, <3>2
  <2>4. ASSUME NEW x \in Stream, q > 1
        PROVE  /\ Handled(q - 1, x)' /\ Passes(q - 1, x)' <=> Handled(q - 1, x) /\ Passes(q - 1, x)
               /\ Handled(q - 1, x) => Handled(q - 1, x)'
    <3>1. Passes(q - 1, x)' <=> Passes(q - 1, x)
      <4>1. q - 1 \in Int
        BY <2>2
      <4> QED BY <2>3, <4>1, PassesNext
    <3>2. CASE q - 1 = p
      <4>1. HasChild(p)
        BY <2>2, <3>2 DEF HasChild
      <4> QED BY <3>1, <3>2, <4>1
    <3>3. CASE q - 1 # p
      <4>1. worker'[q - 1] = worker[q - 1]
        BY <1>1, <2>2, <2>4, <3>3
      <4>2. Handled(q - 1, x)' <=> Handled(q - 1, x)
        BY <4>1, HandledNext
      <4> QED BY <3>1, <4>2
    <3> QED BY <3>2, <3>3
  <2>5. \A x : Fed(x)' <=> Fed(x)
    BY DEF Fed, Key, MaxK
  <2>6. \A x \in Stream : Arrived(q, x)' <=> Arrived(q, x)
    <3>1. CASE q = 1
      BY <2>5, <3>1 DEF Arrived
    <3>2. CASE q # 1
      <4>1. q > 1
        BY <2>2, <3>2
      <4> QED BY <2>4, <3>2, <4>1 DEF Arrived
    <3> QED BY <3>1, <3>2
  <2>7. PICK c : c = worker[q].cur
    OBVIOUS
  <2>9. q > 1 => c \in Stream
    BY <2>2, <2>7 DEF AliveInv, CurInv
  <2>8. HasChild(q) => HasChild(q)'
    BY <1>1 DEF HasChild
  <2>10. q > 1 /\ Handled(q - 1, c) => Handled(q - 1, c)'
    BY <2>4, <2>9
  <2>11. q = 1 /\ Fed(c) => Fed(c)'
    BY <2>5
  <2> QED BY <2>1, <2>2, <2>3, <2>6, <2>7, <2>8, <2>10, <2>11, AliveSame
<1>3. \A q \in Workers' : Done(q)' \/ AliveInv(q)'
  BY <1>1, <1>2
<1> QED BY <1>3 DEF SieveInv

\* A worker that goes on with the numbers it has and keeps its m.
LEMMA AliveOn ==
  ASSUME ChainInv, SieveInv, n >= 3, NEW p \in Workers, ~ Done(p), NEW w, worker'[p] = w,
         \A i \in 1 .. p - 1 : worker'[i] = worker[i], Len(worker') = Len(worker),
         UNCHANGED <<n, master>>, FactorInv(p)',
         w.in = worker[p].in, w.cur = worker[p].cur, w.m = worker[p].m,
         worker[p].pc \in {"poll", "dispatch"}, w.pc \in {"dispatch", "read", "waitEnd"},
         w.pc = "waitEnd" => w.cur = END,
         HasChild(p) \/ \A x \in Stream \ {END} : Handled(p, x)' => ~ Passes(p, x)
  PROVE  AliveInv(p)'
<1>1. worker'[p] = w /\ Len(worker') = Len(worker)
  OBVIOUS
<1>2. /\ AliveInv(p) /\ n \in Numbers /\ worker[p].cur \in Int /\ p \in Nat \ {0}
      /\ p <= Len(worker) /\ Len(worker) \in Nat
      /\ p > 1 => p - 1 \in Workers
  BY AliveFacts
<1>3. \A i \in 1 .. p - 1 : worker'[i] = worker[i]
  OBVIOUS
<1>4. \A x : Taken(p, x)' <=> Taken(p, x)
  BY <1>1 DEF Taken, Key
<1>5. \A x : p > 1 => (Handled(p - 1, x)' <=> Handled(p - 1, x)) /\ (Passes(p - 1, x)' <=> Passes(p - 1, x))
  <2>1. p - 1 \in Int
    BY <1>2
  <2>2. \A x : Passes(p - 1, x)' <=> Passes(p - 1, x)
    BY <1>3, <2>1, PassesNext
  <2>3. p > 1 => worker'[p - 1] = worker[p - 1]
    BY <1>2, <1>3
  <2>4. \A x : p > 1 => (Handled(p - 1, x)' <=> Handled(p - 1, x))
    BY <2>3, HandledNext
  <2> QED BY <2>2, <2>4
<1>6. \A x : Fed(x)' <=> Fed(x)
  BY DEF Fed, Key, MaxK
<1>7. \A x : Arrived(p, x)' <=> Arrived(p, x)
  BY <1>2, <1>5, <1>6 DEF Arrived
<1>8. PipeInv(p)'
  <2>1. Ordered(w.in) /\ worker'[p].in = w.in
    BY <1>1, <1>2 DEF AliveInv, PipeInv
  <2>2. \A x \in Stream : Holds(w.in, x) <=> Arrived(p, x)' /\ ~ Taken(p, x)'
    BY <1>2, <1>4, <1>7 DEF AliveInv, PipeInv
  <2> QED BY <2>1, <2>2, PipeNext
<1>9. CurInv(p)'
  <2>1. /\ p > 1 \/ w.cur # 1 => w.cur \in Stream /\ Passes(p - 1, w.cur)
        /\ p > 1 => /\ w.m \in Stream \ {END}
                    /\ \A x \in Stream : Passes(p - 1, x) => Key(x) >= w.m
    BY <1>2 DEF AliveInv, CurInv
  <2>2. w.m = IF w.pc = "readM" THEN w.cur ELSE w.m
    OBVIOUS
  <2> QED BY <1>1, <1>2, <1>3, <2>1, <2>2, CurNext
<1>10. ReachedInv(p)'
  <2>1. PICK c : c = worker[p].cur
    OBVIOUS
  <2>2. p > 1 => Handled(p - 1, c)'
    BY <1>2, <1>5, <2>1 DEF AliveInv, ReachedInv
  <2>3. p = 1 /\ c # 1 => Fed(c)'
    BY <1>2, <1>6, <2>1 DEF AliveInv, ReachedInv
  <2>4. worker'[p].cur = c
    BY <1>1, <2>1
  <2> QED BY <2>2, <2>3, <2>4, ReachedNext
<1>11. LastInv(p)'
  <2>1. \A x : Passes(p, x)' <=> Passes(p, x)
    <3>1. p \in Int /\ \A i \in 1 .. p : worker'[i].m = worker[i].m
      BY <1>1, <1>2, <1>3
    <3> QED BY <3>1, PassesNext
  <2>2. HasChild(p)' <=> HasChild(p)
    BY <1>1 DEF HasChild
  <2>3. HasChild(p) \/ \A x \in Stream \ {END} : Handled(p, x)' => ~ Passes(p, x)'
    BY <2>1
  <2> QED BY <2>2, <2>3, SameStream DEF LastInv
<1> QED BY <1>8, <1>9, <1>10, <1>11 DEF AliveInv

LEMMA PollSieve ==
  ASSUME ChainInv, SieveInv, n >= 3, NEW p \in Workers, PollChild(p), worker[p + 1].pc # "exited"
  PROVE  SieveInv'
<1> DEFINE w == [worker[p] EXCEPT !.pc = "dispatch"]
<1>1. /\ worker[p].pc = "poll" /\ HasChild(p) /\ UNCHANGED <<n, master>>
      /\ worker \in Seq(Worker) /\ ~ Done(p) /\ worker[p] \in Worker
  BY WorkerFacts DEF PollChild, ChainInv, NumbersInv, Done
<1>2. /\ w \in Worker /\ w.pc = "dispatch" /\ w.cur = worker[p].cur /\ w.in = worker[p].in
      /\ w.m = worker[p].m /\ w.factor1 = worker[p].factor1
  BY <1>1 DEF Worker, WorkerPCs
<1>3. worker' = [worker EXCEPT ![p] = w]
  BY <1>1 DEF PollChild
<1> HIDE DEF w
<1>4. OnlyAt(p, w) /\ worker'[p] = w /\ (\A q \in Workers : q # p => worker'[q] = worker[q])
  BY <1>1, <1>2, <1>3, SetOne DEF OnlyAt
<1>5. AliveInv(p) /\ SievePrimes /\ p \in Nat \ {0} /\ p <= Len(worker) /\ Len(worker) \in Nat
  BY <1>1, AliveFacts
<1>6. \A x : Handled(p, x)' <=> Handled(p, x)
  BY <1>1, <1>2, <1>4 DEF Handled, Key
<1>7. \A i \in Workers : worker'[i].m = worker[i].m
  BY <1>2, <1>4
<1>8. FactorInv(p)'
  <2>1. PICK t : t = MsTested(p)
    OBVIOUS
  <2>2. PICK f : f = worker[p].factor1
    OBVIOUS
  <2>3. t \in Int /\ t <= p
    BY <1>5, <2>1 DEF MsTested
  <2>4. MsTested(p)' = t
    BY <1>1, <1>2, <1>4, <1>6, <2>1 DEF MsTested
  <2>5. \A i \in 1 .. t : worker'[i].m = worker[i].m
    BY <1>5, <1>7, <2>3 DEF Workers
  <2>6. /\ \A i \in 1 .. t : Divides(worker[i].m, n) => worker[i].m = f
        /\ f # 0 => \E i \in 1 .. t : worker[i].m = f
        /\ NoAnswer(f)
    BY <1>5, <2>1, <2>2 DEF AliveInv, FactorInv
  <2>7. worker'[p].factor1 = f
    BY <1>2, <1>4, <2>2
  <2> QED BY <1>1, <2>4, <2>5, <2>6, <2>7, FactorNext
<1>9. AliveInv(p)'
  <2>1. (\A i \in 1 .. p - 1 : worker'[i] = worker[i]) /\ Len(worker') = Len(worker)
    BY <1>4, <1>5 DEF OnlyAt, Workers
  <2> QED BY <1>1, <1>2, <1>4, <1>8, <2>1, AliveOn
<1>10. SievePrimes'
  <2>1. Workers' = Workers
    BY <1>4 DEF OnlyAt, Workers
  <2>2. \A q \in Workers : worker'[q].pc # "readM" => worker[q].pc # "readM"
    BY <1>1, <1>4
  <2>3. \A q \in Workers : \A i \in 1 .. q : i \in Workers
    BY <1>5 DEF Workers
  <2> QED BY <1>1, <1>5, <1>7, <2>1, <2>2, <2>3, PrimesSame
<1> QED BY <1>1, <1>2, <1>4, <1>6, <1>9, <1>10, SieveOne

\* What the next number in a pipe is, for the worker that takes it: nothing that got
\* through to it came between, so nothing between gets past it.
LEMMA NextNumber ==
  ASSUME ChainInv, SieveInv, n >= 3, NEW p \in Workers, worker[p].pc \in {"read", "readM"},
         worker[p].in # << >>
  PROVE  LET h == Head(worker[p].in)
         IN  /\ h \in Stream /\ Ordered(Tail(worker[p].in)) /\ Passes(p - 1, h)
             /\ p = 1 => Fed(h)
             /\ p > 1 => Handled(p - 1, h)
             /\ ~ Taken(p, h)
             /\ \A x \in Stream : Holds(Tail(worker[p].in), x) <=>
                                    Arrived(p, x) /\ ~ Taken(p, x) /\ Key(x) > Key(h)
             /\ \A x \in Stream : ~ Taken(p, x) /\ Key(x) < Key(h) =>
                                    p > 1 /\ x # END /\ ~ Passes(p - 1, x)
<1> DEFINE in == worker[p].in
           h == Head(in)
<1>1. /\ AliveInv(p) /\ n \in Numbers /\ worker[p].cur \in Int /\ p \in Nat \ {0}
      /\ in \in Seq(Int) /\ in # << >>
      /\ p > 1 => p - 1 \in Workers
  BY AliveFacts DEF Done
<1>2. \A i \in 1 .. Len(in) : in[i] \in Stream
  BY DEF ChainInv, NumbersInv, NumbersOf
<1>3. /\ Ordered(in) /\ \A x \in Stream : Holds(in, x) <=> Arrived(p, x) /\ ~ Taken(p, x)
  BY <1>1 DEF AliveInv, PipeInv
<1> HIDE DEF in
<1>4. /\ h \in Stream /\ Holds(in, h) /\ Ordered(Tail(in))
      /\ \A x \in Stream : Holds(in, x) => Key(x) >= Key(h)
      /\ \A x \in Stream : Holds(Tail(in), x) <=> Holds(in, x) /\ Key(x) > Key(h)
  BY <1>1, <1>2, <1>3, OrderedTail
<1> HIDE DEF h
<1>5. Arrived(p, h) /\ ~ Taken(p, h)
  BY <1>3, <1>4
<1>6. Passes(p - 1, h) /\ (p = 1 => Fed(h)) /\ (p > 1 => Handled(p - 1, h))
  <2>1. p = 1 => Passes(p - 1, h)
    BY DEF Passes
  <2> QED BY <1>1, <1>5, <2>1 DEF Arrived
<1>7. ASSUME NEW x \in Stream, ~ Taken(p, x), Key(x) < Key(h)
      PROVE  p > 1 /\ x # END /\ ~ Passes(p - 1, x)
  <2>1. Key(x) \in Nat /\ Key(h) \in Nat /\ Key(h) <= n + 1 /\ (x = END <=> Key(x) = n + 1) /\ n \in Nat
    BY <1>1, <1>4, KeyFacts
  <2>2. x # END
    BY <1>7, <2>1
  <2>3. ~ Arrived(p, x)
    BY <1>3, <1>4, <1>7, <2>1
  <2>4. CASE p = 1
    <3>1. master.k \in Nat /\ MaxK \in Nat
      BY <1>1, MasterFacts, KeyFacts
    <3>2. Fed(x)
      BY <1>6, <1>7, <2>1, <2>4, <3>1 DEF Fed
    <3> QED BY <2>3, <2>4, <3>2 DEF Arrived
  <2>5. CASE p > 1
    <3>1. Key(worker[p - 1].cur) \in Int
      BY <1>1, <2>5, AliveFacts DEF Done
    <3>2. Handled(p - 1, x)
      BY <1>6, <1>7, <2>1, <2>5, <3>1 DEF Handled
    <3> QED BY <2>2, <2>3, <2>5, <3>2 DEF Arrived
  <2> QED BY <1>1, <2>4, <2>5
<1>8. \A x \in Stream : Holds(Tail(in), x) <=> Arrived(p, x) /\ ~ Taken(p, x) /\ Key(x) > Key(h)
  BY <1>3, <1>4
<1> QED BY <1>4, <1>5, <1>6, <1>7, <1>8 DEF h, in

LEMMA ReadNumberSieve ==
  ASSUME ChainInv, SieveInv, n >= 3, NEW p \in Workers, ReadNumber(p)
  PROVE  SieveInv'
<1>0. /\ worker \in Seq(Worker) /\ worker[p] \in Worker /\ worker[p].pc = "read"
      /\ worker[p].in # << >> /\ UNCHANGED <<n, master>> /\ ~ Done(p)
  BY WorkerFacts DEF ReadNumber, ChainInv, Done
<1>1. /\ AliveInv(p) /\ n \in Numbers /\ worker[p].cur \in Int /\ p \in Nat \ {0}
      /\ Key(worker[p].cur) \in Int /\ worker[p].in \in Seq(Int)
      /\ p <= Len(worker) /\ Len(worker) \in Nat /\ SievePrimes
      /\ p > 1 => p - 1 \in Workers
  BY <1>0, AliveFacts
<1> DEFINE d == Head(worker[p].in)
           rest == Tail(worker[p].in)
           next == IF HasChild(p) THEN "poll" ELSE "dispatch"
           w == [worker[p] EXCEPT !.cur = d, !.in = rest, !.pc = next]
<1>2. /\ d \in Stream /\ Ordered(rest) /\ Passes(p - 1, d)
      /\ p = 1 => Fed(d)
      /\ p > 1 => Handled(p - 1, d)
      /\ ~ Taken(p, d)
      /\ \A x \in Stream : Holds(rest, x) <=> Arrived(p, x) /\ ~ Taken(p, x) /\ Key(x) > Key(d)
      /\ \A x \in Stream : ~ Taken(p, x) /\ Key(x) < Key(d) =>
                             p > 1 /\ x # END /\ ~ Passes(p - 1, x)
  BY <1>0, NextNumber
<1>3. rest \in Seq(Int) /\ d \in Int
  BY <1>0, <1>1, PipeRead
<1>4. worker' = [worker EXCEPT ![p] = w]
  BY <1>0 DEF ReadNumber
<1>5. next \in {"poll", "dispatch"}
  OBVIOUS
<1> HIDE DEF next, d, rest
<1>6. PICK h : h = d
  OBVIOUS
<1>7. /\ w \in Worker /\ w.pc \in {"poll", "dispatch"} /\ w.cur = h /\ w.in = rest
      /\ w.m = worker[p].m /\ w.factor1 = worker[p].factor1
  BY <1>0, <1>3, <1>5, <1>6 DEF Worker, WorkerPCs
<1> HIDE DEF w
<1>8. OnlyAt(p, w) /\ worker'[p] = w /\ (\A q \in Workers : q # p => worker'[q] = worker[q])
      /\ Len(worker') = Len(worker)
  BY <1>0, <1>4, <1>7, SetOne DEF OnlyAt
<1>9. /\ \A i \in 1 .. p - 1 : worker'[i] = worker[i]
      /\ \A i \in 1 .. p : worker'[i].m = worker[i].m
  BY <1>1, <1>7, <1>8 DEF Workers
<1>10. /\ \A x \in Stream : Key(x) \in Nat /\ Key(x) >= 2
       /\ Key(h) \in Nat /\ Key(h) >= 2 /\ h \in Stream /\ Key(2) = 2 /\ 2 \in Stream
       /\ n \in Nat
  BY <1>1, <1>2, <1>6, KeyFacts DEF Key, END
<1>11. /\ \A x : Taken(p, x) <=> Key(x) <= Key(worker[p].cur)
       /\ \A x : Handled(p, x) <=> Key(x) <= Key(worker[p].cur)
       /\ \A x : Taken(p, x)' <=> Key(x) <= Key(h)
       /\ \A x : Handled(p, x)' <=> Key(x) < Key(h)
  BY <1>0, <1>7, <1>8 DEF Taken, Handled, Key
<1>12. Key(worker[p].cur) < Key(h)
  BY <1>1, <1>2, <1>6, <1>10, <1>11
<1>13. \A x : p > 1 => (Handled(p - 1, x)' <=> Handled(p - 1, x)) /\ (Passes(p - 1, x)' <=> Passes(p - 1, x))
  <2>1. p - 1 \in Int
    BY <1>1
  <2>2. \A x : Passes(p - 1, x)' <=> Passes(p - 1, x)
    BY <1>9, <2>1, PassesNext
  <2>3. p > 1 => worker'[p - 1] = worker[p - 1]
    BY <1>1, <1>9
  <2>4. \A x : p > 1 => (Handled(p - 1, x)' <=> Handled(p - 1, x))
    BY <1>0, <2>3, HandledNext
  <2> QED BY <2>2, <2>4
<1>14. \A x : Fed(x)' <=> Fed(x)
  BY <1>0 DEF Fed, Key, MaxK
<1>15. \A x : Arrived(p, x)' <=> Arrived(p, x)
  BY <1>1, <1>13, <1>14 DEF Arrived
<1>16. PipeInv(p)'
  <2>1. worker'[p].in = rest
    BY <1>7, <1>8
  <2>2. \A x \in Stream : Holds(rest, x) <=> Arrived(p, x)' /\ ~ Taken(p, x)'
    BY <1>1, <1>2, <1>6, <1>10, <1>11, <1>12, <1>15
  <2> QED BY <1>0, <1>2, <2>1, <2>2, PipeNext
<1>17. CurInv(p)'
  <2>1. p > 1 => /\ w.m \in Stream \ {END}
                 /\ \A x \in Stream : Passes(p - 1, x) => Key(x) >= w.m
    BY <1>0, <1>1, <1>7 DEF AliveInv, CurInv
  <2>2. w.m = IF w.pc = "readM" THEN w.cur ELSE w.m
    BY <1>7
  <2>3. w.cur \in Stream /\ Passes(p - 1, w.cur) /\ w.pc # "waitEnd"
    BY <1>2, <1>6, <1>7
  <2> QED BY <1>0, <1>1, <1>8, <1>9, <2>1, <2>2, <2>3, CurNext
<1>18. ReachedInv(p)'
  <2>1. worker'[p].cur = h
    BY <1>7, <1>8
  <2>2. /\ p > 1 => Handled(p - 1, h)'
        /\ p = 1 => Fed(h)'
    BY <1>2, <1>6, <1>13, <1>14
  <2> QED BY <1>0, <2>1, <2>2, ReachedNext
<1>19. ASSUME NEW x \in Stream, Handled(p, x)', ~ Handled(p, x) PROVE ~ Passes(p, x)
  <2>1. ~ Taken(p, x) /\ Key(x) < Key(d)
    BY <1>6, <1>11, <1>19
  <2>2. p > 1 /\ x # END /\ ~ Passes(p - 1, x)
    BY <1>2, <2>1
  <2> QED BY <1>1, <2>2 DEF Passes
<1>20. LastInv(p)'
  <2>1. \A x : Passes(p, x)' <=> Passes(p, x)
    <3>1. p \in Int
      BY <1>1
    <3> QED BY <1>9, <3>1, PassesNext
  <2>2. HasChild(p)' <=> HasChild(p)
    BY <1>8 DEF HasChild
  <2>3. HasChild(p) \/ \A x \in Stream \ {END} : Handled(p, x)' => ~ Passes(p, x)'
    BY <1>0, <1>1, <1>19, <2>1 DEF AliveInv, LastInv
  <2> QED BY <1>0, <2>2, <2>3, SameStream DEF LastInv
<1>21. FactorInv(p)'
  <2>1. PICK t : t = MsTested(p)
    OBVIOUS
  <2>2. PICK f : f = worker[p].factor1
    OBVIOUS
  <2>3. t \in Int /\ t <= p
    BY <1>1, <2>1 DEF MsTested
  <2>4. MsTested(p)' = t
    <3>1. p = 1 => (Handled(1, 2)' <=> Handled(1, 2))
      <4>1. p = 1 /\ ~ Taken(1, 2) => ~ (Key(2) < Key(d))
        BY <1>2, <1>10
      <4>2. p = 1 => (Handled(1, 2) <=> Taken(1, 2)) /\ (Handled(1, 2)' <=> Key(2) < Key(h))
        BY <1>11
      <4>3. p = 1 /\ Taken(1, 2) => Key(2) < Key(h)
        BY <1>1, <1>10, <1>11, <1>12
      <4> QED BY <1>6, <4>1, <4>2, <4>3
    <3> QED BY <1>0, <1>7, <1>8, <2>1, <3>1 DEF MsTested
  <2>5. \A i \in 1 .. t : worker'[i].m = worker[i].m
    BY <1>1, <1>9, <2>3
  <2>6. /\ \A i \in 1 .. t : Divides(worker[i].m, n) => worker[i].m = f
        /\ f # 0 => \E i \in 1 .. t : worker[i].m = f
        /\ NoAnswer(f)
    BY <1>1, <2>1, <2>2 DEF AliveInv, FactorInv
  <2>7. worker'[p].factor1 = f
    BY <1>7, <1>8, <2>2
  <2> QED BY <1>0, <2>4, <2>5, <2>6, <2>7, FactorNext
<1>22. SievePrimes'
  <2>1. Workers' = Workers
    BY <1>8 DEF Workers
  <2>2. \A q \in Workers : worker'[q].pc # "readM" => worker[q].pc # "readM"
    BY <1>0, <1>8
  <2>3. \A i \in Workers : worker'[i].m = worker[i].m
    BY <1>7, <1>8
  <2>4. \A q \in Workers : \A i \in 1 .. q : i \in Workers
    BY <1>1 DEF Workers
  <2> QED BY <1>0, <1>1, <2>1, <2>2, <2>3, <2>4, PrimesSame
<1>23. AliveInv(p)'
  BY <1>16, <1>17, <1>18, <1>20, <1>21 DEF AliveInv
<1>24. \A x \in Stream : Handled(p, x) => Handled(p, x)'
  BY <1>1, <1>10, <1>11, <1>12
<1> QED BY <1>0, <1>7, <1>8, <1>19, <1>22, <1>23, <1>24, SieveOne

\* A worker that has tested its m and goes on knows the only factor so far.
LEMMA FactorTested ==
  ASSUME n \in Nat, n >= 3, NEW w \in Worker, w.m >= 1, Lines(w) = << >>, NEW k \in Nat,
         \A i \in 1 .. k : worker[i].m \in Nat \ {0},
         \A i \in 1 .. k : Divides(worker[i].m, n) => worker[i].m = w.factor1,
         w.factor1 # 0 => w.m = w.factor1 \/ \E i \in 1 .. k : worker[i].m = w.factor1,
         NoAnswer(w.factor1),
         NEW f, f = Tested(w).factor1
  PROVE  /\ \A i \in 1 .. k : Divides(worker[i].m, n) => worker[i].m = f
         /\ Divides(w.m, n) => w.m = f
         /\ f # 0 => w.m = f \/ \E i \in 1 .. k : worker[i].m = f
         /\ NoAnswer(f)
<1>1. f = IF Divides(w.m, n) /\ w.factor1 = 0 THEN w.m ELSE w.factor1
  BY TestedGoesOn
<1>2. CASE Divides(w.m, n) /\ w.factor1 = 0
  <2>1. f = w.m /\ (w.m * w.m) % IntMod # n /\ n # w.m
    BY <1>1, <1>2 DEF Lines
  <2> QED BY <1>2, <2>1 DEF NoAnswer
<1>3. CASE ~ (Divides(w.m, n) /\ w.factor1 = 0)
  <2>1. f = w.factor1
    BY <1>1, <1>3
  <2>2. Divides(w.m, n) => w.m = w.factor1
    BY <1>3 DEF Lines
  <2> QED BY <2>1, <2>2
<1> QED BY <1>2, <1>3

LEMMA FactorKnown ==
  ASSUME ChainInv, SieveInv, n >= 3, NEW p \in Workers, ~ Done(p)
  PROVE  /\ \A i \in 1 .. p - 1 : worker[i].m \in Nat \ {0}
         /\ \A i \in 1 .. p - 1 : Divides(worker[i].m, n) => worker[i].m = worker[p].factor1
         /\ worker[p].factor1 # 0 =>
              \/ worker[p].pc # "readM" /\ worker[p].m = worker[p].factor1
              \/ \E i \in 1 .. p - 1 : worker[i].m = worker[p].factor1
         /\ NoAnswer(worker[p].factor1)
<1>1. AliveInv(p) /\ p \in Nat \ {0} /\ p <= Len(worker) /\ Len(worker) \in Nat
  BY AliveFacts
<1>2. ASSUME NEW i \in 1 .. p - 1 PROVE worker[i].m \in Nat \ {0}
  <2>1. i \in Workers
    BY <1>1, <1>2 DEF Workers
  <2> QED BY <2>1, WorkerFacts DEF ChainInv, NumbersInv, NumbersOf
<1>3. MsTested(p) = p - 1 \/ (MsTested(p) = p /\ worker[p].pc # "readM")
  BY DEF MsTested
<1>4. ASSUME NEW i \in 1 .. p - 1, Divides(worker[i].m, n) PROVE worker[i].m = worker[p].factor1
  <2>1. i \in 1 .. MsTested(p)
    BY <1>1, <1>3
  <2> QED BY <1>1, <1>4, <2>1 DEF AliveInv, FactorInv
<1>5. ASSUME worker[p].factor1 # 0
      PROVE  \/ worker[p].pc # "readM" /\ worker[p].m = worker[p].factor1
             \/ \E i \in 1 .. p - 1 : worker[i].m = worker[p].factor1
  <2>1. PICK i \in 1 .. MsTested(p) : worker[i].m = worker[p].factor1
    BY <1>1, <1>5 DEF AliveInv, FactorInv
  <2>2. i \in 1 .. p - 1 \/ (i = p /\ worker[p].pc # "readM")
    BY <1>1, <1>3
  <2> QED BY <2>1, <2>2
<1> QED BY <1>1, <1>2, <1>4, <1>5 DEF AliveInv, FactorInv

LEMMA TestedFactor ==
  ASSUME ChainInv, SieveInv, n >= 3, NEW p \in Workers, worker[p].pc = "dispatch",
         Lines(worker[p]) = << >>, n' = n, worker'[p] = Tested(worker[p]),
         \A i \in 1 .. p - 1 : worker'[i] = worker[i]
  PROVE  FactorInv(p)'
<1>0. /\ ~ Done(p) /\ worker[p] \in Worker /\ worker[p].m \in Nat \ {0} /\ p \in Nat \ {0}
      /\ n \in Nat /\ n \in Numbers /\ worker[p].cur \in Stream
  BY AliveFacts DEF Done, ChainInv, NumbersInv, NumbersOf
<1>1. PICK f : f = Tested(worker[p]).factor1
  OBVIOUS
<1>2. PICK m : m = worker[p].m
  OBVIOUS
<1>3. /\ \A i \in 1 .. p - 1 : Divides(worker[i].m, n) => worker[i].m = f
      /\ Divides(m, n) => m = f
      /\ f # 0 => m = f \/ \E i \in 1 .. p - 1 : worker[i].m = f
      /\ NoAnswer(f)
  <2>1. PICK k \in Nat : k = p - 1
    BY <1>0
  <2>2. PICK w \in Worker : w = worker[p]
    BY <1>0
  <2>3. /\ \A i \in 1 .. k : worker[i].m \in Nat \ {0}
        /\ \A i \in 1 .. k : Divides(worker[i].m, n) => worker[i].m = w.factor1
        /\ w.factor1 # 0 => w.m = w.factor1 \/ \E i \in 1 .. k : worker[i].m = w.factor1
        /\ NoAnswer(w.factor1)
    BY <1>0, <2>1, <2>2, FactorKnown
  <2>4. w.m >= 1 /\ Lines(w) = << >> /\ f = Tested(w).factor1
    BY <1>0, <1>1, <2>2
  <2>5. /\ \A i \in 1 .. k : Divides(worker[i].m, n) => worker[i].m = f
        /\ Divides(w.m, n) => w.m = f
        /\ f # 0 => w.m = f \/ \E i \in 1 .. k : worker[i].m = f
        /\ NoAnswer(f)
    <3>1. n \in Nat /\ n >= 3 /\ w \in Worker /\ k \in Nat /\ w.m >= 1
      BY <1>0, <2>4
    <3>2. Lines(w) = << >> /\ f = Tested(w).factor1
      BY <2>4
    <3>3. NoAnswer(f)
      BY <3>1, <3>2, <2>3, FactorTested
    <3>4. \A i \in 1 .. k : Divides(worker[i].m, n) => worker[i].m = f
      BY SMTT(30), <3>1, <3>2, <2>3, FactorTested
    <3>5. Divides(w.m, n) => w.m = f
      BY <3>1, <3>2, <2>3, FactorTested
    <3>6. f # 0 => w.m = f \/ \E i \in 1 .. k : worker[i].m = f
      BY <3>1, <3>2, <2>3, FactorTested
    <3> QED BY <3>3, <3>4, <3>5, <3>6
  <2> QED BY <1>2, <2>1, <2>2, <2>5
<1>4. /\ worker'[p].pc = "read" /\ worker'[p].cur = worker[p].cur /\ worker'[p].m = m
      /\ worker'[p].factor1 = f
  BY <1>0, <1>1, <1>2, TestedGoesOn
<1>5. MsTested(p)' = p
  <2>1. Key(worker[p].cur) >= 2 /\ Key(2) = 2
    <3>1. Key(2) = 2
      BY DEF Key, END
    <3> QED BY <1>0, <3>1, KeyFacts
  <2>2. p = 1 => Handled(1, 2)'
    <3>1. Key(worker'[p].cur) >= 2
      BY <1>4, <2>1
    <3> QED BY <1>4, <2>1, <3>1 DEF Handled, Key
  <2> QED BY <1>4, <2>2 DEF MsTested
<1>6. ASSUME NEW i \in 1 .. p, Divides(worker'[i].m, n) PROVE worker'[i].m = f
  <2>1. i = p \/ i \in 1 .. p - 1
    BY <1>0
  <2> QED BY <1>3, <1>4, <1>6, <2>1
<1>7. f # 0 => \E i \in 1 .. p : worker'[i].m = f
  <2>1. p \in 1 .. p /\ \A i \in 1 .. p - 1 : i \in 1 .. p
    BY <1>0
  <2> QED BY <1>3, <1>4, <2>1
<1> QED BY <1>3, <1>4, <1>5, <1>6, <1>7, FactorNext

LEMMA DropSieve ==
  ASSUME ChainInv, SieveInv, n >= 3, NEW p \in Workers, DropNumber(p), Lines(worker[p]) = << >>
  PROVE  SieveInv'
<1> DEFINE w == Tested(worker[p])
<1>1. /\ worker \in Seq(Worker) /\ worker[p] \in Worker /\ worker[p].m >= 1
      /\ worker[p].pc = "dispatch" /\ worker[p].cur \in Stream \ {END} /\ ~ Done(p)
      /\ worker[p].cur % worker[p].m = 0 /\ UNCHANGED <<n, master>>
  BY WorkerFacts DEF DropNumber, AtNumber, Divides, ChainInv, NumbersInv, NumbersOf, Done
<1>2. /\ w \in Worker /\ w.pc = "read" /\ w.in = worker[p].in /\ w.cur = worker[p].cur
      /\ w.m = worker[p].m
  BY <1>1, TestedGoesOn
<1>3. worker' = [worker EXCEPT ![p] = w]
  BY <1>1 DEF DropNumber
<1>4. OnlyAt(p, w) /\ worker'[p] = w /\ (\A q \in Workers : q # p => worker'[q] = worker[q])
      /\ Len(worker') = Len(worker)
  BY <1>1, <1>2, <1>3, SetOne DEF OnlyAt
<1>5. /\ AliveInv(p) /\ SievePrimes /\ p \in Nat \ {0} /\ p <= Len(worker) /\ Len(worker) \in Nat
      /\ n \in Numbers
  BY <1>1, AliveFacts
<1>6. \A i \in 1 .. p - 1 : worker'[i] = worker[i]
  BY <1>4, <1>5 DEF Workers
<1>7. FactorInv(p)'
  BY <1>1, <1>4, <1>6, TestedFactor
<1> HIDE DEF w
<1>8. /\ \A x : Handled(p, x) <=> Key(x) < Key(worker[p].cur)
      /\ \A x : Handled(p, x)' <=> Key(x) <= Key(worker[p].cur)
  BY <1>1, <1>2, <1>4 DEF Handled, Key
<1>9. \A x \in Stream : Key(x) \in Nat /\ Key(worker[p].cur) \in Nat
                        /\ (Key(x) = Key(worker[p].cur) => x = worker[p].cur)
  BY <1>1, <1>5, KeyFacts
<1>10. ~ Passes(p, worker[p].cur)
  BY <1>1, <1>5 DEF Passes, Divides
<1>11. \A x \in Stream : /\ Handled(p, x) => Handled(p, x)'
                         /\ Handled(p, x)' /\ Passes(p, x) => Handled(p, x)
  BY <1>8, <1>9, <1>10
<1>12. HasChild(p) \/ \A x \in Stream \ {END} : Handled(p, x)' => ~ Passes(p, x)
  BY <1>1, <1>5, <1>11 DEF AliveInv, LastInv
<1>13. AliveInv(p)'
  BY <1>1, <1>2, <1>4, <1>6, <1>7, <1>12, AliveOn
<1>14. SievePrimes'
  <2>1. Workers' = Workers
    BY <1>4 DEF Workers
  <2>2. \A q \in Workers : worker'[q].pc # "readM" => worker[q].pc # "readM"
    BY <1>1, <1>4
  <2>3. \A i \in Workers : worker'[i].m = worker[i].m
    BY <1>2, <1>4
  <2>4. \A q \in Workers : \A i \in 1 .. q : i \in Workers
    BY <1>5 DEF Workers
  <2> QED BY <1>1, <1>5, <2>1, <2>2, <2>3, <2>4, PrimesSame
<1> QED BY <1>1, <1>2, <1>4, <1>11, <1>13, <1>14, SieveOne

\* A worker that does not change, after one that goes on as before.
LEMMA AliveApart ==
  ASSUME ChainInv, SieveInv, n >= 3, NEW q \in Workers, ~ Done(q), n' = n,
         worker'[q] = worker[q], \A i \in 1 .. q - 1 : worker'[i].m = worker[i].m,
         q > 1 => worker'[q - 1].pc = worker[q - 1].pc /\ worker'[q - 1].cur = worker[q - 1].cur,
         q = 1 => master' = master, Len(worker') \in Nat, Len(worker') >= Len(worker)
  PROVE  AliveInv(q)'
<1>1. AliveInv(q) /\ q \in Nat \ {0} /\ q <= Len(worker) /\ Len(worker) \in Nat
  BY AliveFacts
<1>2. \A x : q > 1 => (Handled(q - 1, x)' <=> Handled(q - 1, x))
  BY HandledNext
<1>3. \A x : Passes(q - 1, x)' <=> Passes(q - 1, x)
  <2>1. q - 1 \in Int
    BY <1>1
  <2> QED BY <2>1, PassesNext
<1>4. q = 1 => \A x : Fed(x)' <=> Fed(x)
  BY DEF Fed, Key, MaxK
<1>5. \A x : Arrived(q, x)' <=> Arrived(q, x)
  BY <1>1, <1>2, <1>3, <1>4 DEF Arrived
<1>6. PICK c : c = worker[q].cur
  OBVIOUS
<1>7. q > 1 /\ Handled(q - 1, c) => Handled(q - 1, c)'
  BY <1>2
<1>8. q = 1 /\ Fed(c) => Fed(c)'
  BY <1>4
<1>9. HasChild(q) => HasChild(q)'
  BY <1>1 DEF HasChild
<1> QED BY <1>1, <1>5, <1>6, <1>7, <1>8, <1>9, AliveSame

\* The number that p passes on is the next one of the worker after it.
LEMMA FullerSieve ==
  ASSUME ChainInv, SieveInv, n >= 3, NEW p \in Workers, worker[p].pc = "dispatch", HasChild(p),
         HasRoom(p + 1), NEW w, AtBoth(p, w, Fuller(p)), n' = n,
         w.cur = worker[p].cur, w.m = worker[p].m, w.pc \in {"read", "waitEnd"},
         Passes(p, worker[p].cur), ~ Done(p + 1)
  PROVE  AliveInv(p + 1)'
<1>1. PICK c \in Workers : c = p + 1
  BY FullerFacts
<1>2. /\ AliveInv(c) /\ c \in Nat \ {0} /\ c <= Len(worker) /\ Len(worker) \in Nat
      /\ worker[c].in \in Seq(Int) /\ worker[c].cur \in Int /\ Key(worker[c].cur) \in Int
      /\ n \in Numbers
  BY <1>1, AliveFacts
<1>3. c > 1 /\ c - 1 = p /\ p \in Nat \ {0} /\ ~ Done(p)
  <2>1. p \in Nat \ {0}
    BY WorkerFacts DEF ChainInv
  <2>2. ~ Done(p)
    BY DEF Done
  <2> QED BY <1>1, <2>1, <2>2
<1>4. PICK y : y = worker[p].cur
  OBVIOUS
<1>5. /\ y \in Stream /\ y \in Int /\ Key(y) \in Nat
      /\ \A x \in Stream : Key(x) \in Nat /\ (Key(x) = Key(y) => x = y)
  <2>1. y \in Stream
    BY <1>4 DEF ChainInv, NumbersInv, NumbersOf
  <2> QED BY <1>2, <2>1, KeyFacts
<1>6. /\ Fuller(p).in = Append(worker[c].in, y)
      /\ Fuller(p).pc = worker[c].pc /\ Fuller(p).cur = worker[c].cur
      /\ Fuller(p).m = worker[c].m /\ Fuller(p).factor1 = worker[c].factor1
  BY <1>1, <1>4, FullerFacts
<1>7. PICK v : v = Fuller(p)
  OBVIOUS
<1>8. /\ worker'[c] = v /\ worker'[p] = w /\ Len(worker') = Len(worker)
      /\ \A i \in 1 .. p - 1 : worker'[i] = worker[i]
  BY SMTT(30), <1>1, <1>2, <1>3, <1>7 DEF AtBoth, Workers
<1>9. /\ v.in = Append(worker[c].in, y) /\ v.pc = worker[c].pc /\ v.cur = worker[c].cur
      /\ v.m = worker[c].m /\ v.factor1 = worker[c].factor1
  BY <1>6, <1>7
<1>10. \A i \in 1 .. c : worker'[i].m = worker[i].m
  BY SMTT(30), <1>1, <1>2, <1>3, <1>8, <1>9
<1>11. /\ \A x : Passes(p, x)' <=> Passes(p, x)
       /\ \A x : Passes(c, x)' <=> Passes(c, x)
  <2>1. c \in Int /\ p \in Int /\ \A i \in 1 .. p : i \in 1 .. c
    BY <1>2, <1>3
  <2> QED BY <1>10, <2>1, PassesNext
<1>12. \A x : (Taken(c, x)' <=> Taken(c, x)) /\ (Handled(c, x)' <=> Handled(c, x))
  BY <1>8, <1>9, HandledNext
<1>13. /\ \A x : Handled(p, x) <=> Key(x) < Key(y)
       /\ \A x : Handled(p, x)' <=> Key(x) <= Key(y)
  BY <1>4, <1>8 DEF Handled, Key
<1>14. \A x \in Stream : Arrived(c, x)' <=> Arrived(c, x) \/ x = y
  BY <1>3, <1>4, <1>5, <1>11, <1>13 DEF Arrived
<1>15. ~ Taken(c, y)
  <2>1. CASE worker[c].pc = "readM"
    <3>1. Key(y) >= worker[c].cur /\ worker[c].cur \in Stream \ {END}
      BY <1>2, <1>3, <1>4, <1>5, <2>1 DEF AliveInv, CurInv
    <3>2. Key(worker[c].cur) = worker[c].cur
      BY <3>1 DEF Key
    <3> QED BY <1>2, <1>5, <2>1, <3>1, <3>2 DEF Taken
  <2>2. CASE worker[c].pc # "readM"
    <3>1. Handled(p, worker[c].cur)
      BY <1>2, <1>3, <2>2 DEF AliveInv, ReachedInv
    <3>2. Key(worker[c].cur) < Key(y)
      BY <1>13, <3>1
    <3> QED BY <1>2, <1>5, <2>2, <3>2 DEF Taken
  <2> QED BY <2>1, <2>2
<1>16. PipeInv(c)'
  <2>1. Ordered(worker[c].in) /\ \A x \in Stream : Holds(worker[c].in, x) <=> Arrived(c, x) /\ ~ Taken(c, x)
    BY <1>2 DEF AliveInv, PipeInv
  <2>2. ASSUME NEW i \in 1 .. Len(worker[c].in) PROVE Key(worker[c].in[i]) < Key(y)
    <3>1. worker[c].in[i] \in Stream
      BY DEF ChainInv, NumbersInv, NumbersOf
    <3>2. Holds(worker[c].in, worker[c].in[i])
      BY DEF Holds
    <3>3. Arrived(c, worker[c].in[i])
      BY <2>1, <3>1, <3>2
    <3>4. Handled(p, worker[c].in[i])
      BY <1>3, <3>3 DEF Arrived
    <3> QED BY <1>13, <3>4
  <2>3. Ordered(v.in) /\ \A x : Holds(v.in, x) <=> Holds(worker[c].in, x) \/ x = y
    <3>1. PICK in \in Seq(Int) : in = worker[c].in
      BY <1>2
    <3>2. Ordered(in) /\ \A i \in 1 .. Len(in) : Key(in[i]) < Key(y)
      BY <2>1, <2>2, <3>1
    <3>3. Ordered(Append(in, y))
      BY <1>5, <3>2, OrderedAppend
    <3>4. \A x : Holds(Append(in, y), x) <=> Holds(in, x) \/ x = y
      BY <1>5, <3>2, OrderedAppend
    <3> QED BY <1>9, <3>1, <3>3, <3>4
  <2>4. \A x \in Stream : Holds(v.in, x) <=> Arrived(c, x)' /\ ~ Taken(c, x)'
    BY <1>12, <1>14, <1>15, <2>1, <2>3
  <2>5. worker'[c].in = v.in
    BY <1>8
  <2> QED BY <2>3, <2>4, <2>5, PipeNext
<1>17. CurInv(c)'
  <2>1. PICK first : first = IF v.pc = "readM" THEN v.cur ELSE v.m
    OBVIOUS
  <2>2. first = IF worker[c].pc = "readM" THEN worker[c].cur ELSE worker[c].m
    BY <1>9, <2>1
  <2>3. /\ v.cur \in Stream /\ Passes(c - 1, v.cur)
        /\ v.pc = "waitEnd" => v.cur = END
        /\ first \in Stream \ {END}
        /\ \A x \in Stream : Passes(c - 1, x) => Key(x) >= first
    BY <1>2, <1>3, <1>9, <2>2 DEF AliveInv, CurInv
  <2>4. \A i \in 1 .. c - 1 : worker'[i].m = worker[i].m
    BY <1>2, <1>10
  <2> QED BY <1>2, <1>8, <2>1, <2>3, <2>4, CurNext
<1>18. ReachedInv(c)'
  <2>1. PICK k : k = worker[c].cur
    OBVIOUS
  <2>2. k \in Stream
    BY <1>2, <1>3, <2>1 DEF AliveInv, CurInv
  <2>3. worker[c].pc # "readM" => Handled(p, k)
    BY <1>2, <1>3, <2>1 DEF AliveInv, ReachedInv
  <2>4. worker[c].pc # "readM" => Handled(p, k)'
    BY <1>5, <1>13, <2>2, <2>3
  <2>5. worker'[c].cur = k /\ worker'[c].pc = worker[c].pc
    BY <1>8, <1>9, <2>1
  <2>6. c > 1 /\ worker'[c].pc # "readM" => Handled(c - 1, k)'
    BY <1>3, <2>4, <2>5
  <2> QED BY <1>3, <2>5, <2>6, ReachedNext
<1>19. LastInv(c)'
  <2>1. HasChild(c)' <=> HasChild(c)
    BY <1>8 DEF HasChild
  <2>2. worker'[c].pc = worker[c].pc
    BY <1>8, <1>9
  <2> QED BY <1>2, <1>11, <1>12, <2>1, <2>2, SameStream DEF AliveInv, LastInv
<1>20. FactorInv(c)'
  <2>1. PICK t : t = MsTested(c)
    OBVIOUS
  <2>2. PICK f : f = worker[c].factor1
    OBVIOUS
  <2>3. t \in Int /\ t <= c
    BY <1>2, <2>1 DEF MsTested
  <2>4. MsTested(c)' = t
    BY <1>3, <1>8, <1>9, <2>1 DEF MsTested
  <2>5. \A i \in 1 .. t : worker'[i].m = worker[i].m
    BY <1>2, <1>10, <2>3
  <2>6. /\ \A i \in 1 .. t : Divides(worker[i].m, n) => worker[i].m = f
        /\ f # 0 => \E i \in 1 .. t : worker[i].m = f
        /\ NoAnswer(f)
    BY <1>2, <2>1, <2>2 DEF AliveInv, FactorInv
  <2>7. worker'[c].factor1 = f
    BY <1>8, <1>9, <2>2
  <2> QED BY <2>4, <2>5, <2>6, <2>7, FactorNext
<1>21. AliveInv(c)'
  BY <1>16, <1>17, <1>18, <1>19, <1>20 DEF AliveInv
<1> QED BY <1>1, <1>21

\* Passing a number on, or the end.
LEMMA PassSieve ==
  ASSUME ChainInv, SieveInv, n >= 3, NEW p \in Workers, worker[p].pc = "dispatch", HasChild(p),
         HasRoom(p + 1), NEW w, AtBoth(p, w, Fuller(p)), UNCHANGED <<n, master>>,
         w.in = worker[p].in, w.cur = worker[p].cur, w.m = worker[p].m,
         w.pc \in {"read", "waitEnd"}, w.pc = "waitEnd" => w.cur = END,
         Passes(p, worker[p].cur), FactorInv(p)'
  PROVE  SieveInv'
<1>1. /\ p + 1 \in Workers /\ Fuller(p).pc = worker[p + 1].pc
      /\ Fuller(p).cur = worker[p + 1].cur /\ Fuller(p).m = worker[p + 1].m
  BY FullerFacts
<1>2. PICK v : v = Fuller(p)
  OBVIOUS
<1>3. /\ Len(worker') = Len(worker) /\ worker'[p] = w /\ worker'[p + 1] = v
      /\ \A q \in Workers : q # p /\ q # p + 1 => worker'[q] = worker[q]
      /\ v.pc = worker[p + 1].pc /\ v.cur = worker[p + 1].cur /\ v.m = worker[p + 1].m
  BY <1>1, <1>2 DEF AtBoth
<1>4. /\ p \in Nat \ {0} /\ Len(worker) \in Nat /\ p <= Len(worker) /\ ~ Done(p) /\ n' = n
      /\ SievePrimes /\ n \in Numbers
  <2>1. ~ Done(p)
    BY DEF Done
  <2> QED BY <2>1, AliveFacts
<1>5. Workers' = Workers /\ \A q \in Workers : q \in Nat \ {0} /\ \A i \in 1 .. q : i \in Workers
  BY <1>3, <1>4 DEF Workers
<1>6. \A q \in Workers : worker'[q].m = worker[q].m
  BY <1>3
<1>7. \A q \in Workers : q # p => worker'[q].pc = worker[q].pc /\ worker'[q].cur = worker[q].cur
  BY <1>3
<1>8. ASSUME NEW q \in Workers, ~ Done(q)' PROVE AliveInv(q)'
  <2>1. CASE q = p
    <3>1. \A i \in 1 .. p - 1 : worker'[i] = worker[i]
      BY <1>3, <1>4 DEF Workers
    <3> QED BY <1>3, <1>4, <2>1, <3>1, AliveOn
  <2>2. CASE q = p + 1
    <3>1. ~ Done(p + 1)
      BY <1>3, <1>8, <2>2 DEF Done
    <3> QED BY <1>4, <2>2, <3>1, FullerSieve
  <2>3. CASE q # p /\ q # p + 1
    <3>1. worker'[q] = worker[q] /\ ~ Done(q)
      BY <1>3, <1>8, <2>3 DEF Done
    <3>2. \A i \in 1 .. q - 1 : worker'[i].m = worker[i].m
      BY <1>5, <1>6
    <3>3. q > 1 => worker'[q - 1].pc = worker[q - 1].pc /\ worker'[q - 1].cur = worker[q - 1].cur
      <4>1. q > 1 => q - 1 \in Workers /\ q - 1 # p
        BY <1>4, <1>5, <2>3 DEF Workers
      <4> QED BY <1>7, <4>1
    <3>4. master' = master /\ Len(worker') \in Nat /\ Len(worker') >= Len(worker)
      BY <1>3, <1>4
    <3> QED BY <1>4, <3>1, <3>2, <3>3, <3>4, AliveApart
  <2> QED BY <2>1, <2>2, <2>3
<1>9. SievePrimes'
  <2>1. ASSUME NEW q \in Workers, worker'[q].pc # "readM"
        PROVE  worker[q].pc # "readM" /\ \A i \in 1 .. q : worker'[i].m = worker[i].m
    BY <1>5, <1>6, <1>7, <2>1
  <2> QED BY <1>4, <1>5, <2>1, PrimesSame
<1> QED BY <1>5, <1>8, <1>9 DEF SieveInv

LEMMA PassNumberSieve ==
  ASSUME ChainInv, SieveInv, n >= 3, NEW p \in Workers, PassNumber(p)
  PROVE  SieveInv'
<1> DEFINE w == Tested(worker[p])
<1>1. /\ worker \in Seq(Worker) /\ worker[p] \in Worker /\ worker[p].m >= 1
      /\ worker[p].pc = "dispatch" /\ HasChild(p) /\ HasRoom(p + 1)
      /\ Lines(worker[p]) = << >> /\ UNCHANGED <<n, master>>
      /\ ~ Divides(worker[p].m, worker[p].cur)
  BY WorkerFacts, ParentTested DEF PassNumber, AtNumber, ChainInv, NumbersInv, NumbersOf
<1>2. /\ w \in Worker /\ w.pc = "read" /\ w.in = worker[p].in /\ w.cur = worker[p].cur
      /\ w.m = worker[p].m
  BY <1>1, TestedGoesOn
<1>3. p + 1 \in Workers /\ Fuller(p) \in Worker
  BY <1>1, FullerFacts
<1>4. worker' = [worker EXCEPT ![p] = w, ![p + 1] = Fuller(p)]
  <2>1. p # p + 1
    BY DEF Workers
  <2> QED BY <1>1, <2>1 DEF PassNumber, Fuller
<1>5. AtBoth(p, w, Fuller(p))
  BY <1>1, <1>2, <1>3, <1>4, SetTwo
<1>6. AliveInv(p) /\ p \in Nat \ {0} /\ p <= Len(worker) /\ Len(worker) \in Nat
  <2>1. ~ Done(p)
    BY <1>1 DEF Done
  <2> QED BY <2>1, AliveFacts
<1>7. FactorInv(p)'
  <2>1. \A i \in 1 .. p - 1 : worker'[i] = worker[i]
    BY <1>5, <1>6 DEF AtBoth, Workers
  <2>2. worker'[p] = w
    BY <1>5 DEF AtBoth
  <2> QED BY <1>1, <2>1, <2>2, TestedFactor
<1>8. Passes(p, worker[p].cur)
  <2>1. worker[p].cur # 1 \/ p > 1 => Passes(p - 1, worker[p].cur)
    BY <1>6 DEF AliveInv, CurInv
  <2>2. p = 1 => Passes(p - 1, worker[p].cur)
    BY DEF Passes
  <2>3. \A i \in 1 .. p : i = p \/ i \in 1 .. p - 1
    BY <1>6
  <2> QED BY <1>1, <1>6, <2>1, <2>2, <2>3 DEF Passes
<1> HIDE DEF w
<1> QED BY <1>1, <1>2, <1>5, <1>7, <1>8, PassSieve

LEMMA PassEndSieve ==
  ASSUME ChainInv, SieveInv, n >= 3, NEW p \in Workers, PassEnd(p)
  PROVE  SieveInv'
<1> DEFINE w == [worker[p] EXCEPT !.pc = "waitEnd"]
<1>1. /\ worker \in Seq(Worker) /\ worker[p] \in Worker
      /\ worker[p].pc = "dispatch" /\ HasChild(p) /\ HasRoom(p + 1)
      /\ UNCHANGED <<n, master>> /\ worker[p].cur = END
  BY WorkerFacts DEF PassEnd, AtEnd, ChainInv
<1>2. /\ w \in Worker /\ w.pc = "waitEnd" /\ w.in = worker[p].in /\ w.cur = worker[p].cur
      /\ w.m = worker[p].m /\ w.factor1 = worker[p].factor1
  BY <1>1 DEF Worker, WorkerPCs
<1>3. p + 1 \in Workers /\ Fuller(p) \in Worker
  BY <1>1, FullerFacts
<1>4. worker' = [worker EXCEPT ![p] = w, ![p + 1] = Fuller(p)]
  <2>1. Fuller(p) = [worker[p + 1] EXCEPT !.in = Append(@, END)]
    BY <1>1 DEF Fuller
  <2>2. worker' = [worker EXCEPT ![p + 1].in = Append(@, END), ![p].pc = "waitEnd"]
    BY DEF PassEnd
  <2>3. p # p + 1
    BY DEF Workers
  <2> QED BY <1>1, <1>3, <2>1, <2>2, <2>3
<1> HIDE DEF w
<1>5. AtBoth(p, w, Fuller(p))
  BY <1>1, <1>2, <1>3, <1>4, SetTwo
<1>6. /\ AliveInv(p) /\ p \in Nat \ {0} /\ p <= Len(worker) /\ Len(worker) \in Nat
      /\ n \in Nat /\ Key(END) = n + 1
  <2>1. ~ Done(p)
    BY <1>1 DEF Done
  <2> QED BY <2>1, AliveFacts
<1>7. /\ worker'[p] = w /\ \A i \in 1 .. p : worker'[i].m = worker[i].m
  BY <1>2, <1>5, <1>6 DEF AtBoth, Workers
<1>8. FactorInv(p)'
  <2>1. PICK t : t = MsTested(p)
    OBVIOUS
  <2>2. PICK f : f = worker[p].factor1
    OBVIOUS
  <2>3. t \in Int /\ t <= p
    BY <1>6, <2>1 DEF MsTested
  <2>4. MsTested(p)' = t
    <3>1. Key(2) = 2 /\ Key(worker[p].cur) = n + 1
      BY <1>1, <1>6 DEF Key, END
    <3>2. p = 1 => Handled(1, 2)
      BY <1>1, <1>6, <3>1 DEF Handled
    <3>3. p = 1 => Handled(1, 2)'
      BY <1>1, <1>2, <1>6, <1>7, <3>1 DEF Handled, Key
    <3> QED BY <1>1, <1>2, <1>7, <2>1, <3>2, <3>3 DEF MsTested
  <2>5. \A i \in 1 .. t : worker'[i].m = worker[i].m
    BY <1>6, <1>7, <2>3
  <2>6. /\ \A i \in 1 .. t : Divides(worker[i].m, n) => worker[i].m = f
        /\ f # 0 => \E i \in 1 .. t : worker[i].m = f
        /\ NoAnswer(f)
    BY <1>6, <2>1, <2>2 DEF AliveInv, FactorInv
  <2>7. worker'[p].factor1 = f
    BY <1>2, <1>7, <2>2
  <2> QED BY <1>1, <2>4, <2>5, <2>6, <2>7, FactorNext
<1>9. Passes(p, worker[p].cur)
  BY <1>1 DEF Passes
<1> QED BY <1>1, <1>2, <1>5, <1>8, <1>9, PassSieve

\* A worker leaves, after those that follow it: the ones before it know what they knew.
LEMMA LeavesSieve ==
  ASSUME ChainInv, SieveInv, n >= 3, NEW p \in Workers, n' = n, master' = master \/ p = 1,
         Len(worker') = Len(worker), \A q \in Workers : q < p => worker'[q] = worker[q],
         \A q \in Workers : q >= p => Done(q)', SievePrimes'
  PROVE  SieveInv'
<1>1. p \in Nat \ {0} /\ p <= Len(worker) /\ Len(worker) \in Nat /\ Workers' = Workers
  BY WorkerFacts DEF ChainInv, Workers
<1>2. ASSUME NEW q \in Workers, ~ Done(q)' PROVE AliveInv(q)'
  <2>1. q < p /\ q \in Nat \ {0}
    BY <1>1, <1>2 DEF Workers
  <2>2. /\ worker'[q] = worker[q]
        /\ \A i \in 1 .. q - 1 : worker'[i] = worker[i]
    BY <1>1, <2>1 DEF Workers
  <2>3. ~ Done(q)
    BY <1>2, <2>2 DEF Done
  <2>4. q > 1 => worker'[q - 1] = worker[q - 1]
    BY <2>1, <2>2
  <2>5. q = 1 => master' = master
    BY <1>1, <2>1
  <2>6. Len(worker') \in Nat /\ Len(worker') >= Len(worker)
    BY <1>1
  <2> QED BY <2>2, <2>3, <2>4, <2>5, <2>6, AliveApart
<1> QED BY <1>1, <1>2 DEF SieveInv

\* The ms when no worker gets one.
LEMMA MsSame ==
  ASSUME ChainInv, SieveInv, n >= 3, n' = n, Len(worker') = Len(worker),
         \A q \in Workers : worker'[q].m = worker[q].m,
         \A q \in Workers : worker[q].pc = "readM" => worker'[q].pc = "readM"
  PROVE  SievePrimes'
<1>1. Len(worker) \in Nat /\ Workers' = Workers /\ SievePrimes
  BY MasterFacts, WorkerFacts DEF ChainInv, Workers, SieveInv
<1>2. \A q \in Workers : \A i \in 1 .. q : i \in Workers
  BY <1>1 DEF Workers
<1> QED BY <1>1, <1>2, PrimesSame

LEMMA ExitAfterChildSieve ==
  ASSUME ChainInv, SieveInv, n >= 3, NEW p \in Workers, worker[p].pc \in {"poll", "waitEnd"},
         worker[p + 1].pc = "exited", ExitAfterChild(p), UNCHANGED <<n, master>>
  PROVE  SieveInv'
<1> DEFINE w == [worker[p] EXCEPT !.pc = "exiting", !.code = ExitStatus(worker[p + 1].code + 1)]
           v == [worker[p + 1] EXCEPT !.pc = "reaped"]
<1>1. HasChild(p) /\ p + 1 \in Workers /\ p \in Nat \ {0} /\ Len(worker) \in Nat
  BY WorkerFacts DEF ChainInv, NumbersInv, HasChild, Workers
<1>2. worker \in Seq(Worker) /\ worker[p] \in Worker /\ worker[p + 1] \in Worker
  BY <1>1, WorkerFacts DEF ChainInv
<1>3. worker' = [worker EXCEPT ![p] = w, ![p + 1] = v]
  <2>1. p # p + 1
    BY <1>1
  <2> QED BY <1>2, <2>1 DEF ExitAfterChild
<1>4. /\ w.pc = "exiting" /\ w.m = worker[p].m
      /\ v.pc = "reaped" /\ v.m = worker[p + 1].m
  BY <1>2 DEF Worker
<1> HIDE DEF w, v
<1>5. /\ Len(worker') = Len(worker) /\ worker'[p] = w /\ worker'[p + 1] = v
      /\ \A q \in Workers : q # p /\ q # p + 1 => worker'[q] = worker[q]
  BY <1>1, <1>2, <1>3 DEF Workers
<1>6. ASSUME NEW q \in Workers, q >= p PROVE Done(q)'
  <2>1. CASE q = p \/ q = p + 1
    BY <1>4, <1>5, <2>1 DEF Done
  <2>2. CASE q # p /\ q # p + 1
    <3>1. p + 1 < q
      BY <1>1, <1>6, <2>2 DEF Workers
    <3>2. worker[q].pc = "reaped"
      BY <1>1, <3>1 DEF Done, ChainInv, ExitInv
    <3>3. worker'[q].pc = "reaped"
      BY <1>5, <2>2, <3>2
    <3> QED BY <3>3 DEF Done
  <2> QED BY <2>1, <2>2
<1>7. SievePrimes'
  BY <1>4, <1>5, MsSame
<1>8. \A q \in Workers : q < p => worker'[q] = worker[q]
  BY <1>1, <1>5 DEF Workers
<1> QED BY <1>5, <1>6, <1>7, <1>8, LeavesSieve

\* The steps of one worker on its way out.
LEMMA OneLeavesSieve ==
  ASSUME ChainInv, SieveInv, n >= 3, NEW p \in Workers, NEW w \in Worker,
         worker' = [worker EXCEPT ![p] = w], w.pc \in {"exiting", "exited", "reaped"},
         n' = n, master' = master \/ p = 1, Done(p) \/ p = Len(worker),
         worker[p].pc # "readM" => w.m = worker[p].m,
         worker[p].pc = "readM" => SievePrimes'
  PROVE  SieveInv'
<1>1. /\ worker \in Seq(Worker) /\ Len(worker) \in Nat /\ p \in Nat \ {0} /\ p <= Len(worker)
  BY WorkerFacts DEF ChainInv
<1>2. /\ Len(worker') = Len(worker) /\ worker'[p] = w
      /\ \A q \in Workers : q # p => worker'[q] = worker[q]
  BY <1>1, SetOne DEF OnlyAt
<1>3. ASSUME NEW q \in Workers, q >= p PROVE Done(q)'
  <2>1. CASE q = p
    BY <1>2, <2>1 DEF Done
  <2>2. CASE q # p
    <3>1. p < q /\ Done(p)
      BY <1>1, <1>3, <2>2 DEF Workers
    <3>2. worker[q].pc = "reaped"
      BY <3>1 DEF ChainInv, ExitInv
    <3> QED BY <1>2, <2>2, <3>2 DEF Done
  <2> QED BY <2>1, <2>2
<1>4. SievePrimes'
  <2>1. CASE worker[p].pc # "readM"
    BY <1>2, <2>1, MsSame
  <2> QED BY <2>1
<1>5. ASSUME NEW q \in Workers, q < p PROVE worker'[q] = worker[q]
  <2>1. q # p
    BY <1>1, <1>5
  <2> QED BY <1>2, <2>1
<1> QED BY <1>2, <1>3, <1>4, <1>5, LeavesSieve

LEMMA LeavingSieve ==
  ASSUME ChainInv, SieveInv, n >= 3, NEW p \in Workers,
         \/ FinishLast(p) \/ Exit(p)
         \/ DropNumber(p) /\ Lines(worker[p]) # << >>
  PROVE  SieveInv'
<1>1. /\ worker \in Seq(Worker) /\ worker[p] \in Worker /\ p \in Nat \ {0} /\ p <= Len(worker)
      /\ Len(worker) \in Nat
  BY WorkerFacts DEF ChainInv
<1>2. CASE FinishLast(p)
  <2> DEFINE w == [worker[p] EXCEPT !.pc = "exiting", !.code = 1]
  <2>1. /\ worker' = [worker EXCEPT ![p] = w] /\ UNCHANGED <<n, master>>
        /\ worker[p].pc = "dispatch" /\ p = Len(worker)
    <3>1. worker' = [worker EXCEPT ![p] = w] /\ UNCHANGED <<n, master>>
      BY <1>1, <1>2 DEF FinishLast
    <3>2. worker[p].pc = "dispatch" /\ ~ (p < Len(worker))
      BY <1>2 DEF FinishLast, AtEnd, HasChild
    <3> QED BY <1>1, <3>1, <3>2
  <2>2. w \in Worker /\ w.pc = "exiting" /\ w.m = worker[p].m
    BY <1>1 DEF Worker, WorkerPCs
  <2> HIDE DEF w
  <2> QED BY <2>1, <2>2, OneLeavesSieve
<1>3. CASE Exit(p)
  <2> DEFINE w == [worker[p] EXCEPT !.pc = "exited"]
  <2>1. /\ worker' = [worker EXCEPT ![p] = w] /\ UNCHANGED <<n, master>>
        /\ worker[p].pc = "exiting"
    BY <1>1, <1>3 DEF Exit
  <2>2. w \in Worker /\ w.pc = "exited" /\ w.m = worker[p].m
    BY <1>1 DEF Worker, WorkerPCs
  <2>3. Done(p)
    BY <2>1 DEF Done
  <2> HIDE DEF w
  <2> QED BY <2>1, <2>2, <2>3, OneLeavesSieve
<1>4. CASE DropNumber(p) /\ Lines(worker[p]) # << >>
  <2> DEFINE w == Tested(worker[p])
  <2>1. /\ worker' = [worker EXCEPT ![p] = w] /\ UNCHANGED <<n, master>>
        /\ worker[p].pc = "dispatch"
    BY <1>1, <1>4 DEF DropNumber, AtNumber
  <2>2. w \in Worker /\ w.pc = "exiting" /\ w.m = worker[p].m
    BY <1>1, <1>4, TestedExits
  <2>3. p = Len(worker)
    <3>1. p = 1 /\ ~ HasChild(1)
      BY <1>4, <2>1 DEF ChainInv, TestedInv
    <3>2. ~ (1 < Len(worker))
      BY <3>1 DEF HasChild
    <3> QED BY <1>1, <3>1, <3>2
  <2> HIDE DEF w
  <2> QED BY <2>1, <2>2, <2>3, OneLeavesSieve
<1> QED BY <1>2, <1>3, <1>4

\* The number that a new worker waits for is the next prime: a smaller one would have
\* got through before it, and a divisor of it, no greater than MaxK, is held back.
LEMMA NewPrime ==
  ASSUME ChainInv, SieveInv, n >= 3, NEW p \in Workers, worker[p].pc = "readM",
         NEW c, c = worker[p].cur
  PROVE  /\ Prime(c)
         /\ {worker[i].m : i \in 1 .. p - 1} = {q \in 2 .. MaxK : Prime(q) /\ q < c}
<1>1. /\ AliveInv(p) /\ SievePrimes /\ n \in Numbers /\ p \in Nat \ {0} /\ Len(worker) \in Nat
      /\ p <= Len(worker) /\ n \in Nat
      /\ p > 1 => p - 1 \in Workers /\ ~ Done(p - 1) /\ worker[p - 1].pc # "readM"
  <2>1. ~ Done(p)
    BY DEF Done
  <2> QED BY <2>1, AliveFacts
<1>2. p > 1
  BY <1>1 DEF ChainInv, FirstInv
<1>3. PICK r \in Workers : r = p - 1
  BY <1>1, <1>2
<1>4. r \in Nat \ {0} /\ AliveInv(r) /\ r <= Len(worker) /\ ~ Done(r) /\ worker[r].pc # "readM"
  <2>1. ~ Done(r) /\ worker[r].pc # "readM"
    BY <1>1, <1>2, <1>3
  <2> QED BY <2>1, AliveFacts
<1>5. /\ MaxK \in Nat /\ MaxK >= 2 /\ MaxK < n /\ Key(2) = 2 /\ 2 \in Stream
      /\ \A x \in Stream : /\ Key(x) \in Nat /\ Key(x) >= 2
                           /\ x # END => x \in Nat /\ x >= 2 /\ x <= n /\ Key(x) = x
  BY <1>1, KeyFacts DEF Key, END
<1>6. /\ c \in Stream \ {END} /\ Passes(r, c)
      /\ \A x \in Stream : Passes(r, x) => Key(x) >= c
  BY <1>1, <1>2, <1>3 DEF AliveInv, CurInv
<1>7. c \in Nat /\ c >= 2 /\ c <= n /\ Key(c) = c
  BY <1>5, <1>6
<1>8. PICK m : m = worker[r].m
  OBVIOUS
<1>9. m \in Stream \ {END} /\ \A x \in Stream : Passes(r - 1, x) => Key(x) >= m
  <2>1. CASE r = 1
    <3>1. m = 2
      BY <1>8, <2>1 DEF ChainInv, FirstInv
    <3> QED BY <1>5, <3>1 DEF END
  <2>2. CASE r # 1
    <3>1. r > 1
      BY <1>4, <2>2
    <3> QED BY <1>4, <1>8, <3>1 DEF AliveInv, CurInv
  <2> QED BY <2>1, <2>2
<1>10. m \in Nat /\ m >= 2 /\ m <= n
  BY <1>5, <1>9
<1>11. m < c
  <2>1. Passes(r - 1, c)
    BY <1>4, <1>6 DEF Passes
  <2>2. c >= m
    BY <1>6, <1>7, <1>9, <2>1
  <2>3. c % m # 0
    <3>1. r \in 1 .. r
      BY <1>4
    <3> QED BY <1>6, <1>8, <3>1 DEF Passes, Divides
  <2>4. c # m
    <3>1. m % m = 0
      BY <1>10
    <3> QED BY <2>3, <3>1
  <2> QED BY <1>7, <1>10, <2>2, <2>4
<1>12. m \in 2 .. MaxK
  <2>1. m # n
    BY <1>7, <1>11, <1>10, <1>1
  <2> QED BY <1>9, <2>1 DEF Stream
<1>13. Prime(m) /\ {worker[i].m : i \in 1 .. r - 1} = {q \in 2 .. MaxK : Prime(q) /\ q < m}
  BY <1>1, <1>4, <1>8 DEF SievePrimes, Workers
<1>14. ASSUME NEW i \in 1 .. r
       PROVE  worker[i].m \in 2 .. MaxK /\ Prime(worker[i].m) /\ worker[i].m < c
  <2>1. CASE i = r
    BY <1>8, <1>11, <1>12, <1>13, <2>1
  <2>2. CASE i # r
    <3>1. i \in 1 .. r - 1
      BY <1>4, <2>2
    <3>2. worker[i].m \in {q \in 2 .. MaxK : Prime(q) /\ q < m}
      BY <1>13, <3>1
    <3> QED BY <1>7, <1>10, <1>11, <1>5, <3>2
  <2> QED BY <2>1, <2>2
<1>15. ASSUME NEW q \in 2 .. MaxK, Prime(q), q < c PROVE \E i \in 1 .. r : worker[i].m = q
  <2>1. q \in Stream \ {END} /\ q \in Nat /\ Key(q) = q
    BY <1>5 DEF Stream, END, Key
  <2>2. ~ Passes(r, q)
    BY <1>6, <1>7, <1>15, <2>1
  <2>3. PICK i \in 1 .. r : q % worker[i].m = 0
    BY <2>2 DEF Passes, Divides
  <2>4. worker[i].m \in Nat /\ worker[i].m >= 2
    BY <1>14, <1>5
  <2>5. worker[i].m = q
    BY <1>15, <2>1, <2>3, <2>4, PrimeDivides
  <2> QED BY <2>5
<1>16. Prime(c)
  <2> SUFFICES ASSUME ~ Prime(c) PROVE FALSE
    OBVIOUS
  <2>1. PICK d \in 2 .. c - 1 : Prime(d) /\ c % d = 0 /\ d * d <= c
    BY <1>7, SmallDivisor
  <2>2. d <= MaxK
    <3> SUFFICES ASSUME d >= MaxK + 1 PROVE FALSE
      BY <1>5, <1>7
    <3>1. MaxK * MaxK >= n
      BY <1>1, MaxKIs
    <3>2. d * d >= (MaxK + 1) * d
      BY <1>5, <1>7
    <3>3. (MaxK + 1) * d >= (MaxK + 1) * (MaxK + 1)
      BY <1>5, <1>7
    <3>4. (MaxK + 1) * (MaxK + 1) = MaxK * MaxK + 2 * MaxK + 1
      BY <1>5
    <3>5. d * d \in Nat /\ (MaxK + 1) * d \in Nat /\ MaxK * MaxK \in Nat
      BY <1>5, <1>7
    <3>6. PICK k2 \in Nat, d2 \in Nat, b \in Nat :
            k2 = MaxK * MaxK /\ d2 = d * d /\ b = (MaxK + 1) * d
      BY <3>5
    <3>7. k2 >= n /\ d2 >= b /\ b >= k2 + 2 * MaxK + 1 /\ d2 <= c
      BY <2>1, <3>1, <3>2, <3>3, <3>4, <3>6
    <3>8. k2 \in Nat /\ d2 \in Nat /\ b \in Nat
      BY <3>6
    <3> QED BY <1>1, <1>5, <1>7, <3>7, <3>8
  <2>3. d \in 2 .. MaxK /\ d < c
    BY <1>5, <1>7, <2>2
  <2>4. PICK i \in 1 .. r : worker[i].m = d
    BY <1>15, <2>1, <2>3
  <2> QED BY <1>6, <2>1, <2>4 DEF Passes, Divides
<1>17. {worker[i].m : i \in 1 .. r} = {q \in 2 .. MaxK : Prime(q) /\ q < c}
  BY <1>14, <1>15
<1> QED BY <1>3, <1>16, <1>17

\* With its m, the chain is one prime longer.
LEMMA PrimesGrow ==
  ASSUME ChainInv, SieveInv, n >= 3, NEW p \in Workers, worker[p].pc = "readM", n' = n,
         Len(worker') = Len(worker), worker'[p].m = worker[p].cur,
         \A q \in Workers : q # p => worker'[q] = worker[q]
  PROVE  SievePrimes'
<1>1. PICK c : c = worker[p].cur
  OBVIOUS
<1>2. /\ Prime(c)
      /\ {worker[i].m : i \in 1 .. p - 1} = {q \in 2 .. MaxK : Prime(q) /\ q < c}
  BY <1>1, NewPrime
<1>3. /\ p = Len(worker) /\ Len(worker) \in Nat /\ p \in Nat /\ SievePrimes /\ n \in Nat
  BY MasterFacts, WorkerFacts DEF ChainInv, NewInv, SieveInv
<1> SUFFICES ASSUME NEW q \in Workers, worker'[q].pc # "readM"
             PROVE  /\ Prime(worker'[q].m)
                    /\ {worker'[i].m : i \in 1 .. q - 1} =
                         {k \in 2 .. MaxK : Prime(k) /\ k < worker'[q].m}
  BY SameStream DEF SievePrimes, Prime, Workers
<1>4. \A i \in 1 .. q - 1 : worker'[i].m = worker[i].m
  BY <1>3 DEF Workers
<1>5. CASE q = p
  BY <1>1, <1>2, <1>4, <1>5
<1>6. CASE q # p
  <2>1. worker'[q] = worker[q] /\ worker[q].pc # "readM"
    BY <1>6
  <2>2. /\ Prime(worker[q].m)
        /\ {worker[i].m : i \in 1 .. q - 1} = {k \in 2 .. MaxK : Prime(k) /\ k < worker[q].m}
    BY <1>3, <2>1 DEF SievePrimes, Workers
  <2>3. {worker'[i].m : i \in 1 .. q - 1} = {worker[i].m : i \in 1 .. q - 1}
    BY <1>4
  <2> QED BY <2>1, <2>2, <2>3
<1> QED BY <1>5, <1>6

LEMMA ReadMAnswersSieve ==
  ASSUME ChainInv, SieveInv, n >= 3, NEW p \in Workers, ReadM(p), Lines(WithM(p)) # << >>
  PROVE  SieveInv'
<1> DEFINE w == Tested(WithM(p))
<1>1. /\ WithM(p) \in Worker /\ WithM(p).m = worker[p].cur
      /\ p = Len(worker) /\ UNCHANGED <<n, master>> /\ worker' = [worker EXCEPT ![p] = w]
      /\ worker \in Seq(Worker) /\ worker[p].pc = "readM"
  BY ReadMFacts DEF ReadM
<1>2. w \in Worker /\ w.pc = "exiting" /\ w.m = worker[p].cur
  BY <1>1, TestedExits
<1> HIDE DEF w
<1>3. OnlyAt(p, w)
  BY <1>1, <1>2, SetOne
<1>4. SievePrimes'
  BY <1>1, <1>2, <1>3, PrimesGrow DEF OnlyAt
<1> QED BY <1>1, <1>2, <1>4, OneLeavesSieve

\* A new worker that goes on: its m is the one number that stops at it.
LEMMA ReadMFactor ==
  ASSUME ChainInv, SieveInv, n >= 3, NEW p \in Workers, ReadM(p), Lines(WithM(p)) = << >>,
         NEW w, w = Tested(WithM(p)), worker'[p] = w,
         \A i \in 1 .. p - 1 : worker'[i] = worker[i]
  PROVE  FactorInv(p)'
<1>1. /\ WithM(p) \in Worker /\ WithM(p).m = worker[p].cur /\ WithM(p).factor1 = worker[p].factor1
      /\ NumbersOf(WithM(p)) /\ p > 1 /\ ~ Done(p) /\ n' = n /\ worker[p].pc = "readM"
  BY ReadMFacts DEF ReadM
<1>2. n \in Nat /\ n \in Numbers /\ p \in Nat \ {0}
  BY <1>1, AliveFacts
<1>3. PICK z \in Worker : z = WithM(p)
  BY <1>1
<1>4. PICK k \in Nat : k = p - 1
  BY <1>2
<1>5. PICK f : f = w.factor1
  OBVIOUS
<1>6. /\ \A i \in 1 .. k : worker[i].m \in Nat \ {0}
      /\ \A i \in 1 .. k : Divides(worker[i].m, n) => worker[i].m = z.factor1
      /\ z.factor1 # 0 => z.m = z.factor1 \/ \E i \in 1 .. k : worker[i].m = z.factor1
      /\ NoAnswer(z.factor1)
  BY <1>1, <1>3, <1>4, FactorKnown
<1>7. Lines(z) = << >> /\ f = Tested(z).factor1
  BY <1>3, <1>5
<1>8. n \in Nat /\ n >= 3 /\ z \in Worker /\ k \in Nat /\ z.m >= 1
  BY <1>1, <1>2, <1>3, <1>4 DEF NumbersOf
<1>9. NoAnswer(f)
  BY <1>6, <1>7, <1>8, FactorTested
<1>10. \A i \in 1 .. k : Divides(worker[i].m, n) => worker[i].m = f
  BY <1>6, <1>7, <1>8, FactorTested
<1>11. Divides(z.m, n) => z.m = f
  BY <1>6, <1>7, <1>8, FactorTested
<1>12. f # 0 => z.m = f \/ \E i \in 1 .. k : worker[i].m = f
  BY <1>6, <1>7, <1>8, FactorTested
<1>13. w.pc = "read" /\ w.m = z.m
  BY <1>3, <1>7, <1>8, TestedGoesOn
<1>14. MsTested(p)' = p
  BY <1>1, <1>2, <1>13 DEF MsTested
<1>15. \A i \in 1 .. p : i = p \/ i \in 1 .. k
  BY <1>2, <1>4
<1>16. \A i \in 1 .. p : Divides(worker'[i].m, n) => worker'[i].m = f
  BY <1>4, <1>10, <1>11, <1>13, <1>15
<1>17. f # 0 => \E i \in 1 .. p : worker'[i].m = f
  <2>1. p \in 1 .. p /\ \A i \in 1 .. k : i \in 1 .. p
    BY <1>2, <1>4
  <2> QED BY <1>4, <1>12, <1>13, <2>1
<1> QED BY <1>1, <1>5, <1>9, <1>14, <1>16, <1>17, FactorNext

LEMMA ReadMSieve ==
  ASSUME ChainInv, SieveInv, n >= 3, NEW p \in Workers, ReadM(p), Lines(WithM(p)) = << >>
  PROVE  SieveInv'
<1>1. PICK w : w = Tested(WithM(p))
  OBVIOUS
<1>2. PICK c : c = worker[p].cur
  OBVIOUS
<1>3. PICK rest : rest = Tail(worker[p].in)
  OBVIOUS
<1>4. /\ WithM(p) \in Worker /\ WithM(p).m = c /\ WithM(p).cur = c
      /\ WithM(p).in = rest /\ NumbersOf(WithM(p))
      /\ p = Len(worker) /\ p > 1 /\ ~ HasChild(p) /\ ~ Done(p)
      /\ UNCHANGED <<n, master>> /\ worker' = [worker EXCEPT ![p] = w]
      /\ worker \in Seq(Worker) /\ worker[p].in # << >>
      /\ worker[p].pc = "readM" /\ c = Head(worker[p].in)
  <2>1. worker[p].pc = "readM" /\ worker[p].in # << >>
    BY DEF ReadM
  <2>2. Head(worker[p].in) = worker[p].cur
    BY <2>1 DEF ChainInv, NewInv
  <2> QED BY <1>1, <1>2, <1>3, <2>1, <2>2, ReadMFacts
<1>5. w \in Worker /\ w.pc = "read" /\ w.m = c /\ w.cur = c /\ w.in = rest
  BY <1>1, <1>4, TestedGoesOn DEF NumbersOf
<1>6. OnlyAt(p, w) /\ worker'[p] = w /\ Len(worker') = Len(worker)
      /\ \A q \in Workers : q # p => worker'[q] = worker[q]
  BY <1>4, <1>5, SetOne DEF OnlyAt
<1>7. /\ AliveInv(p) /\ n \in Numbers /\ p \in Nat \ {0} /\ n \in Nat /\ Len(worker) \in Nat
      /\ p - 1 \in Workers
  BY <1>4, AliveFacts
<1>8. \A i \in 1 .. p - 1 : worker'[i] = worker[i]
  BY <1>4, <1>6, <1>7 DEF Workers
<1>9. /\ c \in Stream /\ Ordered(rest) /\ Passes(p - 1, c) /\ Handled(p - 1, c)
      /\ \A x \in Stream : Holds(rest, x) <=>
                             Arrived(p, x) /\ ~ Taken(p, x) /\ Key(x) > Key(c)
  BY <1>3, <1>4, NextNumber
<1>10. /\ c \in Stream \ {END}
       /\ \A x \in Stream : Passes(p - 1, x) => Key(x) >= c
  BY <1>2, <1>4, <1>7 DEF AliveInv, CurInv
<1>11. /\ c \in Nat /\ c >= 2 /\ Key(c) = c
       /\ \A x \in Stream : Key(x) \in Nat /\ (Key(x) = Key(c) => x = c)
  BY <1>7, <1>10, KeyFacts
<1>12. /\ \A x : Taken(p, x) <=> Key(x) < Key(c)
       /\ \A x : Taken(p, x)' <=> Key(x) <= Key(c)
       /\ \A x : Handled(p, x)' <=> Key(x) <= Key(c)
  BY <1>2, <1>4, <1>5, <1>6 DEF Taken, Handled, Key
<1>13. \A x : (Handled(p - 1, x)' <=> Handled(p - 1, x)) /\ (Passes(p - 1, x)' <=> Passes(p - 1, x))
  <2>1. p - 1 \in Int /\ p - 1 # p
    BY <1>7
  <2>2. \A x : Passes(p - 1, x)' <=> Passes(p - 1, x)
    BY <1>8, <2>1, PassesNext
  <2>3. worker'[p - 1] = worker[p - 1]
    BY <1>6, <1>7, <2>1
  <2>4. \A x : Handled(p - 1, x)' <=> Handled(p - 1, x)
    BY <1>4, <2>3, HandledNext
  <2> QED BY <2>2, <2>4
<1>14. \A x : Arrived(p, x)' <=> Arrived(p, x)
  BY <1>4, <1>13 DEF Arrived
<1>15. PipeInv(p)'
  <2>1. \A x \in Stream : Holds(rest, x) <=> Arrived(p, x)' /\ ~ Taken(p, x)'
    BY <1>9, <1>11, <1>12, <1>14
  <2>2. worker'[p].in = rest
    BY <1>5, <1>6
  <2> QED BY <1>4, <1>9, <2>1, <2>2, PipeNext
<1>16. CurInv(p)'
  <2>1. c = IF w.pc = "readM" THEN w.cur ELSE w.m
    BY <1>5
  <2>2. w.cur \in Stream /\ Passes(p - 1, w.cur) /\ w.pc # "waitEnd"
    BY <1>5, <1>9
  <2> QED BY <1>4, <1>6, <1>7, <1>8, <1>10, <2>1, <2>2, CurNext
<1>17. ReachedInv(p)'
  <2>1. worker'[p].cur = c
    BY <1>5, <1>6
  <2>2. Handled(p - 1, c)'
    BY <1>9, <1>13
  <2>3. p # 1
    BY <1>4
  <2> QED BY <1>4, <2>1, <2>2, <2>3, ReachedNext
<1>18. LastInv(p)'
  <2>1. ASSUME NEW x \in Stream \ {END}, Handled(p, x)', Passes(p, x)' PROVE FALSE
    <3>1. \A i \in 1 .. p : ~ (x % worker'[i].m = 0)
      BY <2>1 DEF Passes, Divides
    <3>2. \A i \in 1 .. p - 1 : ~ (x % worker[i].m = 0)
      BY <1>7, <1>8, <3>1
    <3>3. Passes(p - 1, x)
      BY <3>2 DEF Passes, Divides
    <3>4. Key(x) <= Key(c) /\ Key(x) >= c
      BY <1>10, <1>12, <2>1, <3>3
    <3>5. x = c
      BY <1>11, <3>4
    <3>6. c % c = 0
      BY <1>11
    <3> QED BY <1>5, <1>6, <1>7, <3>1, <3>5, <3>6
  <2> QED BY <1>4, <2>1, SameStream DEF LastInv
<1>19. FactorInv(p)'
  BY <1>1, <1>6, <1>8, ReadMFactor
<1>20. AliveInv(p)'
  BY <1>15, <1>16, <1>17, <1>18, <1>19 DEF AliveInv
<1>21. SievePrimes'
  BY <1>2, <1>4, <1>5, <1>6, PrimesGrow
<1> QED BY <1>4, <1>6, <1>20, <1>21, SieveOne

\* The first number that gets past the last worker finds a new one with an empty pipe.
LEMMA ForkSieve ==
  ASSUME ChainInv, SieveInv, n >= 3, NEW p \in Workers, ForkChild(p)
  PROVE  SieveInv'
<1>1. PICK y : y = worker[p].cur
  OBVIOUS
<1>2. PICK f : f = worker[p].factor1
  OBVIOUS
<1>3. PICK c : c = Len(worker) + 1
  OBVIOUS
<1> DEFINE v == NewWorker(f, y, "readM")
<1>4. /\ worker \in Seq(Worker) /\ worker[p].pc = "dispatch" /\ UNCHANGED <<n, master>>
      /\ ~ Divides(worker[p].m, y) /\ Len(worker) \in Nat /\ p = Len(worker) /\ ~ HasChild(p)
      /\ p \in Nat \ {0} /\ f \in Nat /\ y \in Int /\ ~ Done(p) /\ worker[p].m \in Nat
      /\ worker' = Append(worker, v)
  BY <1>1, <1>2, WorkerFacts DEF ForkChild, AtNumber, ChainInv, HasChild, Done
<1>5. /\ v.pc = "readM" /\ v.in = << >> /\ v.cur = y /\ v.factor1 = f
  BY DEF NewWorker
<1>6. v \in Worker /\ Len(v.in) = 0
  BY <1>4, EmptySeq DEF NewWorker, Worker, WorkerPCs
<1> HIDE DEF v
<1>7. /\ Len(worker') = c /\ worker'[c] = v /\ \A q \in Workers : worker'[q] = worker[q]
      /\ Workers' = Workers \cup {c} /\ c > 1 /\ c - 1 = p /\ c \in Nat \ {0}
      /\ \A q \in Workers : q \in Nat \ {0} /\ \A i \in 1 .. q : i \in Workers
  <2>1. /\ Len(worker') = c /\ worker'[c] = v /\ \A q \in Workers : worker'[q] = worker[q]
    BY <1>3, <1>4, <1>6, AppendProperties DEF Workers
  <2>2. Workers' = Workers \cup {c} /\ c > 1 /\ c - 1 = p /\ c \in Nat \ {0}
    BY <1>3, <1>4, <2>1 DEF Workers
  <2>3. \A q \in Workers : q \in Nat \ {0} /\ \A i \in 1 .. q : i \in Workers
    BY <1>4 DEF Workers
  <2> QED BY <2>1, <2>2, <2>3
<1>8. AliveInv(p) /\ n \in Numbers /\ SievePrimes /\ n \in Nat /\ Key(END) = n + 1
  BY <1>4, AliveFacts
<1>9. y \in Stream \ {END, 0}
  BY <1>1, ForkFacts
<1>10. /\ y \in Nat /\ y >= 2 /\ y <= n /\ Key(y) = y /\ Key(2) = 2 /\ 2 \in Stream
       /\ \A x \in Stream : Key(x) \in Nat /\ Key(x) >= 2
  <2>1. Key(2) = 2
    BY DEF Key, END
  <2> QED BY <1>8, <1>9, <2>1, KeyFacts
<1>11. \A x : (Handled(p, x) <=> Key(x) < Key(y)) /\ (Handled(p, x)' <=> Key(x) < Key(y))
  BY <1>1, <1>4, <1>7 DEF Handled, Key
<1>12. \A x \in Stream : Handled(p, x) => ~ Passes(p, x)
  <2>1. ~ Handled(p, END)
    BY <1>8, <1>10, <1>11
  <2> QED BY <1>4, <1>8, <2>1 DEF AliveInv, LastInv
<1>13. \A x : Passes(p, x)' <=> Passes(p, x)
  <2>1. p \in Int /\ \A i \in 1 .. p : worker'[i].m = worker[i].m
    BY <1>4, <1>7
  <2> QED BY <2>1, PassesNext
<1>14. Passes(p, y)
  <2>1. p > 1 \/ y # 1 => Passes(p - 1, y)
    BY <1>1, <1>8 DEF AliveInv, CurInv
  <2>2. \A i \in 1 .. p : i = p \/ i \in 1 .. p - 1
    BY <1>4
  <2> QED BY <1>4, <1>10, <2>1, <2>2 DEF Passes
<1>15. PipeInv(c)'
  <2>1. PICK in : in = v.in
    OBVIOUS
  <2>2. \A x : ~ Holds(in, x)
    BY <1>6, <2>1 DEF Holds
  <2>3. Ordered(in)
    BY <1>6, <2>1 DEF Ordered
  <2>4. ASSUME NEW x \in Stream PROVE ~ Arrived(c, x)'
    <3>1. ~ (Handled(p, x)' /\ Passes(p, x)')
      BY <1>11, <1>12, <1>13
    <3> QED BY <1>7, <3>1 DEF Arrived
  <2>5. worker'[c].in = in
    BY <1>7, <2>1
  <2> QED BY <1>4, <2>2, <2>3, <2>4, <2>5, PipeNext
<1>16. CurInv(c)'
  <2>1. y = IF v.pc = "readM" THEN v.cur ELSE v.m
    BY <1>5
  <2>2. v.cur \in Stream /\ Passes(c - 1, v.cur) /\ v.pc # "waitEnd"
    BY <1>5, <1>7, <1>9, <1>14
  <2>3. ASSUME NEW x \in Stream, Passes(c - 1, x) PROVE Key(x) >= y
    <3>1. ~ Handled(p, x)
      BY <1>7, <1>12, <2>3
    <3> QED BY <1>10, <1>11, <3>1
  <2>4. \A i \in 1 .. c - 1 : worker'[i].m = worker[i].m
    BY <1>4, <1>7
  <2> QED BY <1>4, <1>7, <1>9, <2>1, <2>2, <2>3, <2>4, CurNext
<1>17. ReachedInv(c)' /\ LastInv(c)'
  BY <1>5, <1>7 DEF ReachedInv, LastInv
<1>18. FactorInv(c)'
  <2>1. MsTested(p) = p
    <3>1. p = 1 => y # 2
      <4>1. p = 1 => worker[p].m = 2
        BY DEF ChainInv, FirstInv
      <4> QED BY <1>4, <4>1 DEF Divides
    <3>2. p = 1 => Handled(1, 2)
      BY <1>10, <1>11, <3>1
    <3> QED BY <1>4, <3>2 DEF MsTested
  <2>2. MsTested(c)' = p
    BY <1>5, <1>7 DEF MsTested
  <2>3. /\ \A i \in 1 .. p : Divides(worker[i].m, n) => worker[i].m = f
        /\ f # 0 => \E i \in 1 .. p : worker[i].m = f
        /\ NoAnswer(f)
    BY <1>2, <1>8, <2>1 DEF AliveInv, FactorInv
  <2>4. \A i \in 1 .. p : worker'[i].m = worker[i].m
    BY <1>4, <1>7
  <2>5. worker'[c].factor1 = f
    BY <1>5, <1>7
  <2>6. /\ \A i \in 1 .. p : Divides(worker'[i].m, n) => worker'[i].m = f
        /\ f # 0 => \E i \in 1 .. p : worker'[i].m = f
    BY <2>3, <2>4
  <2> QED BY <1>4, <2>2, <2>3, <2>5, <2>6, FactorNext
<1>19. AliveInv(c)'
  BY <1>15, <1>16, <1>17, <1>18 DEF AliveInv
<1>20. ASSUME NEW q \in Workers, ~ Done(q)' PROVE AliveInv(q)'
  <2>1. worker'[q] = worker[q] /\ ~ Done(q)
    BY <1>7, <1>20 DEF Done
  <2>2. \A i \in 1 .. q - 1 : worker'[i].m = worker[i].m
    BY <1>7
  <2>3. q > 1 => worker'[q - 1] = worker[q - 1]
    BY <1>7 DEF Workers
  <2>4. Len(worker') \in Nat /\ Len(worker') >= Len(worker)
    BY <1>3, <1>4, <1>7
  <2> QED BY <1>4, <2>1, <2>2, <2>3, <2>4, AliveApart
<1>21. SievePrimes'
  <2>1. ASSUME NEW q \in Workers', worker'[q].pc # "readM"
        PROVE  /\ q \in Workers /\ worker[q].pc # "readM"
               /\ \A i \in 1 .. q : worker'[i].m = worker[i].m
    BY <1>5, <1>7, <2>1
  <2> QED BY <1>4, <1>8, <2>1, PrimesSame
<1> QED BY <1>7, <1>19, <1>20, <1>21 DEF SieveInv

\* The master writes the number after those it has written.
LEMMA WriteSieve ==
  ASSUME ChainInv, SieveInv, n >= 3, NEW x \in Stream, WriteFirst(x), n' = n,
         \A y \in Stream : Fed(y) => Key(y) < Key(x),
         \A y \in Stream : Fed(y)' <=> Fed(y) \/ y = x
  PROVE  SieveInv'
<1> DEFINE v == [worker[1] EXCEPT !.in = Append(worker[1].in, x)]
<1>1. /\ 1 \in Workers /\ worker \in Seq(Worker) /\ worker[1] \in Worker /\ n \in Numbers
      /\ worker[1].in \in Seq(Int) /\ worker[1].cur \in Int /\ Len(worker) \in Nat
      /\ \A q \in Workers : q \in Nat \ {0} /\ \A i \in 1 .. q : i \in Workers
  BY MasterFacts, WorkerFacts DEF ChainInv, TypeOK, Workers
<1>2. /\ x \in Int /\ n \in Nat /\ Key(x) \in Nat /\ Key(x) >= 2
      /\ \A y \in Stream : Key(y) \in Nat
  BY <1>1, KeyFacts
<1>3. Append(worker[1].in, x) \in Seq(Int)
  BY <1>1, <1>2
<1>4. worker' = [worker EXCEPT ![1] = v]
  BY <1>1 DEF WriteFirst
<1>5. /\ v \in Worker /\ v.in = Append(worker[1].in, x) /\ v.pc = worker[1].pc
      /\ v.cur = worker[1].cur /\ v.m = worker[1].m /\ v.factor1 = worker[1].factor1
  BY <1>1, <1>3 DEF Worker
<1> HIDE DEF v
<1>6. /\ worker'[1] = v /\ Len(worker') = Len(worker) /\ Workers' = Workers
      /\ \A q \in Workers : q # 1 => worker'[q] = worker[q]
  BY <1>1, <1>4, <1>5, SetOne DEF OnlyAt, Workers
<1>7. \A q \in Workers : /\ worker'[q].pc = worker[q].pc /\ worker'[q].cur = worker[q].cur
                         /\ worker'[q].m = worker[q].m
  BY <1>5, <1>6
<1>8. SievePrimes'
  BY <1>6, <1>7, MsSame
<1>9. ASSUME ~ Done(1)' PROVE AliveInv(1)'
  <2>1. ~ Done(1)
    BY <1>1, <1>7, <1>9 DEF Done
  <2>2. AliveInv(1)
    BY <1>1, <2>1, AliveFacts
  <2>3. \A y : (Taken(1, y)' <=> Taken(1, y)) /\ (Handled(1, y)' <=> Handled(1, y))
    BY <1>1, <1>7, HandledNext
  <2>4. \A y \in Stream : (Arrived(1, y) <=> Fed(y)) /\ (Arrived(1, y)' <=> Fed(y)')
    BY DEF Arrived
  <2>5. ~ Taken(1, x)
    <3>1. worker[1].pc # "readM"
      BY DEF ChainInv, FirstInv
    <3>2. worker[1].cur # 1 => Key(worker[1].cur) < Key(x)
      BY <2>2 DEF AliveInv, CurInv, ReachedInv
    <3>3. Key(1) = 1
      BY DEF Key, END
    <3>4. Key(worker[1].cur) \in Int
      BY <1>1, <1>2 DEF Key
    <3> QED BY <1>2, <3>1, <3>2, <3>3, <3>4 DEF Taken
  <2>6. PipeInv(1)'
    <3>1. PICK in \in Seq(Int) : in = worker[1].in
      BY <1>1
    <3>2. Ordered(in) /\ \A y \in Stream : Holds(in, y) <=> Arrived(1, y) /\ ~ Taken(1, y)
      BY <2>2, <3>1 DEF AliveInv, PipeInv
    <3>3. ASSUME NEW i \in 1 .. Len(in) PROVE Key(in[i]) < Key(x)
      <4>1. in[i] \in Stream
        BY <1>1, <3>1 DEF ChainInv, NumbersInv, NumbersOf
      <4>2. Holds(in, in[i])
        BY DEF Holds
      <4> QED BY <2>4, <3>2, <4>1, <4>2
    <3>4. Ordered(Append(in, x))
      BY <1>2, <3>2, <3>3, OrderedAppend
    <3>5. \A y : Holds(Append(in, x), y) <=> Holds(in, y) \/ y = x
      BY <1>2, <3>2, <3>3, OrderedAppend
    <3>6. \A y \in Stream : Holds(Append(in, x), y) <=> Arrived(1, y)' /\ ~ Taken(1, y)'
      BY <2>3, <2>4, <2>5, <3>2, <3>5
    <3>7. worker'[1].in = Append(in, x)
      BY <1>5, <1>6, <3>1
    <3> QED BY <3>4, <3>6, <3>7, PipeNext
  <2>7. CurInv(1)'
    <3>1. Passes(0, v.cur)
      BY DEF Passes
    <3>2. v.cur # 1 => v.cur \in Stream
      BY <1>5, <2>2 DEF AliveInv, CurInv
    <3>3. v.pc = "waitEnd" => v.cur = END
      BY <1>5, <2>2 DEF AliveInv, CurInv
    <3>4. PICK first : first = IF v.pc = "readM" THEN v.cur ELSE v.m
      OBVIOUS
    <3> QED BY <1>6, <3>1, <3>2, <3>3, <3>4, CurNext
  <2>8. ReachedInv(1)'
    <3>1. PICK c : c = worker[1].cur
      OBVIOUS
    <3>2. c # 1 => c \in Stream /\ Fed(c)
      BY <2>2, <3>1 DEF AliveInv, CurInv, ReachedInv
    <3>3. c # 1 => Fed(c)'
      BY <3>2
    <3>4. worker'[1].cur = c
      BY <1>5, <1>6, <3>1
    <3> QED BY <3>3, <3>4, ReachedNext
  <2>9. LastInv(1)'
    <3>1. \A y : Passes(1, y)' <=> Passes(1, y)
      <4>1. \A i \in 1 .. 1 : worker'[i].m = worker[i].m
        BY <1>1, <1>7
      <4> QED BY <4>1, PassesNext
    <3>2. HasChild(1)' <=> HasChild(1)
      BY <1>6 DEF HasChild
    <3>3. worker'[1].pc = worker[1].pc
      BY <1>1, <1>7
    <3> QED BY <2>2, <2>3, <3>1, <3>2, <3>3, SameStream DEF AliveInv, LastInv
  <2>10. FactorInv(1)'
    <3>1. PICK t : t = MsTested(1)
      OBVIOUS
    <3>2. PICK f : f = worker[1].factor1
      OBVIOUS
    <3>3. t \in {0, 1}
      BY <3>1 DEF MsTested
    <3>4. MsTested(1)' = t
      BY <1>1, <1>7, <2>3, <3>1 DEF MsTested
    <3>5. \A i \in 1 .. t : worker'[i].m = worker[i].m
      BY <1>1, <1>7, <3>3
    <3>6. /\ \A i \in 1 .. t : Divides(worker[i].m, n) => worker[i].m = f
          /\ f # 0 => \E i \in 1 .. t : worker[i].m = f
          /\ NoAnswer(f)
      BY <2>2, <3>1, <3>2 DEF AliveInv, FactorInv
    <3>7. worker'[1].factor1 = f
      BY <1>5, <1>6, <3>2
    <3> QED BY <3>4, <3>5, <3>6, <3>7, FactorNext
  <2> QED BY <2>6, <2>7, <2>8, <2>9, <2>10 DEF AliveInv
<1>10. ASSUME NEW q \in Workers, q # 1, ~ Done(q)' PROVE AliveInv(q)'
  <2>1. worker'[q] = worker[q] /\ ~ Done(q)
    BY <1>6, <1>10 DEF Done
  <2>2. \A i \in 1 .. q - 1 : worker'[i].m = worker[i].m
    BY <1>1, <1>7
  <2>3. q > 1 => worker'[q - 1].pc = worker[q - 1].pc /\ worker'[q - 1].cur = worker[q - 1].cur
    <3>1. q > 1 => q - 1 \in 1 .. q
      BY <1>1
    <3> QED BY <1>1, <1>7, <3>1
  <2>4. Len(worker') \in Nat /\ Len(worker') >= Len(worker)
    BY <1>1, <1>6
  <2> QED BY <1>10, <2>1, <2>2, <2>3, <2>4, AliveApart
<1> QED BY <1>6, <1>8, <1>9, <1>10 DEF SieveInv

LEMMA FeedSieve ==
  ASSUME ChainInv, SieveInv, n >= 3, FeedNumber \/ FeedN \/ FeedEnd
  PROVE  SieveInv'
<1>1. /\ n \in Nat /\ MaxK \in Nat /\ MaxK >= 2 /\ MaxK < n /\ n \in Stream /\ END \in Stream
      /\ n # END /\ Key(n) = n /\ Key(END) = n + 1
      /\ \A y \in Stream : Key(y) \in Nat /\ (y # END => Key(y) = y)
      /\ \A y, z \in Stream : Key(y) = Key(z) => y = z
  <2>1. n \in Numbers /\ n \in Nat
    BY MasterFacts DEF ChainInv, TypeOK
  <2>2. n # END /\ Key(n) = n /\ Key(END) = n + 1
    BY <2>1 DEF Key, END
  <2> QED BY <2>1, <2>2, KeyFacts
<1>2. master \in Master /\ n' = n
  BY MasterFacts DEF FeedNumber, FeedN, FeedEnd
<1>3. CASE FeedNumber
  <2>1. /\ master.pc = "write" /\ master'.pc = "poll" /\ master'.k = master.k
        /\ WriteFirst(master.k)
    BY <1>2, <1>3 DEF FeedNumber, Master
  <2>2. PICK k \in 2 .. MaxK : k = master.k
    BY <2>1 DEF ChainInv, MasterInv
  <2>3. k \in Stream /\ Key(k) = k /\ k \in Nat
    BY <1>1, <2>2 DEF Stream, Key, END
  <2>4. \A y : (Fed(y) <=> Key(y) < k) /\ (Fed(y)' <=> Key(y) <= k)
    BY <1>2, <2>1, <2>2 DEF Fed, Key
  <2>5. \A y \in Stream : Fed(y) => Key(y) < Key(k)
    BY <2>3, <2>4
  <2>6. \A y \in Stream : Fed(y)' <=> Fed(y) \/ y = k
    BY <1>1, <2>3, <2>4
  <2> QED BY <1>2, <2>1, <2>2, <2>3, <2>5, <2>6, WriteSieve
<1>4. CASE FeedN
  <2>1. master.pc = "writeN" /\ master'.pc = "writeEnd" /\ WriteFirst(n)
    BY <1>2, <1>4 DEF FeedN, Master
  <2>2. \A y : (Fed(y) <=> Key(y) <= MaxK) /\ (Fed(y)' <=> Key(y) <= n)
    BY <1>2, <2>1, SameStream DEF Fed, Key
  <2>3. \A y \in Stream : y \in 2 .. MaxK \/ y = n \/ y = END
    BY DEF Stream
  <2>4. \A y \in Stream : Fed(y) => Key(y) < Key(n)
    BY <1>1, <2>2
  <2>5. \A y \in Stream : Fed(y)' <=> Fed(y) \/ y = n
    BY <1>1, <2>2, <2>3
  <2> QED BY <1>1, <1>2, <2>1, <2>4, <2>5, WriteSieve
<1>5. CASE FeedEnd
  <2>1. master.pc = "writeEnd" /\ master'.pc = "wait" /\ WriteFirst(END)
    BY <1>2, <1>5 DEF FeedEnd, Master
  <2>2. \A y : (Fed(y) <=> Key(y) <= n) /\ Fed(y)'
    BY <1>2, <2>1 DEF Fed, Key
  <2>3. \A y \in Stream : y \in 2 .. MaxK \/ y = n \/ y = END
    BY DEF Stream
  <2>4. \A y \in Stream : Fed(y) => Key(y) < Key(END)
    BY <1>1, <2>2
  <2>5. \A y \in Stream : Fed(y)' <=> Fed(y) \/ y = END
    BY <1>1, <2>2, <2>3
  <2> QED BY <1>1, <1>2, <2>1, <2>4, <2>5, WriteSieve
<1> QED BY <1>3, <1>4, <1>5

\* The master moves on with no number written or taken.
LEMMA SameSieve ==
  ASSUME ChainInv, SieveInv, n >= 3, UNCHANGED <<n, worker>>,
         \A y \in Int : Fed(y)' <=> Fed(y)
  PROVE  SieveInv'
<1>1. Workers' = Workers /\ Len(worker) \in Nat /\ n \in Numbers
  BY MasterFacts, WorkerFacts DEF Workers, ChainInv, TypeOK
<1>2. SievePrimes'
  BY MsSame
<1>3. ASSUME NEW q \in Workers, ~ Done(q)' PROVE AliveInv(q)'
  <2>1. ~ Done(q)
    BY <1>3 DEF Done
  <2>2. AliveInv(q) /\ worker[q].cur \in Int /\ q \in Nat \ {0}
    BY <2>1, AliveFacts
  <2>3. \A x : q > 1 => (Handled(q - 1, x)' <=> Handled(q - 1, x)) /\ (Passes(q - 1, x)' <=> Passes(q - 1, x))
    <3>1. q - 1 \in Int
      BY <2>2
    <3>2. \A x : Passes(q - 1, x)' <=> Passes(q - 1, x)
      BY <3>1, PassesNext
    <3>3. \A x : Handled(q - 1, x)' <=> Handled(q - 1, x)
      BY HandledNext
    <3> QED BY <3>2, <3>3
  <2>4. Stream \subseteq Int
    BY <1>1, KeyFacts
  <2>5. \A x \in Stream : Arrived(q, x)' <=> Arrived(q, x)
    BY <2>2, <2>3, <2>4 DEF Arrived
  <2>6. PICK c : c = worker[q].cur
    OBVIOUS
  <2>7. q > 1 /\ Handled(q - 1, c) => Handled(q - 1, c)'
    BY <2>3
  <2>8. q = 1 /\ Fed(c) => Fed(c)'
    BY <2>2, <2>6
  <2>9. HasChild(q) => HasChild(q)'
    BY DEF HasChild
  <2>10. worker'[q] = worker[q] /\ \A i \in 1 .. q - 1 : worker'[i].m = worker[i].m
    OBVIOUS
  <2> QED BY <2>2, <2>5, <2>6, <2>7, <2>8, <2>9, <2>10, AliveSame
<1> QED BY <1>1, <1>2, <1>3 DEF SieveInv

\* With nobody left there is nothing to know but the ms.
LEMMA NobodySieve ==
  ASSUME ChainInv, SieveInv, n >= 3, UNCHANGED <<n, worker>>, Done(1)
  PROVE  SieveInv'
<1>1. SievePrimes' /\ Workers' = Workers
  BY MsSame DEF Workers
<1>2. ASSUME NEW q \in Workers PROVE Done(q)'
  <2>1. 1 \in Workers /\ q \in Nat \ {0}
    BY MasterFacts, WorkerFacts DEF ChainInv
  <2>2. q > 1 => worker[q].pc = "reaped"
    BY <2>1 DEF ChainInv, ExitInv
  <2>3. q = 1 \/ q > 1
    BY <2>1
  <2> QED BY <2>2, <2>3 DEF Done
<1> QED BY <1>1, <1>2 DEF SieveInv

LEMMA MasterSieve ==
  ASSUME ChainInv, SieveInv, n >= 3, MasterStep
  PROVE  SieveInv'
<1>1. /\ worker \in Seq(Worker) /\ worker[1] \in Worker /\ 1 \in Workers /\ master \in Master
      /\ n \in Nat
  BY MasterFacts, WorkerFacts DEF ChainInv
<1>2. CASE PollWorker /\ worker[1].pc # "exited"
  <2>1. /\ master.pc = "poll" /\ UNCHANGED <<n, worker>> /\ master'.k = master.k + 1
        /\ master'.pc = IF master.k < MaxK THEN "write" ELSE "writeN"
    BY <1>1, <1>2 DEF PollWorker, Master
  <2>2. PICK k \in 2 .. MaxK : k = master.k
    BY <2>1 DEF ChainInv, MasterInv
  <2>3. MaxK \in Nat
    BY <1>1, MaxKRange
  <2>4. \A y : Fed(y) <=> Key(y) <= k
    BY <2>1, <2>2 DEF Fed
  <2>5. \A y \in Int : Key(y) \in Int
    BY <1>1 DEF Key
  <2>6. CASE k < MaxK
    <3>1. \A y : Fed(y)' <=> Key(y) < k + 1
      BY <2>1, <2>2, <2>6 DEF Fed, Key
    <3>2. \A y \in Int : Fed(y)' <=> Fed(y)
      BY <2>4, <2>5, <3>1
    <3> QED BY <2>1, <3>2, SameSieve
  <2>7. CASE ~ (k < MaxK)
    <3>1. \A y : Fed(y)' <=> Key(y) <= MaxK
      BY <2>1, <2>2, <2>7, SameStream DEF Fed, Key
    <3>2. k = MaxK
      BY <2>3, <2>7
    <3>3. \A y \in Int : Fed(y)' <=> Fed(y)
      BY <2>4, <3>1, <3>2
    <3> QED BY <2>1, <3>3, SameSieve
  <2> QED BY <2>6, <2>7
<1>3. CASE (PollWorker /\ worker[1].pc = "exited") \/ ReportStages
  <2> DEFINE w == [worker[1] EXCEPT !.pc = "reaped"]
  <2>1. worker' = [worker EXCEPT ![1] = w] /\ n' = n /\ worker[1].pc = "exited"
    BY <1>1, <1>3 DEF PollWorker, ReportStages
  <2>2. w \in Worker /\ w.pc = "reaped" /\ w.m = worker[1].m
    BY <1>1 DEF Worker, WorkerPCs
  <2>3. Done(1)
    BY <2>1 DEF Done
  <2> HIDE DEF w
  <2> QED BY <1>1, <2>1, <2>2, <2>3, OneLeavesSieve
<1>4. CASE BrokenPipe \/ WaitError
  <2>1. UNCHANGED <<n, worker>> /\ Done(1)
    BY <1>1, <1>4 DEF BrokenPipe, WaitError, HasExited, Done, Workers
  <2> QED BY <2>1, NobodySieve
<1> QED BY <1>2, <1>3, <1>4, FeedSieve DEF MasterStep

LEMMA WorkerSieve ==
  ASSUME ChainInv, SieveInv, n >= 3, NEW p \in Workers, WorkerStep(p)
  PROVE  SieveInv'
<1>1. CASE ReadNumber(p)
  BY <1>1, ReadNumberSieve
<1>2. CASE PollChild(p)
  <2>1. CASE worker[p + 1].pc = "exited"
    BY <1>2, <2>1, ExitAfterChildSieve DEF PollChild
  <2> QED BY <1>2, <2>1, PollSieve
<1>3. CASE DropNumber(p)
  BY <1>3, DropSieve, LeavingSieve
<1>4. CASE ForkChild(p)
  BY <1>4, ForkSieve
<1>5. CASE PassNumber(p)
  BY <1>5, PassNumberSieve
<1>6. CASE ReadM(p)
  BY <1>6, ReadMSieve, ReadMAnswersSieve
<1>7. CASE FinishLast(p) \/ Exit(p)
  BY <1>7, LeavingSieve
<1>8. CASE PassEnd(p)
  BY <1>8, PassEndSieve
<1>9. CASE WaitChild(p)
  BY <1>9, ExitAfterChildSieve DEF WaitChild
<1> QED BY <1>1, <1>2, <1>3, <1>4, <1>5, <1>6, <1>7, <1>8, <1>9 DEF WorkerStep

LEMMA SieveInit ==
  ASSUME Init
  PROVE  SieveInv
<1> SUFFICES ASSUME n >= 3
             PROVE  SievePrimes /\ \A p \in Workers : ~ Done(p) => AliveInv(p)
  BY DEF SieveInv
<1> DEFINE w == NewWorker(0, 1, "read")
<1>1. n \in Numbers /\ n \in Nat /\ MaxK \in Nat /\ MaxK >= 2 /\ Key(1) = 1 /\ Key(2) = 2
      /\ \A x \in Stream : Key(x) \in Nat /\ Key(x) >= 2
  <2>1. n \in Numbers
    BY DEF Init
  <2> QED BY <2>1, KeyFacts DEF Key, END
<1>2. PICK g \in BOOLEAN :
        master = [pc |-> IF MaxK >= 2 THEN "write" ELSE IF g THEN "wait" ELSE "writeN",
                  k |-> 2, code |-> 0, stages |-> NONE]
  BY PfactAssumption DEF Init
<1>3. master.pc = "write" /\ master.k = 2
  BY <1>1, <1>2
<1>4. worker = <<w>>
  BY DEF Init
<1>5. w.pc = "read" /\ w.in = << >> /\ w.cur = 1 /\ w.m = 2 /\ w.factor1 = 0 /\ Len(w.in) = 0
  BY EmptySeq DEF NewWorker
<1> HIDE DEF w
<1>6. Len(worker) = 1 /\ worker[1] = w /\ Workers = {1}
  BY <1>4 DEF Workers
<1>7. \A x \in Stream : ~ Fed(x) /\ ~ Handled(1, x)
  BY <1>1, <1>3, <1>5, <1>6 DEF Fed, Handled
<1>8. PipeInv(1)
  BY <1>5, <1>6, <1>7 DEF PipeInv, Ordered, Holds, Arrived
<1>9. CurInv(1) /\ ReachedInv(1) /\ LastInv(1)
  BY <1>5, <1>6, <1>7 DEF CurInv, ReachedInv, LastInv
<1>10. FactorInv(1)
  <2>1. ~ Handled(1, 2)
    BY <1>1, <1>5, <1>6 DEF Handled
  <2>2. MsTested(1) = 0
    BY <2>1 DEF MsTested
  <2>3. NoAnswer(0)
    <3>1. (0 * 0) % IntMod = 0
      BY PfactAssumption
    <3> QED BY <1>1, <3>1 DEF NoAnswer
  <2> QED BY <1>5, <1>6, <2>2, <2>3 DEF FactorInv
<1>11. SievePrimes
  <2>1. Prime(2)
    BY DEF Prime
  <2>2. {worker[i].m : i \in 1 .. 0} = {q \in 2 .. MaxK : Prime(q) /\ q < 2}
    BY <1>1
  <2>3. worker[1].m = 2
    BY <1>5, <1>6
  <2>4. ASSUME NEW p \in Workers
        PROVE  /\ Prime(worker[p].m)
               /\ {worker[i].m : i \in 1 .. p - 1} = {q \in 2 .. MaxK : Prime(q) /\ q < worker[p].m}
    <3>1. p = 1 /\ p - 1 = 0
      BY <1>6
    <3> QED BY <2>1, <2>2, <2>3, <3>1
  <2> QED BY <2>4 DEF SievePrimes, Workers
<1> QED BY <1>6, <1>8, <1>9, <1>10, <1>11 DEF AliveInv

LEMMA SieveNext ==
  ASSUME ChainInv, SieveInv, [Next]_vars
  PROVE  SieveInv'
<1>1. n' = n
  BY DEF Next, MasterStep, FeedNumber, PollWorker, FeedN, FeedEnd, BrokenPipe, ReportStages,
         WaitError, WorkerStep, ReadNumber, PollChild, DropNumber, ForkChild, PassNumber,
         ReadM, FinishLast, PassEnd, WaitChild, Exit, vars
<1>2. CASE ~ (n >= 3)
  BY <1>1, <1>2 DEF SieveInv
<1>3. CASE n >= 3
  <2>1. CASE MasterStep
    BY <1>3, <2>1, MasterSieve
  <2>2. ASSUME NEW p \in 1 .. Len(worker), WorkerStep(p) PROVE SieveInv'
    BY <1>3, <2>2, WorkerSieve DEF Workers
  <2>3. CASE UNCHANGED vars
    <3>1. UNCHANGED <<n, worker>> /\ \A y \in Int : Fed(y)' <=> Fed(y)
      BY <2>3 DEF vars, Fed, Key, MaxK
    <3> QED BY <1>3, <3>1, SameSieve
  <2> QED BY <2>1, <2>2, <2>3 DEF Next
<1> QED BY <1>2, <1>3

LEMMA NumberSame ==
  ASSUME [Next]_vars
  PROVE  n' = n
BY DEF Next, MasterStep, FeedNumber, PollWorker, FeedN, FeedEnd, BrokenPipe, ReportStages,
       WaitError, WorkerStep, ReadNumber, PollChild, DropNumber, ForkChild, PassNumber,
       ReadM, FinishLast, PassEnd, WaitChild, Exit, vars

THEOREM SieveInvariant == Spec => [](ChainInv /\ SieveInv)
<1>1. Init => ChainInv /\ SieveInv
  BY ChainInit, SieveInit
<1>2. ChainInv /\ SieveInv /\ [Next]_vars => ChainInv' /\ SieveInv'
  BY ChainNext, SieveNext
<1> QED BY <1>1, <1>2, PTL DEF Spec

\* The ms of the chain are the primes, none left out, at every moment and whatever is
\* still on its way between the workers (pfact.c:179-202).
THEOREM PrimesInOrder == Spec => []SievePrimes
<1>1. ASSUME ChainInv, SieveInv PROVE SievePrimes
  <2>1. n \in Nat /\ MaxK \in Nat
    BY <1>1, MasterFacts, MaxKRange
  <2>2. CASE n >= 3
    BY <1>1, <2>2 DEF SieveInv
  <2>3. CASE n = 2
    <3>1. Len(worker) = 1 /\ worker[1].m = 2
      BY <1>1, <2>3 DEF ChainInv, FirstInv
    <3>2. Prime(2)
      BY DEF Prime
    <3>3. {worker[i].m : i \in 1 .. 0} = {q \in 2 .. MaxK : Prime(q) /\ q < 2}
      BY <2>1
    <3>4. ASSUME NEW p \in 1 .. Len(worker)
          PROVE  /\ Prime(worker[p].m)
                 /\ {worker[i].m : i \in 1 .. p - 1} =
                      {q \in 2 .. MaxK : Prime(q) /\ q < worker[p].m}
      <4>1. p = 1 /\ p - 1 = 0
        BY <3>1
      <4> QED BY <3>1, <3>2, <3>3, <4>1
    <3> QED BY <3>4 DEF SievePrimes
  <2>4. CASE n < 2
    BY <2>1, <2>4 DEF SievePrimes
  <2> QED BY <2>1, <2>2, <2>3, <2>4
<1> QED BY <1>1, SieveInvariant, PTL

-----------------------------------------------------------------------------
(* The answer *)

LEMMA ProductExpected ==
  ASSUME ~ Prime(n), NEW p \in 2 .. MaxK, NEW q \in 2 .. MaxK, Prime(p), Prime(q),
         n % p = 0, n % q = 0, p <= q, p * q = n
  PROVE  Product(p, q) \in Expected
<1> DEFINE factors == {i \in 2 .. MaxK : n % i = 0 /\ Prime(i)}
           products == {Product(i, j) : i, j \in factors}
           right == {x \in products : x.p <= x.q /\ x.p * x.q = n}
<1>1. p \in factors /\ q \in factors
  OBVIOUS
<1>2. Product(p, q) \in products
  BY <1>1
<1>3. Product(p, q).p = p /\ Product(p, q).q = q
  BY DEF Product
<1>4. Product(p, q) \in right
  BY <1>2, <1>3
<1>5. Expected = right
  <2>1. right # {}
    BY <1>4
  <2> QED BY <2>1 DEF Expected
<1> QED BY <1>4, <1>5

LEMMA NoProductExpected ==
  ASSUME ~ Prime(n),
         \A p, q \in 2 .. MaxK : Prime(p) /\ Prime(q) /\ n % p = 0 /\ n % q = 0 => p * q # n
  PROVE  NoProduct \in Expected
<1> DEFINE factors == {i \in 2 .. MaxK : n % i = 0 /\ Prime(i)}
           products == {Product(i, j) : i, j \in factors}
           right == {x \in products : x.p <= x.q /\ x.p * x.q = n}
<1>1. right = {}
  <2> SUFFICES ASSUME NEW x \in products, x.p * x.q = n PROVE FALSE
    OBVIOUS
  <2>1. PICK i \in factors, j \in factors : x = Product(i, j)
    OBVIOUS
  <2>2. x.p = i /\ x.q = j
    BY <2>1 DEF Product
  <2> QED BY <2>1, <2>2
<1>2. Expected = {NoProduct}
  BY <1>1 DEF Expected
<1> QED BY <1>2

LEMMA NoOverflow ==
  ASSUME NEW s \in Nat, s < IntMod
  PROVE  s % IntMod = s
BY PfactAssumption

\* A worker that tests the next prime and answers, with the one factor there is below it.
LEMMA LineRight ==
  ASSUME n \in Numbers, n >= 3, NEW w \in Worker, NEW m, m = w.m, NEW f, f = w.factor1,
         Lines(w) # << >>, Prime(m), m <= MaxK \/ m = n,
         \A q \in 2 .. MaxK : Prime(q) /\ q < m /\ n % q = 0 => q = f,
         f # 0 => f \in 2 .. MaxK /\ Prime(f) /\ f < m /\ n % f = 0
  PROVE  \E line \in Expected : Lines(w) = <<line>>
<1>1. /\ n \in Nat \ {0} /\ MaxK \in Nat /\ MaxK < n /\ n < IntMod /\ IntMod \in Nat \ {0}
      /\ m \in Nat \ {0} /\ m >= 2 /\ n % m = 0
  <2>1. n \in Nat /\ MaxK \in Nat /\ MaxK < n
    BY MaxKRange, PfactAssumption
  <2>2. n % m = 0
    BY DEF Lines, Divides
  <2> QED BY <2>1, <2>2, PfactAssumption DEF Worker, Prime
<1>2. CASE f # 0
  <2>1. f \in Nat /\ f >= 2 /\ f <= MaxK /\ Prime(f) /\ f < m /\ n % f = 0
    BY <1>1, <1>2
  <2>2. ~ Prime(n)
    <3>1. f < n
      BY <1>1, <2>1
    <3> QED BY <1>1, <2>1, <3>1, PrimeDivides
  <2>3. m \in 2 .. MaxK
    BY <1>1, <2>2
  <2>4. f * m <= n
    BY <1>1, <2>1, TwoPrimes
  <2>5. PICK s \in Nat : s = f * m
    BY <1>1, <2>1
  <2>6. s % IntMod = s
    <3>1. s <= n
      BY <2>4, <2>5
    <3>2. s < IntMod
      BY <1>1, <2>5, <3>1
    <3> QED BY <3>2, NoOverflow
  <2>7. CASE s = n
    <3>1. Lines(w) = <<Product(f, m)>>
      BY <1>1, <1>2, <2>5, <2>6, <2>7 DEF Lines, Divides
    <3>2. Product(f, m) \in Expected
      BY <1>1, <2>1, <2>2, <2>3, <2>5, <2>7, ProductExpected
    <3> QED BY <3>1, <3>2
  <2>8. CASE s # n
    <3>1. Lines(w) = <<NoProduct>>
      BY <1>1, <1>2, <2>1, <2>5, <2>6, <2>8 DEF Lines, Divides
    <3>2. ASSUME NEW p \in 2 .. MaxK, NEW q \in 2 .. MaxK, Prime(p), Prime(q), p * q = n
          PROVE  FALSE
      <4>1. p \in Nat /\ q \in Nat
        BY <1>1
      <4>2. p % f = 0 \/ q % f = 0
        BY <2>1, <3>2, <4>1, PrimeFactor
      <4>3. p % m = 0 \/ q % m = 0
        BY <1>1, <3>2, <4>1, PrimeFactor
      <4>4. f = p \/ f = q
        BY <2>1, <3>2, <4>1, <4>2, PrimeDivides
      <4>5. m = p \/ m = q
        BY <1>1, <3>2, <4>1, <4>3, PrimeDivides
      <4>6. p * q = q * p
        BY <4>1
      <4>7. p * q = f * m
        BY <2>1, <4>4, <4>5, <4>6
      <4> QED BY <2>5, <2>8, <3>2, <4>7
    <3>3. NoProduct \in Expected
      BY <2>2, <3>2, NoProductExpected
    <3> QED BY <3>1, <3>3
  <2> QED BY <2>7, <2>8
<1>3. CASE f = 0
  <2>1. Lines(w) = (IF (m * m) % IntMod = n THEN <<Product(m, m)>>
                    ELSE IF n = m THEN <<PrimeLine>> ELSE << >>)
    BY <1>1, <1>3 DEF Lines, Divides
  <2>2. CASE m = n
    <3>1. Lines(w) = <<PrimeLine>>
      BY <2>1, <2>2, SquareAssumption
    <3>2. PrimeLine \in Expected
      BY <2>2 DEF Expected
    <3> QED BY <3>1, <3>2
  <2>3. CASE m # n
    <3>1. m \in 2 .. MaxK /\ ~ Prime(n)
      <4>1. m \in 2 .. MaxK
        BY <1>1, <2>3
      <4> QED BY <1>1, <2>3, <4>1, PrimeDivides
    <3>2. PICK c \in Nat : n = m * c
      BY <1>1, Multiple
    <3>3. c >= 2
      <4>1. c # 0
        BY <1>1, <3>2
      <4>2. c # 1
        BY <1>1, <2>3, <3>2
      <4> QED BY <4>1, <4>2
    <3>4. m <= c
      <4> SUFFICES ASSUME c < m PROVE FALSE
        BY <1>1
      <4>1. PICK d \in 2 .. c : Prime(d) /\ c % d = 0
        BY <3>3, PrimeDivisor
      <4>2. d \in 2 .. MaxK /\ d < m /\ d \in Nat \ {0} /\ c \in Nat \ {0}
        BY <1>1, <3>1, <3>3
      <4>3. n % c = 0
        <5>1. n = c * m
          BY <1>1, <3>2
        <5> QED BY <1>1, <4>2, <5>1, Multiple
      <4>4. n % d = 0
        BY <1>1, <4>1, <4>2, <4>3, DividesThrough
      <4> QED BY <1>3, <4>1, <4>2, <4>4
    <3>5. PICK s \in Nat : s = m * m
      BY <1>1
    <3>6. s <= n
      <4>1. m * m <= m * c
        BY <1>1, <3>4
      <4> QED BY <3>2, <3>5, <4>1
    <3>7. s % IntMod = s
      <4>1. s \in Nat
        BY <3>5
      <4>2. s < IntMod
        BY <1>1, <3>6, <4>1
      <4> QED BY <4>2, NoOverflow
    <3>8. s = n /\ Lines(w) = <<Product(m, m)>>
      BY <2>1, <2>3, <3>5, <3>7
    <3>9. Product(m, m) \in Expected
      BY <1>1, <3>1, <3>5, <3>8, ProductExpected
    <3> QED BY <3>8, <3>9
  <2> QED BY <2>2, <2>3
<1> QED BY <1>2, <1>3

\* The line of a worker that has just read its m.
LEMMA NewAnswers ==
  ASSUME ChainInv, SieveInv, n >= 3, NEW p \in Workers, ReadM(p), Lines(WithM(p)) # << >>
  PROVE  \E line \in Expected : Lines(WithM(p)) = <<line>>
<1>1. PICK c : c = worker[p].cur
  OBVIOUS
<1>2. PICK f : f = worker[p].factor1
  OBVIOUS
<1>3. PICK w : w = WithM(p)
  OBVIOUS
<1>4. /\ w \in Worker /\ w.m = c /\ w.factor1 = f /\ NumbersOf(w) /\ ~ Done(p) /\ p > 1
      /\ worker[p].pc = "readM"
  BY <1>1, <1>2, <1>3, ReadMFacts DEF ReadM
<1>5. AliveInv(p) /\ n \in Numbers
  BY <1>4, AliveFacts
<1>6. /\ Prime(c)
      /\ {worker[i].m : i \in 1 .. p - 1} = {q \in 2 .. MaxK : Prime(q) /\ q < c}
  BY <1>1, <1>4, NewPrime
<1>7. c <= MaxK \/ c = n
  <2>1. c \in Stream \ {END}
    BY <1>1, <1>4, <1>5 DEF AliveInv, CurInv
  <2>2. MaxK \in Nat
    BY <1>5, KeyFacts
  <2> QED BY <2>1, <2>2 DEF Stream
<1>8. /\ \A i \in 1 .. p - 1 : Divides(worker[i].m, n) => worker[i].m = f
      /\ f # 0 => \E i \in 1 .. p - 1 : worker[i].m = f
  BY <1>2, <1>4, FactorKnown
<1>9. ASSUME NEW q \in 2 .. MaxK, Prime(q), q < c, n % q = 0 PROVE q = f
  <2>1. q \in {worker[i].m : i \in 1 .. p - 1}
    BY <1>6, <1>9
  <2>2. PICK i \in 1 .. p - 1 : worker[i].m = q
    BY <2>1
  <2> QED BY <1>8, <1>9, <2>2 DEF Divides
<1>10. f # 0 => f \in 2 .. MaxK /\ Prime(f) /\ f < c /\ n % f = 0
  <2>1. f # 0 => f \in {worker[i].m : i \in 1 .. p - 1}
    BY <1>8
  <2>2. f # 0 => n % f = 0
    BY <1>4 DEF NumbersOf
  <2> QED BY <1>6, <2>1, <2>2
<1>11. Lines(w) # << >>
  BY <1>3
<1>12. \E line \in Expected : Lines(w) = <<line>>
  BY <1>4, <1>5, <1>6, <1>7, <1>9, <1>10, <1>11, LineRight
<1> QED BY <1>3, <1>12

\* The line of the first worker when its 2 is the answer.
LEMMA FirstAnswers ==
  ASSUME ChainInv, SieveInv, n >= 3, NEW p \in Workers, worker[p].pc = "dispatch",
         Lines(worker[p]) # << >>
  PROVE  \E line \in Expected : Lines(worker[p]) = <<line>>
<1>1. p = 1 /\ worker[1].cur = 2 /\ worker[1].m = 2 /\ ~ Done(p)
  <2>1. p = 1 /\ AtStart
    BY DEF ChainInv, TestedInv
  <2> QED BY <2>1 DEF AtStart, ChainInv, FirstInv, Done
<1>2. PICK w : w = worker[p]
  OBVIOUS
<1>3. PICK f : f = w.factor1
  OBVIOUS
<1>4. AliveInv(p) /\ n \in Numbers /\ n \in Nat /\ w \in Worker
  BY <1>1, <1>2, AliveFacts
<1>5. f = 0
  <2>1. ~ Handled(1, 2)
    <3>1. Key(2) = 2
      BY DEF Key, END
    <3> QED BY <1>1, <3>1 DEF Handled
  <2>2. MsTested(p) = 0
    BY <1>1, <2>1 DEF MsTested
  <2> QED BY <1>2, <1>3, <1>4, <2>2 DEF AliveInv, FactorInv
<1>6. Prime(2) /\ 2 <= MaxK /\ w.m = 2
  BY <1>1, <1>2, <1>4, KeyFacts DEF Prime
<1>7. \A q \in 2 .. MaxK : ~ (q < 2)
  OBVIOUS
<1>8. Lines(w) # << >>
  BY <1>2
<1>9. \E line \in Expected : Lines(w) = <<line>>
  BY <1>3, <1>4, <1>5, <1>6, <1>7, <1>8, LineRight
<1> QED BY <1>2, <1>9

\* The line of the last worker at the end: no prime divides n but one, and not twice.
LEMMA EndAnswers ==
  ASSUME ChainInv, SieveInv, n >= 3, NEW p \in Workers, FinishLast(p)
  PROVE  NoProduct \in Expected
<1>1. /\ worker[p].pc = "dispatch" /\ worker[p].cur = END /\ ~ HasChild(p) /\ ~ Done(p)
      /\ p = Len(worker)
  BY WorkerFacts DEF FinishLast, AtEnd, HasChild, Done, ChainInv
<1>2. /\ AliveInv(p) /\ SievePrimes /\ n \in Numbers /\ n \in Nat /\ p \in Nat \ {0}
      /\ Key(END) = n + 1 /\ Len(worker) \in Nat
  BY <1>1, AliveFacts
<1>3. /\ MaxK \in Nat /\ MaxK < n /\ n < IntMod /\ IntMod \in Nat \ {0} /\ n \in Stream \ {END}
      /\ Key(2) = 2
      /\ \A x \in Stream \ {END} : Key(x) \in Nat /\ Key(x) <= n
  <2>1. n # END
    BY <1>2 DEF END
  <2>2. \A x \in Stream \ {END} : Key(x) \in Nat /\ Key(x) <= n
    BY <1>2, KeyFacts
  <2> QED BY <1>2, <2>1, <2>2, KeyFacts, PfactAssumption DEF Key, END
<1>4. \A x \in Stream \ {END} : Handled(p, x)
  BY <1>1, <1>2, <1>3 DEF Handled
<1>5. \A x \in Stream \ {END} : \E i \in 1 .. p : x % worker[i].m = 0
  <2>1. ASSUME NEW x \in Stream \ {END} PROVE \E i \in 1 .. p : x % worker[i].m = 0
    <3>1. ~ Passes(p, x)
      BY <1>1, <1>2, <1>4 DEF AliveInv, LastInv
    <3> QED BY <3>1 DEF Passes, Divides
  <2> QED BY <2>1
<1>6. ASSUME NEW i \in 1 .. p PROVE Prime(worker[i].m) /\ worker[i].m \in Nat /\ worker[i].m >= 2
  <2>1. i \in Workers
    BY <1>1, <1>2 DEF Workers
  <2>2. worker[i].pc # "readM"
    BY <1>1, <2>1 DEF ChainInv, NewInv
  <2>3. Prime(worker[i].m)
    BY <1>2, <2>1, <2>2 DEF SievePrimes, Workers
  <2>4. worker[i].m \in Nat
    BY <2>1, WorkerFacts DEF ChainInv
  <2> QED BY <2>3, <2>4 DEF Prime
<1>7. PICK f : f = worker[p].factor1
  OBVIOUS
<1>8. /\ \A i \in 1 .. p : n % worker[i].m = 0 => worker[i].m = f
      /\ NoAnswer(f)
  <2>1. p = 1 => Handled(1, 2)
    BY <1>1, <1>2, <1>3 DEF Handled
  <2>2. MsTested(p) = p
    BY <1>1, <2>1 DEF MsTested
  <2> QED BY <1>2, <1>7, <2>2 DEF AliveInv, FactorInv, Divides
<1>9. PICK j \in 1 .. p : n % worker[j].m = 0
  BY <1>3, <1>5
<1>10. Prime(f) /\ f \in Nat /\ f >= 2 /\ n % f = 0
  BY <1>6, <1>8, <1>9
<1>11. ~ Prime(n)
  <2>1. f # n
    BY <1>8 DEF NoAnswer
  <2> QED BY <1>2, <1>10, <2>1, PrimeDivides
<1>12. ASSUME NEW q \in 2 .. MaxK, Prime(q), n % q = 0 PROVE q = f
  <2>1. q \in Stream \ {END} /\ q \in Nat
    BY <1>3 DEF Stream, END
  <2>2. PICK i \in 1 .. p : q % worker[i].m = 0
    BY <1>5, <2>1
  <2>3. worker[i].m = q
    BY <1>6, <1>12, <2>1, <2>2, PrimeDivides
  <2> QED BY <1>8, <1>12, <2>3
<1>13. f * f # n
  <2>1. (f * f) % IntMod # n
    BY <1>8 DEF NoAnswer
  <2>2. n % IntMod = n
    BY <1>2, <1>3
  <2> QED BY <2>1, <2>2
<1>14. \A p1, q1 \in 2 .. MaxK : Prime(p1) /\ Prime(q1) /\ n % p1 = 0 /\ n % q1 = 0 => p1 * q1 # n
  BY <1>12, <1>13
<1> QED BY <1>11, <1>14, NoProductExpected

\* Only these steps print.
LEMMA StepAnswers ==
  ASSUME ChainInv, [Next]_vars
  PROVE  \/ answers' = answers
         \/ \E p \in Workers :
              \/ answers' = Lines(worker[p]) /\ worker[p].pc = "dispatch" /\ Lines(worker[p]) # << >>
              \/ answers' = Lines(WithM(p)) /\ ReadM(p) /\ Lines(WithM(p)) # << >>
              \/ answers' = <<NoProduct>> /\ FinishLast(p)
<1>1. answers \in Seq(AnswerLines) /\ answers \o << >> = answers
  <2>1. answers \in Seq(AnswerLines)
    BY DEF ChainInv, TypeOK, AnswerLines
  <2> QED BY <2>1, ConcatEmptySeq
<1>2. CASE MasterStep \/ UNCHANGED vars
  BY <1>2 DEF MasterStep, FeedNumber, PollWorker, FeedN, FeedEnd, BrokenPipe, ReportStages,
              WaitError, vars
<1>3. ASSUME NEW p \in Workers, WorkerStep(p)
      PROVE  \/ answers' = answers
             \/ answers' = Lines(worker[p]) /\ worker[p].pc = "dispatch" /\ Lines(worker[p]) # << >>
             \/ answers' = Lines(WithM(p)) /\ ReadM(p) /\ Lines(WithM(p)) # << >>
             \/ answers' = <<NoProduct>> /\ FinishLast(p)
  <2>1. CASE ReadNumber(p) \/ PollChild(p) \/ ForkChild(p) \/ PassEnd(p) \/ WaitChild(p) \/ Exit(p)
    BY <2>1 DEF ReadNumber, PollChild, ForkChild, PassEnd, WaitChild, Exit
  <2>2. CASE DropNumber(p)
    <3>1. answers' = answers \o Lines(worker[p]) /\ worker[p].pc = "dispatch"
      BY <2>2 DEF DropNumber, AtNumber
    <3>2. CASE Lines(worker[p]) = << >>
      BY <1>1, <3>1, <3>2
    <3>3. CASE Lines(worker[p]) # << >>
      <4>1. p = 1 /\ ~ HasChild(1)
        BY <3>1, <3>3 DEF ChainInv, TestedInv
      <4>2. Len(worker) = 1
        <5>1. Len(worker) \in Nat /\ Len(worker) >= 1
          BY WorkerFacts DEF ChainInv, FirstInv
        <5>2. ~ (1 < Len(worker))
          BY <4>1 DEF HasChild
        <5>3. PICK l \in Nat : l = Len(worker)
          BY <5>1
        <5>4. l >= 1 /\ ~ (1 < l)
          BY <5>1, <5>2, <5>3
        <5>5. l = 1
          BY <5>4
        <5> QED BY <5>3, <5>5
      <4>3. answers = << >>
        <5>1. ~ Done(Len(worker))
          BY <3>1, <4>1, <4>2 DEF Done
        <5> QED BY <5>1, NobodyDone
      <4>4. answers' = Lines(worker[p])
        <5>1. \E line \in AnswerLines : Lines(worker[p]) = <<line>>
          <6>1. worker[p] \in Worker /\ NumbersOf(worker[p]) /\ n \in Numbers
            BY WorkerFacts DEF ChainInv, NumbersInv, TypeOK
          <6>2. worker[p].m = 2 /\ worker[p].factor1 \in {0, 2}
            BY <4>1 DEF ChainInv, FirstInv
          <6> QED BY <3>3, <6>1, <6>2, LinesAre DEF NumbersOf
        <5> QED BY <3>1, <4>3, <5>1
      <4> QED BY <3>1, <3>3, <4>4
    <3> QED BY <3>2, <3>3
  <2>3. CASE PassNumber(p)
    <3>1. Lines(worker[p]) = << >>
      BY <2>3, ParentTested DEF PassNumber, AtNumber
    <3> QED BY <1>1, <2>3, <3>1 DEF PassNumber
  <2>4. CASE ReadM(p)
    <3>1. /\ answers' = answers \o Lines(WithM(p)) /\ p = Len(worker) /\ ~ Done(p)
          /\ WithM(p) \in Worker /\ NumbersOf(WithM(p)) /\ n # 0
      BY <2>4, ReadMFacts
    <3>2. CASE Lines(WithM(p)) = << >>
      BY <1>1, <3>1, <3>2
    <3>3. CASE Lines(WithM(p)) # << >>
      <4>1. answers = << >>
        BY <3>1, NobodyDone
      <4>2. \E line \in AnswerLines : Lines(WithM(p)) = <<line>>
        <5>1. n \in Numbers
          BY DEF ChainInv, TypeOK
        <5> QED BY <3>1, <3>3, <5>1, LinesAre DEF NumbersOf
      <4>3. answers' = Lines(WithM(p))
        BY <3>1, <4>1, <4>2
      <4> QED BY <2>4, <3>3, <4>3
    <3> QED BY <3>2, <3>3
  <2>5. CASE FinishLast(p)
    <3>1. answers = << >>
      <4>1. worker[p].pc = "dispatch" /\ p = Len(worker)
        BY <2>5, WorkerFacts DEF FinishLast, AtEnd, HasChild, ChainInv
      <4>2. ~ Done(Len(worker))
        BY <4>1 DEF Done
      <4> QED BY <4>2, NobodyDone
    <3> QED BY <2>5, <3>1 DEF FinishLast
  <2> QED BY <1>3, <2>1, <2>2, <2>3, <2>4, <2>5 DEF WorkerStep
<1> QED BY <1>2, <1>3 DEF Next, Workers

\* With n = 2 the first worker finds the prime at the first number it drops.
LEMMA TwoLine ==
  ASSUME ChainInv, TwoInv, n = 2
  PROVE  /\ Workers = {1} /\ ~ HasChild(1) /\ worker[1] \in Worker /\ worker \in Seq(Worker)
         /\ worker[1].factor1 = 0 /\ worker[1].pc # "readM" /\ Lines(worker[1]) = <<PrimeLine>>
<1>1. Len(worker) = 1 /\ worker[1].m = 2 /\ worker[1].pc # "readM" /\ worker[1].factor1 = 0
  BY DEF ChainInv, FirstInv, TwoInv
<1>2. Workers = {1}
  BY <1>1 DEF Workers
<1>3. worker[1] \in Worker /\ worker \in Seq(Worker)
  BY <1>2, WorkerFacts DEF ChainInv
<1>4. (2 * 2) % IntMod = 4 /\ 2 % 2 = 0
  BY PfactAssumption
<1>5. Lines(worker[1]) = <<PrimeLine>>
  BY <1>1, <1>4 DEF Lines, Divides
<1> QED BY <1>1, <1>2, <1>3, <1>5 DEF HasChild

LEMMA TwoNext ==
  ASSUME ChainInv, TwoInv, [Next]_vars
  PROVE  TwoInv'
<1> SUFFICES ASSUME n = 2
             PROVE  worker'[1].factor1 = 0 /\ \A i \in 1 .. Len(answers') : answers'[i] = PrimeLine
  BY NumberSame DEF TwoInv
<1>1. /\ Workers = {1} /\ ~ HasChild(1) /\ worker[1] \in Worker /\ worker \in Seq(Worker)
      /\ worker[1].factor1 = 0 /\ worker[1].pc # "readM" /\ Lines(worker[1]) = <<PrimeLine>>
  BY TwoLine
<1>2. ~ FinishLast(1)
  <2> SUFFICES ASSUME worker[1].pc = "dispatch", worker[1].cur = END PROVE FALSE
    BY DEF FinishLast, AtEnd
  <2>1. 1 \in Workers /\ Lines(worker[1]) # << >>
    BY <1>1
  <2>2. AtStart
    BY <2>1 DEF ChainInv, TestedInv
  <2>3. worker[1].cur = 2
    BY <2>2 DEF AtStart
  <2> QED BY <2>3 DEF END
<1>3. \A i \in 1 .. Len(answers') : answers'[i] = PrimeLine
  <2>1. CASE answers' = answers
    BY <2>1 DEF TwoInv
  <2>2. CASE answers' # answers
    <3>1. answers' = <<PrimeLine>>
      BY <1>1, <1>2, <2>2, StepAnswers DEF ReadM
    <3> QED BY <3>1
  <2> QED BY <2>1, <2>2
<1>4. CASE MasterStep \/ UNCHANGED vars
  <2>1. 1 \in 1 .. Len(worker)
    BY <1>1 DEF Workers
  <2>2. \/ worker' = worker
        \/ \E x : worker' = [worker EXCEPT ![1].in = Append(@, x)]
        \/ worker' = [worker EXCEPT ![1].pc = "reaped"]
    BY <1>4 DEF MasterStep, FeedNumber, PollWorker, FeedN, FeedEnd, BrokenPipe, ReportStages,
                WaitError, WriteFirst, vars
  <2>3. worker'[1].factor1 = worker[1].factor1
    BY <1>1, <2>1, <2>2 DEF Worker
  <2> QED BY <1>1, <1>3, <2>3
<1>5. CASE WorkerStep(1)
  <2>0. 1 \in 1 .. Len(worker) /\ 1 \in Workers
    BY <1>1 DEF Workers
  <2>1. CASE ReadNumber(1) \/ Exit(1)
    <3>1. worker'[1].factor1 = worker[1].factor1
      BY <1>1, <2>0, <2>1 DEF ReadNumber, Exit, Worker
    <3> QED BY <1>1, <1>3, <3>1
  <2>2. CASE DropNumber(1)
    <3>1. worker' = [worker EXCEPT ![1] = Tested(worker[1])]
      BY <1>1, <2>2 DEF DropNumber
    <3>2. Tested(worker[1]).factor1 = worker[1].factor1
      <4>1. Lines(worker[1]) # << >>
        BY <1>1
      <4> QED BY <1>1, <4>1, TestedExits
    <3> QED BY <1>1, <1>3, <2>0, <3>1, <3>2
  <2>3. ~ (PollChild(1) \/ WaitChild(1) \/ PassNumber(1) \/ PassEnd(1))
    BY <1>1, <2>0 DEF PollChild, WaitChild, PassNumber, PassEnd, ChainInv, NumbersInv
  <2>4. ~ (ReadM(1) \/ ForkChild(1))
    BY <1>1, <2>0, ForkFacts DEF ReadM
  <2> QED BY <1>2, <1>5, <2>1, <2>2, <2>3, <2>4 DEF WorkerStep
<1> QED BY <1>1, <1>4, <1>5 DEF Next, Workers

LEMMA AnswerNext ==
  ASSUME ChainInv, SieveInv, AnswerExpected, [Next]_vars, n >= 3
  PROVE  AnswerExpected'
<1>1. n' = n /\ Expected' = Expected
  <2>1. n' = n /\ MaxK' = MaxK
    BY NumberSame, SameStream
  <2> QED BY <2>1 DEF Expected, Prime
<1>2. \A i \in 1 .. Len(answers') : answers'[i] \in Expected
  <2>1. CASE answers' = answers
    <3>1. n >= 2
      BY MasterFacts
    <3> QED BY <2>1, <3>1 DEF AnswerExpected
  <2>2. CASE answers' # answers
    <3>1. PICK p \in Workers :
            \/ answers' = Lines(worker[p]) /\ worker[p].pc = "dispatch" /\ Lines(worker[p]) # << >>
            \/ answers' = Lines(WithM(p)) /\ ReadM(p) /\ Lines(WithM(p)) # << >>
            \/ answers' = <<NoProduct>> /\ FinishLast(p)
      BY <2>2, StepAnswers
    <3>2. \E line \in Expected : answers' = <<line>>
      <4>1. CASE answers' = Lines(worker[p]) /\ worker[p].pc = "dispatch" /\ Lines(worker[p]) # << >>
        BY <4>1, FirstAnswers
      <4>2. CASE answers' = Lines(WithM(p)) /\ ReadM(p) /\ Lines(WithM(p)) # << >>
        BY <4>2, NewAnswers
      <4>3. CASE answers' = <<NoProduct>> /\ FinishLast(p)
        BY <4>3, EndAnswers
      <4> QED BY <3>1, <4>1, <4>2, <4>3
    <3> QED BY <3>2
  <2> QED BY <2>1, <2>2
<1> QED BY <1>1, <1>2 DEF AnswerExpected

\* What the lines that can come of n say of it.
LEMMA ExpectedTrue ==
  ASSUME n \in Nat, n >= 2, NEW line \in Expected
  PROVE  /\ line.says = "prime" => Prime(n)
         /\ line.says = "product" => Prime(line.p) /\ Prime(line.q) /\ line.p * line.q = n
         /\ line = NoProduct => ~ Prime(n) /\ \A p \in 2 .. n : Prime(p) => p * p # n
<1> DEFINE factors == {p \in 2 .. MaxK : n % p = 0 /\ Prime(p)}
           products == {Product(p, q) : p, q \in factors}
           right == {x \in products : x.p <= x.q /\ x.p * x.q = n}
<1>0. PrimeLine.says = "prime" /\ NoProduct.says = "not the product of two primes"
  BY DEF PrimeLine, NoProduct
<1>1. CASE Prime(n)
  <2>0. Expected = {PrimeLine}
    BY <1>1 DEF Expected
  <2>1. line.says = "prime"
    BY <1>0, <2>0
  <2>2. line # NoProduct
    BY <1>0, <2>1
  <2> QED BY <1>1, <2>1, <2>2
<1>2. CASE ~ Prime(n) /\ right # {}
  <2>1. line \in right
    BY <1>2 DEF Expected
  <2>2. PICK p \in factors, q \in factors : line = Product(p, q)
    BY <2>1
  <2>3. line.p = p /\ line.q = q /\ line.says = "product"
    BY <2>2 DEF Product
  <2>4. line # NoProduct
    BY <1>0, <2>3
  <2>5. Prime(p) /\ Prime(q) /\ p * q = n
    BY <2>1, <2>3
  <2> QED BY <2>3, <2>4, <2>5
<1>3. CASE ~ Prime(n) /\ right = {}
  <2>1. line = NoProduct
    BY <1>3 DEF Expected
  <2>2. ASSUME NEW p \in 2 .. n, Prime(p), p * p = n PROVE FALSE
    <3>1. MaxK \in Nat /\ MaxK * MaxK >= n
      BY MaxKIs
    <3>2. p \in Nat \ {0} /\ p >= 2
      OBVIOUS
    <3>3. n % p = 0
      BY <2>2, <3>2, Multiple
    <3>4. p <= MaxK
      <4> SUFFICES ASSUME MaxK < p PROVE FALSE
        BY <3>1, <3>2
      <4>1. MaxK * MaxK <= MaxK * p
        BY <3>1, <3>2
      <4>2. MaxK * p < p * p
        BY <3>1, <3>2
      <4>3. MaxK * p \in Nat /\ MaxK * MaxK \in Nat
        BY <3>1, <3>2
      <4> QED BY <2>2, <3>1, <4>1, <4>2, <4>3
    <3>5. p \in factors
      BY <2>2, <3>1, <3>2, <3>3, <3>4
    <3>6. Product(p, p) \in products /\ Product(p, p).p = p /\ Product(p, p).q = p
      BY <3>5 DEF Product
    <3>7. Product(p, p) \in right
      BY <2>2, <3>2, <3>6
    <3> QED BY <1>3, <3>7
  <2>3. line.says # "prime" /\ line.says # "product"
    BY <1>0, <2>1
  <2> QED BY <1>3, <2>2, <2>3
<1> QED BY <1>1, <1>2, <1>3

\* What is printed is true of n, for every n and in every order in which the processes
\* run and exit: a product that overflows an int is never taken for n, and the last
\* worker gives up neither on primes nor on squares of primes (pfact.c:204-232).
THEOREM AnswerRight == Spec => []AnswerTrue
<1>1. Init => PfactInv
  <2> SUFFICES ASSUME Init PROVE PfactInv
    OBVIOUS
  <2>1. ChainInv /\ SieveInv
    BY ChainInit, SieveInit
  <2>2. answers = << >> /\ worker[1].factor1 = 0
    BY DEF Init, NewWorker
  <2>3. TwoInv /\ AnswerExpected
    BY <2>2 DEF TwoInv, AnswerExpected
  <2> QED BY <2>1, <2>3 DEF PfactInv
<1>2. PfactInv /\ [Next]_vars => PfactInv'
  <2> SUFFICES ASSUME PfactInv, [Next]_vars PROVE PfactInv'
    OBVIOUS
  <2>1. ChainInv' /\ SieveInv' /\ TwoInv'
    BY ChainNext, SieveNext, TwoNext DEF PfactInv
  <2>2. AnswerExpected'
    <3>1. n \in Nat /\ n' = n
      BY MasterFacts, NumberSame DEF PfactInv
    <3>2. CASE n >= 3
      BY <3>2, AnswerNext DEF PfactInv
    <3>3. CASE n = 2
      <4>1. \A i \in 1 .. Len(answers') : answers'[i] = PrimeLine
        BY <2>1, <3>1, <3>3 DEF TwoInv
      <4>2. Expected' = {PrimeLine}
        BY <3>1, <3>3 DEF Expected, Prime
      <4> QED BY <4>1, <4>2 DEF AnswerExpected
    <3>4. CASE n < 2
      BY <3>1, <3>4 DEF AnswerExpected
    <3> QED BY <3>1, <3>2, <3>3, <3>4
  <2> QED BY <2>1, <2>2 DEF PfactInv
<1>3. PfactInv => AnswerTrue
  <2> SUFFICES ASSUME PfactInv, n >= 2, NEW i \in 1 .. Len(answers)
               PROVE  LET line == answers[i] IN
                      /\ line.says = "prime" => Prime(n)
                      /\ line.says = "product" =>
                           Prime(line.p) /\ Prime(line.q) /\ line.p * line.q = n
                      /\ line = NoProduct =>
                           ~ Prime(n) /\ \A p \in 2 .. n : Prime(p) => p * p # n
    BY DEF AnswerTrue
  <2>1. answers[i] \in Expected
    BY DEF PfactInv, AnswerExpected
  <2>2. n \in Nat
    BY MasterFacts DEF PfactInv
  <2> QED BY <2>1, <2>2, ExpectedTrue
<1> QED BY <1>1, <1>2, <1>3, PTL DEF Spec
=============================================================================
