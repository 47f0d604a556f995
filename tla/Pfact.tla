-------------------------------- MODULE Pfact ---------------------------------
(***************************************************************************)
(* a3/pfact.c: a sieve of Eratosthenes as a chain of processes.  The master*)
(* writes 2, 3, ... and n, and then END, into the pipe of the first worker;*)
(* each worker keeps the first number it reads as its m and passes on, to  *)
(* the worker it forks for the first of them, the numbers that m does not  *)
(* divide.  A worker that knows the answer prints it and exits, and the    *)
(* exits travel back along the chain.  One action is the code from one     *)
(* system call to the next.                                                *)
(***************************************************************************)
EXTENDS Integers, Sequences

CONSTANTS
  Numbers,     \* the arguments the program is run with
  PipeRoom,    \* the numbers a pipe holds: 65536 / sizeof(int) in the code
  ExitMod,     \* exit statuses are taken modulo this: 256 in the code
  IntMod,      \* and products of ints modulo this: 2^32 in the code
  Garbage      \* is result # 0 when nothing was assigned to it

ASSUME PfactAssumption ==
  /\ Numbers \subseteq Nat
  /\ PipeRoom \in Nat \ {0}
  /\ ExitMod \in Nat /\ ExitMod >= 2
  /\ IntMod \in Nat /\ IntMod > 4 /\ \A i \in Numbers : i < IntMod
  /\ Garbage \subseteq BOOLEAN /\ Garbage # {}

VARIABLES
  n,           \* the argument
  master,      \* the process that feeds the numbers
  worker,      \* the others, each the parent of the next
  answers      \* the lines that were printed

vars == <<n, master, worker, answers>>

END == -1
NONE == -1

\* A process that exited is a zombie until its parent waits for it: "reaped".
WorkerPCs == {"read", "poll", "dispatch", "waitEnd", "readM", "exiting", "exited",
              "reaped"}

\* in: what is in the pipe it reads from; cur: current_k; code: its exit status.
Worker == [pc : WorkerPCs, in : Seq(Int), cur : Int, m : Nat, factor1 : Nat,
           code : Nat]

MasterPCs == {"write", "poll", "writeN", "writeEnd", "wait", "exited"}

\* stages: the number of stages it reported.
Master == [pc : MasterPCs, k : Nat, code : Nat, stages : Int]

Prime(i) == i >= 2 /\ \A d \in 2 .. i - 1 : i % d # 0

\* An int has 32 bits: a prime i is odd or 2, so 2^32 divides no i * i - i.
ASSUME SquareAssumption ==
  \A i \in Numbers : Prime(i) => (i * i) % IntMod # i

PrimeLine == [says |-> "prime"]
Product(p, q) == [says |-> "product", p |-> p, q |-> q]
NoProduct == [says |-> "not the product of two primes"]

\* ceil(sqrt(n)).
MaxK == CHOOSE k \in 0 .. n : k * k >= n /\ \A j \in 0 .. k - 1 : j * j < n

NewWorker(factor1, cur, pc) ==
  [pc |-> pc, in |-> << >>, cur |-> cur, m |-> 2, factor1 |-> factor1, code |-> 0]

\* The master has made its pipe and forked.  With no number to write, it tests
\* result without having assigned it.
Init ==
  /\ n \in Numbers
  /\ \E g \in Garbage :
       master = [pc |-> IF MaxK >= 2 THEN "write"
                        ELSE IF g THEN "wait" ELSE "writeN",
                 k |-> 2, code |-> 0, stages |-> NONE]
  /\ worker = <<NewWorker(0, 1, "read")>>
  /\ answers = << >>

\* Mutant: the status is not cut to a byte.
ExitStatus_Whole(code) == code

ExitStatus(code) == code % ExitMod

HasExited(p) == worker[p].pc \in {"exited", "reaped"}

HasChild(p) == p < Len(worker)

HasRoom(p) == Len(worker[p].in) < PipeRoom

----------------------------------------------------------------------------
(* The master                                                              *)

\* Every worker holds the read end of the first pipe: none closes the copy it
\* inherited.  Write fails when all of them are gone.
CanWrite == HasRoom(1) /\ \E p \in 1 .. Len(worker) : ~ HasExited(p)

WriteFirst(k) == worker' = [worker EXCEPT ![1].in = Append(@, k)]

FeedNumber ==
  /\ master.pc = "write" /\ CanWrite
  /\ WriteFirst(master.k)
  /\ master' = [master EXCEPT !.pc = "poll"]
  /\ UNCHANGED <<n, answers>>

\* Waitpid with WNOHANG after every number.
PollWorker ==
  /\ master.pc = "poll"
  /\ IF worker[1].pc = "exited"
     THEN /\ master' = [master EXCEPT !.pc = "wait"]
          /\ worker' = [worker EXCEPT ![1].pc = "reaped"]
     ELSE /\ master' = [master EXCEPT !.k = @ + 1,
                          !.pc = IF master.k < MaxK THEN "write" ELSE "writeN"]
          /\ UNCHANGED worker
  /\ UNCHANGED <<n, answers>>

\* Mutants: n itself, or END, is not sent.
FeedN_Skip ==
  /\ master.pc = "writeN" /\ CanWrite
  /\ master' = [master EXCEPT !.pc = "writeEnd"]
  /\ UNCHANGED <<n, worker, answers>>

FeedN ==
  /\ master.pc = "writeN" /\ CanWrite
  /\ WriteFirst(n)
  /\ master' = [master EXCEPT !.pc = "writeEnd"]
  /\ UNCHANGED <<n, answers>>

FeedEnd_Skip ==
  /\ master.pc = "writeEnd" /\ CanWrite
  /\ master' = [master EXCEPT !.pc = "wait"]
  /\ UNCHANGED <<n, worker, answers>>

FeedEnd ==
  /\ master.pc = "writeEnd" /\ CanWrite
  /\ WriteFirst(END)
  /\ master' = [master EXCEPT !.pc = "wait"]
  /\ UNCHANGED <<n, answers>>

\* EPIPE: SIGPIPE is ignored, the wrapper Write exits.
BrokenPipe ==
  /\ master.pc \in {"write", "writeN", "writeEnd"}
  /\ \A p \in 1 .. Len(worker) : HasExited(p)
  /\ master' = [master EXCEPT !.pc = "exited", !.code = ExitStatus(-1)]
  /\ UNCHANGED <<n, worker, answers>>

\* The test of the child's status for -1 never holds: WEXITSTATUS is a byte.
ReportStages ==
  /\ master.pc = "wait" /\ worker[1].pc = "exited"
  /\ worker' = [worker EXCEPT ![1].pc = "reaped"]
  /\ master' = [master EXCEPT !.pc = "exited", !.stages = worker[1].code]
  /\ UNCHANGED <<n, answers>>

\* The worker was waited for in the loop already: ECHILD.
WaitError ==
  /\ master.pc = "wait" /\ worker[1].pc = "reaped"
  /\ master' = [master EXCEPT !.pc = "exited", !.code = ExitStatus(-1)]
  /\ UNCHANGED <<n, worker, answers>>

----------------------------------------------------------------------------
(* A worker                                                                *)

\* A worker never meets the end of a file, nor a pipe nobody reads: it holds the
\* read end of its child's pipe itself, and no process ends before those that
\* read from it (NothingLeft).
ReadNumber(p) ==
  /\ worker[p].pc = "read" /\ worker[p].in # << >>
  /\ worker' = [worker EXCEPT ![p].cur = Head(worker[p].in),
                  ![p].in = Tail(@),
                  ![p].pc = IF HasChild(p) THEN "poll" ELSE "dispatch"]
  /\ UNCHANGED <<n, master, answers>>

\* p's child was found to have exited: so does p, one stage more.
ExitAfterChild(p) ==
  worker' = [worker EXCEPT ![p + 1].pc = "reaped", ![p].pc = "exiting",
               ![p].code = ExitStatus(worker[p + 1].code + 1)]

\* Mutant: the stage of the child itself is not counted.
PollChild_SameCode(p) ==
  /\ worker[p].pc = "poll"
  /\ IF worker[p + 1].pc = "exited"
     THEN worker' = [worker EXCEPT ![p + 1].pc = "reaped", ![p].pc = "exiting",
                       ![p].code = worker[p + 1].code]
     ELSE worker' = [worker EXCEPT ![p].pc = "dispatch"]
  /\ UNCHANGED <<n, master, answers>>

PollChild(p) ==
  /\ worker[p].pc = "poll"
  /\ IF worker[p + 1].pc = "exited"
     THEN ExitAfterChild(p)
     ELSE worker' = [worker EXCEPT ![p].pc = "dispatch"]
  /\ UNCHANGED <<n, master, answers>>

AtNumber(p) == worker[p].pc = "dispatch" /\ worker[p].cur # END

AtEnd(p) == worker[p].pc = "dispatch" /\ worker[p].cur = END

\* Mutant: only m itself is held back.
Divides_Itself(m, k) == k = m

Divides(m, k) == k % m = 0

\* What a worker prints once it has tested its m as a factor of n.
Lines(w) ==
  IF ~ Divides(w.m, n) THEN << >>
  ELSE IF w.factor1 # 0
       THEN IF (w.factor1 * w.m) % IntMod = n THEN <<Product(w.factor1, w.m)>>
            ELSE IF w.factor1 # w.m THEN <<NoProduct>> ELSE << >>
       ELSE IF (w.m * w.m) % IntMod = n THEN <<Product(w.m, w.m)>>
            ELSE IF n = w.m THEN <<PrimeLine>> ELSE << >>

\* Mutant: it prints and goes on.
Tested_GoOn(w) ==
  [w EXCEPT !.pc = "read",
            !.factor1 = IF Divides(w.m, n) /\ @ = 0 THEN w.m ELSE @]

\* And what becomes of it: exit, or go on with m as factor1.
Tested(w) ==
  IF Lines(w) # << >>
  THEN [w EXCEPT !.pc = "exiting", !.code = IF Lines(w) = <<PrimeLine>> THEN 0 ELSE 1]
  ELSE [w EXCEPT !.pc = "read",
                 !.factor1 = IF Divides(w.m, n) /\ @ = 0 THEN w.m ELSE @]

DropNumber(p) ==
  /\ AtNumber(p) /\ Divides(worker[p].m, worker[p].cur)
  /\ worker' = [worker EXCEPT ![p] = Tested(@)]
  /\ answers' = answers \o Lines(worker[p])
  /\ UNCHANGED <<n, master>>

\* Pipe and fork: the child starts as a copy of p.
ForkChild(p) ==
  /\ AtNumber(p) /\ ~ Divides(worker[p].m, worker[p].cur) /\ ~ HasChild(p)
  /\ worker' = Append(worker, NewWorker(worker[p].factor1, worker[p].cur, "readM"))
  /\ UNCHANGED <<n, master, answers>>

PassNumber(p) ==
  /\ AtNumber(p) /\ ~ Divides(worker[p].m, worker[p].cur)
  /\ HasChild(p) /\ HasRoom(p + 1)
  /\ worker' = [worker EXCEPT ![p] = Tested(@),
                  ![p + 1].in = Append(@, worker[p].cur)]
  /\ answers' = answers \o Lines(worker[p])
  /\ UNCHANGED <<n, master>>

\* The child's first number is its m.
ReadM(p) ==
  /\ worker[p].pc = "readM" /\ worker[p].in # << >>
  /\ LET w == [worker[p] EXCEPT !.m = Head(worker[p].in), !.in = Tail(@)] IN
     /\ worker' = [worker EXCEPT ![p] = Tested(w)]
     /\ answers' = answers \o Lines(w)
  /\ UNCHANGED <<n, master>>

\* The last worker has seen every number.
FinishLast(p) ==
  /\ AtEnd(p) /\ ~ HasChild(p)
  /\ worker' = [worker EXCEPT ![p].pc = "exiting", ![p].code = 1]
  /\ answers' = Append(answers, NoProduct)
  /\ UNCHANGED <<n, master>>

\* Mutant: p does not wait for its child.
PassEnd_NoWait(p) ==
  /\ AtEnd(p) /\ HasChild(p) /\ HasRoom(p + 1)
  /\ worker' = [worker EXCEPT ![p + 1].in = Append(@, END), ![p].pc = "exiting"]
  /\ UNCHANGED <<n, master, answers>>

PassEnd(p) ==
  /\ AtEnd(p) /\ HasChild(p) /\ HasRoom(p + 1)
  /\ worker' = [worker EXCEPT ![p + 1].in = Append(@, END), ![p].pc = "waitEnd"]
  /\ UNCHANGED <<n, master, answers>>

WaitChild(p) ==
  /\ worker[p].pc = "waitEnd" /\ worker[p + 1].pc = "exited"
  /\ ExitAfterChild(p)
  /\ UNCHANGED <<n, master, answers>>

Exit(p) ==
  /\ worker[p].pc = "exiting"
  /\ worker' = [worker EXCEPT ![p].pc = "exited"]
  /\ UNCHANGED <<n, master, answers>>

----------------------------------------------------------------------------

MasterStep == \/ FeedNumber \/ PollWorker \/ FeedN \/ FeedEnd \/ BrokenPipe
              \/ ReportStages \/ WaitError

WorkerStep(p) ==
  \/ ReadNumber(p) \/ PollChild(p) \/ DropNumber(p) \/ ForkChild(p)
  \/ PassNumber(p) \/ ReadM(p) \/ FinishLast(p) \/ PassEnd(p) \/ WaitChild(p)
  \/ Exit(p)

Next == MasterStep \/ \E p \in 1 .. Len(worker) : WorkerStep(p)

Spec == Init /\ [][Next]_vars

\* The kernel runs some process whenever one can run.
FairSpec == Spec /\ WF_vars(Next)

----------------------------------------------------------------------------
(* Properties                                                              *)

\* Every variable stays in its range: exit statuses in particular are bytes,
\* although each stage adds one to its child's (pfact.c:149, 164).
TypeOK ==
  /\ n \in Numbers
  /\ master \in Master /\ master.code < ExitMod
  /\ worker \in Seq(Worker)
  /\ \A p \in 1 .. Len(worker) :
       worker[p].code < ExitMod /\ Len(worker[p].in) <= PipeRoom
  /\ answers \in Seq({PrimeLine, NoProduct} \cup
                     {Product(p, q) : p, q \in 1 .. n})

\* The line printed is true of n, products that overflow an int included: "prime"
\* of primes only, a product only when both numbers are prime and give n, and "not
\* the product of two primes" neither of a prime nor of the square of one.  It is
\* printed of all products of two different primes but 6, for which that is wrong:
\* the larger prime is above the square root of n and is never sent (pfact.c:89-93,
\* 168-171, 204-232).
AnswerTrue ==
  n >= 2 => \A i \in 1 .. Len(answers) :
    LET line == answers[i] IN
    /\ line.says = "prime" => Prime(n)
    /\ line.says = "product" =>
         Prime(line.p) /\ Prime(line.q) /\ line.p * line.q = n
    /\ line = NoProduct =>
         ~ Prime(n) /\ \A p \in 2 .. n : Prime(p) => p * p # n

\* One worker answers, once, and it has done so when the program ends, however it
\* ends: neither the exits that overtake numbers in the pipes nor the master's
\* failing writes and waits lose the answer (pfact.c:94-130, 147-165).
AnsweredOnce ==
  n >= 2 => /\ Len(answers) <= 1
            /\ master.pc = "exited" => Len(answers) = 1

\* Worker by worker, the chain holds the primes in order, none left out: numbers
\* are not lost, or reordered, between workers (pfact.c:179-202).
SievePrimes ==
  n >= 2 =>
    \A p \in 1 .. Len(worker) :
      worker[p].pc # "readM" =>
        /\ Prime(worker[p].m)
        /\ {worker[i].m : i \in 1 .. p - 1} =
             {q \in 2 .. MaxK : Prime(q) /\ q < worker[p].m}

\* The stages the master reports are the workers, modulo a byte; the one that
\* finds n itself does not count (pfact.c:137, 149, 164, 224).
StagesCounted ==
  master.stages # NONE =>
    master.stages =
      (Len(worker) - (IF PrimeLine \in {answers[i] : i \in 1 .. Len(answers)}
                      THEN 1 ELSE 0)) % ExitMod

\* Each process ends after those it feeds: when the master is gone no worker is
\* left, and every worker but the first was waited for (pfact.c:130, 148, 158).
NothingLeft ==
  /\ master.pc = "exited" => HasExited(1)
  /\ \A p \in 1 .. Len(worker) - 1 :
       HasExited(p) => worker[p + 1].pc = "reaped"

\* p waits for room in the pipe of a child that has exited.  No EPIPE ends the
\* wait: p itself holds the pipe's read end.
Blocked(p) ==
  /\ worker[p].pc = "dispatch" /\ HasChild(p)
  /\ ~ HasRoom(p + 1) /\ HasExited(p + 1)

\* The program ends, but for one reason: a worker that writes into a full pipe
\* while its child exits waits for ever, and the master with it.
EndsUnlessBlocked ==
  n >= 2 ~> \/ master.pc = "exited"
            \/ \E p \in 1 .. Len(worker) : Blocked(p)
=============================================================================
