------------------------------- MODULE SigChild -------------------------------
(***************************************************************************)
(* ex6/sigchld.c: main forks k children and computes until numkids is 0;   *)
(* the handler of SIGCHLD waits for one child and takes one off numkids.   *)
(* The handler runs on top of main, with SIGCHLD blocked, so main stands   *)
(* still meanwhile; the children do not.  A signal that is already pending *)
(* is not queued a second time.  Assumed of the environment: no child is   *)
(* stopped or continued.  The program does not set SA_NOCLDSTOP (line 44), *)
(* so that would raise SIGCHLD too, with no child to wait for.             *)
(***************************************************************************)
EXTENDS Integers, FiniteSets

CONSTANT MaxKids    \* the largest argument the program is run with

ASSUME MaxKidsAssumption == MaxKids \in Nat

VARIABLES
  k,           \* the argument, which the fork loop counts to
  numkids,     \* the count that the handler changes and main waits for
  pc,          \* where main is
  i,           \* the children forked so far: 0 .. i - 1
  running,     \* those that have not exited,
  zombies,     \* those that have, not yet waited for,
  reaped,      \* and those that the handler waited for
  pending,     \* is a SIGCHLD waiting to be delivered
  handler      \* where sigchild_handler is; "idle" when main runs

vars == <<k, numkids, pc, i, running, zombies, reaped, pending, handler>>
children == <<running, zombies, reaped, pending>>

\* Line 36: atoi.  A negative argument runs as 0 does.
Init ==
  /\ k \in 0 .. MaxKids /\ numkids = k
  /\ pc = "fork" /\ i = 0
  /\ running = {} /\ zombies = {} /\ reaped = {}
  /\ pending = FALSE /\ handler = "idle"

\* The loop counts to k, as numkids may change under it (the note at line 50).
MoreToFork_OneMore == i <= k    \* mutant
MoreToFork_Numkids == i < numkids    \* mutant
MoreToFork == i < k

Fork ==
  /\ pc = "fork" /\ handler = "idle" /\ MoreToFork
  /\ i' = i + 1 /\ running' = running \cup {i}
  /\ UNCHANGED <<k, numkids, pc, zombies, reaped, pending, handler>>

ForkFails ==
  /\ pc = "fork" /\ handler = "idle" /\ MoreToFork
  /\ pc' = "failed"
  /\ UNCHANGED <<k, numkids, i, children, handler>>

StartComputing ==
  /\ pc = "fork" /\ handler = "idle" /\ ~MoreToFork
  /\ pc' = "compute"
  /\ UNCHANGED <<k, numkids, i, children, handler>>

Computing_TillOne == numkids > 1    \* mutant
Computing == numkids > 0

Finish ==
  /\ pc = "compute" /\ handler = "idle" /\ ~Computing
  /\ pc' = "done"
  /\ UNCHANGED <<k, numkids, i, children, handler>>

\* do_child ends in exit: its sleep gives a likely order, not a certain one.
ChildExit(c) ==
  /\ c \in running
  /\ running' = running \ {c} /\ zombies' = zombies \cup {c}
  /\ pending' = TRUE
  /\ UNCHANGED <<k, numkids, pc, i, reaped, handler>>

\* The signal of one exit or of several; children are never stopped or continued.
Deliver ==
  /\ pending /\ handler = "idle" /\ pc \in {"fork", "compute"}
  /\ pending' = FALSE /\ handler' = "wait"
  /\ UNCHANGED <<k, numkids, pc, i, running, zombies, reaped>>

\* wait returns any zombie.  That there is one is WaitFindsChild.
Wait ==
  /\ handler = "wait"
  /\ \E c \in zombies : zombies' = zombies \ {c} /\ reaped' = reaped \cup {c}
  /\ handler' = "decrement"
  /\ UNCHANGED <<k, numkids, pc, i, running, pending>>

\* Mutant: the handler waits for all children that are left.
Decrement_WaitAgain ==
  /\ handler = "decrement"
  /\ numkids' = numkids - 1
  /\ handler' = IF numkids' > 0 THEN "wait" ELSE "idle"
  /\ UNCHANGED <<k, pc, i, children>>

Decrement ==
  /\ handler = "decrement"
  /\ numkids' = numkids - 1 /\ handler' = "idle"
  /\ UNCHANGED <<k, pc, i, children>>

Next ==
  \/ Fork \/ ForkFails \/ StartComputing \/ Finish
  \/ \E c \in running : ChildExit(c)
  \/ Deliver \/ Wait \/ Decrement

Spec == Init /\ [][Next]_vars

\* The kernel runs a process that can run: some step is taken whenever one can
\* be.  Every behaviour is finite, so nothing more is needed.
FairSpec == Spec /\ WF_vars(Next)

-----------------------------------------------------------------------------
\* The types; numkids is never negative, and a child is in one place at a time.
TypeOK ==
  /\ k \in Nat /\ i \in 0 .. k /\ numkids \in 0 .. k
  /\ pc \in {"fork", "compute", "done", "failed"}
  /\ handler \in {"idle", "wait", "decrement"} /\ pending \in BOOLEAN
  /\ running \cup zombies \cup reaped = 0 .. i - 1
  /\ running \cap zombies = {} /\ (running \cup zombies) \cap reaped = {}

\* "done computing" is printed only when all the children the loop was to fork
\* were forked and reaped, however their exits met the loop (the note at 50).
DoneMeansReaped == pc = "done" => i = k /\ reaped = 0 .. k - 1

\* When children only exit, each run of the handler finds a zombie: wait neither
\* blocks, with main under it, nor fails and leaves childStatus unassigned for
\* line 15.  (The SIGCHLD of a child that is stopped could find none.)
WaitFindsChild == handler = "wait" => zombies # {}

\* When children only exit, the program ends if no child does so before the one
\* before it was waited for.  Two exits that come closer share a signal, and main
\* computes for ever.
EndsWhenExitsApart ==
  [](Cardinality(zombies) <= 1) => <>(pc \in {"done", "failed"})
=============================================================================
