---------------------------- MODULE SigChildProofs ----------------------------
(***************************************************************************)
(* SigChild for any number of children: what numkids counts, and how many  *)
(* zombies each signal and each run of the handler can rely on.            *)
(***************************************************************************)
EXTENDS SigChild, FiniteSetTheorems, TLAPS

One(b) == IF b THEN 1 ELSE 0

\* numkids is k less the children reaped, but for the one the handler has waited
\* for and not yet taken off.
CountRight == numkids + Cardinality(reaped) = k + One(handler = "decrement")

\* A pending signal and a handler that is about to wait stand for a zombie each.
SignalsRight ==
  One(pending) + One(handler = "wait") <= Cardinality(zombies)

MainRight ==
  /\ pc \in {"compute", "done"} => i = k
  /\ pc = "done" => numkids = 0 /\ handler = "idle"

SigInv == TypeOK /\ CountRight /\ SignalsRight /\ MainRight

LEMMA FiniteChildren ==
  ASSUME TypeOK
  PROVE  /\ IsFiniteSet(zombies) /\ Cardinality(zombies) \in Nat
         /\ IsFiniteSet(reaped) /\ Cardinality(reaped) \in Nat
         /\ Cardinality(reaped) <= i
         /\ Cardinality(reaped) = i => reaped = 0 .. i - 1
<1>1. i \in Nat /\ zombies \in SUBSET (0 .. i - 1) /\ reaped \in SUBSET (0 .. i - 1)
  BY DEF TypeOK
<1>2. IsFiniteSet(0 .. i - 1) /\ Cardinality(0 .. i - 1) = i
  BY <1>1, FS_Interval
<1>3. IsFiniteSet(zombies) /\ IsFiniteSet(reaped) /\ Cardinality(reaped) <= i
        /\ (Cardinality(reaped) = i => reaped = 0 .. i - 1)
  BY ZenonT(40), <1>1, <1>2, FS_Subset
<1> QED BY <1>3, FS_CardinalityType

LEMMA InitInv == Init => SigInv
<1> SUFFICES ASSUME Init PROVE SigInv OBVIOUS
<1>1. TypeOK
  <2>1. k \in Nat /\ numkids \in 0 .. k /\ i \in 0 .. k
    BY MaxKidsAssumption DEF Init
  <2>2. 0 .. i - 1 = {}
    BY DEF Init
  <2> QED BY <2>1, <2>2 DEF Init, TypeOK
<1>2. Cardinality(reaped) = 0 /\ Cardinality(zombies) = 0
  BY FS_EmptySet DEF Init
<1> QED BY <1>1, <1>2 DEF Init, SigInv, CountRight, SignalsRight, MainRight, One, TypeOK

LEMMA StepInv == SigInv /\ [Next]_vars => SigInv'
<1> SUFFICES ASSUME SigInv, [Next]_vars PROVE SigInv' OBVIOUS
<1>0. TypeOK /\ CountRight /\ SignalsRight /\ MainRight
  BY DEF SigInv
<1>1. /\ IsFiniteSet(zombies) /\ Cardinality(zombies) \in Nat
      /\ IsFiniteSet(reaped) /\ Cardinality(reaped) \in Nat
      /\ Cardinality(reaped) <= i
  BY <1>0, FiniteChildren
<1>2. CASE Fork
  <2>1. TypeOK'
    <3>1. i' = i + 1 /\ 0 .. i' - 1 = (0 .. i - 1) \cup {i} /\ i' \in 0 .. k
      BY <1>0, <1>2 DEF Fork, MoreToFork, TypeOK
    <3> QED BY <1>0, <1>2, <3>1 DEF Fork, TypeOK
  <2>2. CountRight' /\ SignalsRight' /\ MainRight'
    BY <1>0, <1>2 DEF Fork, CountRight, SignalsRight, MainRight
  <2> QED BY <2>1, <2>2 DEF SigInv
<1>3. CASE ForkFails
  BY <1>0, <1>3 DEF ForkFails, children, SigInv, TypeOK, CountRight, SignalsRight, MainRight
<1>4. CASE StartComputing
  BY <1>0, <1>4 DEF StartComputing, MoreToFork, children, SigInv, TypeOK, CountRight,
                    SignalsRight, MainRight
<1>5. CASE Finish
  BY <1>0, <1>5 DEF Finish, Computing, children, SigInv, TypeOK, CountRight, SignalsRight,
                    MainRight
<1>6. ASSUME NEW c \in running, ChildExit(c) PROVE SigInv'
  <2>1. c \notin zombies /\ TypeOK'
    BY <1>0, <1>6 DEF ChildExit, TypeOK
  <2>2. Cardinality(zombies') = Cardinality(zombies) + 1
    BY <1>1, <1>6, <2>1, FS_AddElement DEF ChildExit
  <2>3. SignalsRight'
    BY <1>0, <1>1, <1>6, <2>2 DEF ChildExit, SignalsRight, One
  <2> QED BY <1>0, <1>6, <2>1, <2>3 DEF ChildExit, SigInv, CountRight, MainRight
<1>7. CASE Deliver
  <2>1. TypeOK' /\ CountRight' /\ MainRight'
    BY <1>0, <1>7 DEF Deliver, TypeOK, CountRight, MainRight, One
  <2>2. SignalsRight'
    BY <1>0, <1>1, <1>7 DEF Deliver, SignalsRight, One
  <2> QED BY <2>1, <2>2 DEF SigInv
<1>8. CASE Wait
  <2>1. PICK c \in zombies : zombies' = zombies \ {c} /\ reaped' = reaped \cup {c}
    BY <1>8 DEF Wait
  <2>2. c \notin reaped /\ TypeOK'
    BY <1>0, <1>8, <2>1 DEF Wait, TypeOK
  <2>3. Cardinality(zombies') = Cardinality(zombies) - 1
    BY <1>1, <2>1, FS_RemoveElement
  <2>4. Cardinality(reaped') = Cardinality(reaped) + 1
    BY <1>1, <2>1, <2>2, FS_AddElement
  <2>5. CountRight'
    BY <1>0, <1>1, <1>8, <2>4 DEF Wait, CountRight, One, TypeOK
  <2>6. SignalsRight'
    BY <1>0, <1>1, <1>8, <2>3 DEF Wait, SignalsRight, One
  <2> QED BY <1>0, <1>8, <2>2, <2>5, <2>6 DEF Wait, SigInv, MainRight
<1>9. CASE Decrement
  <2>1. numkids = k + 1 - Cardinality(reaped)
    BY <1>0, <1>1, <1>9 DEF Decrement, CountRight, One, TypeOK
  <2>2. Cardinality(reaped) # 0
    BY <1>0, <1>1, <2>1 DEF TypeOK
  <2>3. numkids' \in 0 .. k
    BY <1>0, <1>1, <1>9, <2>1, <2>2 DEF Decrement, TypeOK
  <2>4. TypeOK'
    BY <1>0, <1>9, <2>3 DEF Decrement, children, TypeOK
  <2> QED BY <1>0, <1>1, <1>9, <2>1, <2>4
          DEF Decrement, children, SigInv, CountRight, SignalsRight, MainRight, One, TypeOK
<1>10. CASE UNCHANGED vars
  BY <1>0, <1>10 DEF vars, SigInv, TypeOK, CountRight, SignalsRight, MainRight
<1> QED BY <1>2, <1>3, <1>4, <1>5, <1>6, <1>7, <1>8, <1>9, <1>10 DEF Next

LEMMA Invariant == Spec => []SigInv
<1>1. SigInv /\ [Next]_vars => SigInv' BY StepInv
<1> QED BY InitInv, <1>1, PTL DEF Spec

\* numkids is never negative, and no child is lost sight of (sigchld.c:12-17, 52-73).
THEOREM TypeCorrect == Spec => []TypeOK
<1>1. SigInv => TypeOK BY DEF SigInv
<1> QED BY Invariant, <1>1, PTL

\* For any number of children: "done computing" comes after all were forked and
\* reaped (sigchld.c:53-71).
THEOREM AllReaped == Spec => []DoneMeansReaped
<1>1. SigInv => DoneMeansReaped
  <2> SUFFICES ASSUME SigInv, pc = "done" PROVE i = k /\ reaped = 0 .. k - 1
    BY DEF DoneMeansReaped
  <2>1. TypeOK /\ i = k /\ numkids = 0 /\ handler = "idle"
    BY DEF SigInv, MainRight
  <2>2. Cardinality(reaped) = i
    BY <2>1, FiniteChildren DEF SigInv, CountRight, One, TypeOK
  <2> QED BY <2>1, <2>2, FiniteChildren
<1> QED BY Invariant, <1>1, PTL

\* For any number of children and any order of exits: the wait of the handler
\* neither blocks nor fails (sigchld.c:14).
THEOREM WaitCorrect == Spec => []WaitFindsChild
<1>1. SigInv => WaitFindsChild
  <2> SUFFICES ASSUME SigInv, handler = "wait" PROVE zombies # {}
    BY DEF WaitFindsChild
  <2>1. Cardinality(zombies) \in Nat /\ Cardinality(zombies) >= 1
    BY FiniteChildren DEF SigInv, SignalsRight, One
  <2> QED BY <2>1, FS_EmptySet
<1> QED BY Invariant, <1>1, PTL
=============================================================================
