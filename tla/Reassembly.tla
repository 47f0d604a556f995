------------------------------ MODULE Reassembly -------------------------------
(***************************************************************************)
(* What readstream promises (a2/readstream.c:13-18, a2/list.c:16-19): of   *)
(* the packets whose CRC is right the last with each number is kept, and   *)
(* the payloads are printed in the order of the numbers, with ### in place *)
(* of those that are missing.                                              *)
(***************************************************************************)
EXTENDS Integers, Sequences

CONSTANTS
  FilePackets, \* the packets a file may hold
  Shown(_),    \* what printing a payload shows of it
  Missing      \* what is printed for a missing packet

VARIABLES todo, store, out

Init == todo = << >> /\ store = << >> /\ out = << >>

Deliver ==
  /\ todo = << >> /\ store = << >> /\ out = << >>
  /\ todo' \in Seq(FilePackets)
  /\ UNCHANGED <<store, out>>

Take ==
  /\ todo # << >> /\ out = << >>
  /\ todo' = Tail(todo)
  /\ store' = IF Head(todo).crcOK
              THEN [k \in DOMAIN store \cup {Head(todo).num} |->
                      IF k = Head(todo).num THEN Head(todo).data ELSE store[k]]
              ELSE store
  /\ UNCHANGED out

PrintNext ==
  /\ todo = << >> /\ \E k \in DOMAIN store : k >= Len(out)
  /\ out' = Append(out, IF Len(out) \in DOMAIN store THEN Shown(store[Len(out)])
                        ELSE Missing)
  /\ UNCHANGED <<todo, store>>

\* A payload is given up when it was printed.
Release ==
  /\ todo = << >> /\ \A k \in DOMAIN store : k < Len(out)
  /\ \E k \in DOMAIN store : store' = [j \in DOMAIN store \ {k} |-> store[j]]
  /\ UNCHANGED <<todo, out>>

Next == Deliver \/ Take \/ PrintNext \/ Release

Spec == Init /\ [][Next]_<<todo, store, out>>
=============================================================================
