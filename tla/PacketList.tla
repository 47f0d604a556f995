------------------------------ MODULE PacketList -------------------------------
(***************************************************************************)
(* a2/list.c: the list of packets that packetize and readstream keep, in   *)
(* the order of their block numbers, node by node.  One action is a round  *)
(* of addPacket's loop, or what it does once the place is found.           *)
(***************************************************************************)
EXTENDS Integers, Sequences, FiniteSets

CONSTANTS
  NumMod       \* block numbers are taken modulo this: 2^16 in the code

ASSUME NumModAssumption == NumMod \in Nat \ {0}

VARIABLES
  heap,        \* the nodes malloc has returned; a freed one is not live
  head,        \* the first node, or NULL
  mem,         \* the payloads allocated and not freed
  packet,      \* newPacket: the packet in hand
  prevNode,
  nextNode,
  pc

listVars == <<heap, head, mem, packet, prevNode, nextNode, pc>>

NULL == 0

\* What a payload holds: which block of the file, and whether it is text, has a
\* zero byte, or was changed on the way.  "beginning" and "###" are printed only.
Datum == [block : Nat, kind : {"text", "binary", "changed", "beginning", "###"}]

NoDatum == [block |-> 0, kind |-> "###"]

\* payload: which of the payloads that were allocated.
Packet == [num : 0 .. NumMod - 1, data : Datum, payload : Nat]

NoPacket == [num |-> 0, data |-> NoDatum, payload |-> 0]

Node == [p : Packet, next : Nat, live : BOOLEAN]

NewNode(p) == [p |-> p, next |-> NULL, live |-> TRUE]

ListInit ==
  /\ heap = << >> /\ head = NULL /\ mem = {}
  /\ packet = NoPacket /\ prevNode = NULL /\ nextNode = NULL

\* An empty list.
AddFirst ==
  /\ pc = "add" /\ head = NULL
  /\ heap' = Append(heap, NewNode(packet))
  /\ head' = Len(heap) + 1
  /\ pc' = "read"
  /\ UNCHANGED <<mem, packet, prevNode, nextNode>>

\* The new node, temp, is the last of heap until the packet is in the list.
StartSearch ==
  /\ pc = "add" /\ head # NULL
  /\ heap' = Append(heap, NewNode(packet))
  /\ prevNode' = NULL /\ nextNode' = head
  /\ pc' = "search"
  /\ UNCHANGED <<head, mem, packet>>

temp == Len(heap)

Num(i) == heap[i].p.num

\* Mutant: a packet of the same number is passed over.
GoesBefore_OrEqual(i) == Num(i) <= packet.num

GoesBefore(i) == Num(i) < packet.num

\* Mutant: nextNode is not moved on.
Search_Stay ==
  /\ pc = "search" /\ nextNode # NULL /\ GoesBefore(nextNode)
  /\ prevNode' = nextNode
  /\ UNCHANGED <<heap, head, mem, packet, nextNode, pc>>

Search ==
  /\ pc = "search" /\ nextNode # NULL /\ GoesBefore(nextNode)
  /\ prevNode' = nextNode
  /\ nextNode' = heap[nextNode].next
  /\ UNCHANGED <<heap, head, mem, packet, pc>>

Found == pc = "search" /\ (nextNode # NULL => ~ GoesBefore(nextNode))

AppendLast ==
  /\ Found /\ nextNode = NULL
  /\ heap' = [heap EXCEPT ![prevNode].next = temp]
  /\ pc' = "read"
  /\ UNCHANGED <<head, mem, packet, prevNode, nextNode>>

Repeats == Found /\ nextNode # NULL /\ Num(nextNode) = packet.num

\* Mutants: the packet is dropped instead of the old one; the old one is freed
\* and stays in the list.
Replace_KeepOld ==
  /\ Repeats /\ prevNode # NULL
  /\ heap' = [heap EXCEPT ![temp].live = FALSE]
  /\ mem' = mem \ {packet.payload}
  /\ pc' = "read"
  /\ UNCHANGED <<head, packet, prevNode, nextNode>>

Replace_KeepLink ==
  /\ Repeats /\ prevNode # NULL
  /\ heap' = [heap EXCEPT ![temp].next = heap[nextNode].next,
                          ![nextNode].live = FALSE]
  /\ mem' = mem \ {heap[nextNode].p.payload}
  /\ pc' = "read"
  /\ UNCHANGED <<head, packet, prevNode, nextNode>>

Replace ==
  /\ Repeats /\ prevNode # NULL
  /\ heap' = [heap EXCEPT ![prevNode].next = temp,
                          ![temp].next = heap[nextNode].next,
                          ![nextNode].live = FALSE]
  /\ mem' = mem \ {heap[nextNode].p.payload}
  /\ pc' = "read"
  /\ UNCHANGED <<head, packet, prevNode, nextNode>>

\* The first packet has no prevNode: prevNode->next is at address NULL.
ReplaceFirst ==
  /\ Repeats /\ prevNode = NULL
  /\ pc' = "crashed"
  /\ UNCHANGED <<heap, head, mem, packet, prevNode, nextNode>>

InsertBetween ==
  /\ Found /\ nextNode # NULL /\ Num(nextNode) # packet.num /\ prevNode # NULL
  /\ heap' = [heap EXCEPT ![temp].next = heap[prevNode].next, ![prevNode].next = temp]
  /\ pc' = "read"
  /\ UNCHANGED <<head, mem, packet, prevNode, nextNode>>

InsertFirst ==
  /\ Found /\ nextNode # NULL /\ Num(nextNode) # packet.num /\ prevNode = NULL
  /\ heap' = [heap EXCEPT ![temp].next = head]
  /\ head' = temp
  /\ pc' = "read"
  /\ UNCHANGED <<mem, packet, prevNode, nextNode>>

AddPacket ==
  \/ AddFirst \/ StartSearch \/ Search \/ AppendLast \/ Replace \/ ReplaceFirst
  \/ InsertBetween \/ InsertFirst

----------------------------------------------------------------------------

\* The packet in hand is not in the list; from StartSearch on it has a node.
InHand == pc \in {"add", "search", "crashed"}

Pending == IF pc \in {"search", "crashed"} THEN {temp} ELSE {}

Listed == {i \in 1 .. Len(heap) : heap[i].live} \ Pending

\* i is the node of S with the lowest number, NULL if there is none.
IsFirst(i, S) == IF S = {} THEN i = NULL ELSE i \in S /\ \A j \in S : Num(i) <= Num(j)

\* A walk from first meets each node of the list, in the order of the numbers.
InOrder(first) ==
  /\ IsFirst(first, Listed)
  /\ \A i \in Listed : IsFirst(heap[i].next, {j \in Listed : Num(i) < Num(j)})
  /\ \A i, j \in Listed : Num(i) = Num(j) => i = j

ListTypeOK ==
  /\ heap \in Seq(Node)
  /\ \A i \in 1 .. Len(heap) : heap[i].next \in 0 .. Len(heap)
  /\ {head, prevNode, nextNode} \subseteq 0 .. Len(heap)
  /\ mem \subseteq Nat
  /\ packet \in Packet
=============================================================================
