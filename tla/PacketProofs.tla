----------------------------- MODULE PacketProofs -----------------------------
(***************************************************************************)
(* PacketStream for every range of block numbers, every file and every     *)
(* sequence of packets: the list stays in order and its memory right,      *)
(* packetize writes the blocks in order, readstream puts the file together *)
(* and implements Reassembly.                                              *)
(***************************************************************************)
EXTENDS PacketStream, SequenceTheorems, TLAPS

Adding == pc \in {"read", "add", "search", "crashed"}
Ending == pc \in {"free", "exited"}

\* The payloads that were allocated so far: 1, 2, ...
Used == IF prog = "packetize" THEN counter ELSE Len(delivered) - Len(input)

\* A payload is newer than those of the list.
PayloadInv ==
  /\ InHand => packet.payload = Used /\ Used > 0
  /\ \A i \in Listed : heap[i].p.payload <= IF InHand THEN Used - 1 ELSE Used

\* addPacket's loop: temp is ready, prevNode and nextNode are neighbours, and the
\* packet belongs behind prevNode.
SearchInv ==
  pc \in {"search", "crashed"} =>
    /\ heap # << >> /\ heap[temp] = NewNode(packet) /\ Listed # {}
    /\ nextNode \in Listed \cup {NULL}
    /\ IF prevNode = NULL THEN nextNode = head
       ELSE /\ prevNode \in Listed /\ Num(prevNode) < packet.num
            /\ heap[prevNode].next = nextNode

\* The output loops have met the numbers below the one they are at.
CursorInv ==
  /\ pc = "write" => IsFirst(curr, {j \in Listed : Num(j) >= Len(outfile)})
  /\ pc = "print" => IsFirst(curr, {j \in Listed : Num(j) >= Len(out)})
  /\ pc = "exited" => curr = NULL

ListInv == TypeOK /\ ListInOrder /\ PayloadInv /\ SearchInv /\ CursorInv

-----------------------------------------------------------------------------
BlockData(b) == [block |-> b, kind |-> infile[b]]

\* The blocks packetize has put into the list.
Kept == IF InHand THEN counter - 1 ELSE counter

PacketizeInv ==
  prog = "packetize" =>
    /\ pc # "print" /\ input = << >> /\ delivered = << >> /\ out = << >>
    /\ counter <= Len(infile) /\ Kept \in 0 .. NumMod
    /\ InHand => /\ packet.num = BlockNum(Kept) /\ packet.data = BlockData(counter)
    /\ \A i \in Listed : heap[i].p.data = BlockData(Num(i) + 1) /\ Num(i) < Kept
    /\ ~Ending => \A k \in 0 .. Kept - 1 : \E i \in Listed : Num(i) = k
    /\ Adding => outfile = << >>
    /\ ~Adding => counter = Len(infile)
    /\ Ending => Len(outfile) = Len(infile)
    /\ Len(outfile) <= Len(infile)
    /\ \A b \in 1 .. Len(outfile) : outfile[b] = OnDisk(b - 1, BlockData(b), TRUE)

\* What readstream was given, and what it has of it.
Complete == (\A b \in 1 .. Len(outfile) : Arrived(outfile[b])) /\ ~Undetected

ReadInv ==
  prog = "readstream" =>
    /\ pc # "write" /\ PacketsInOrder
    /\ \A t \in 1 .. Len(delivered) : delivered[t] \in Copies
    /\ InHand => delivered[Used] = OnDisk(packet.num, packet.data, TRUE)
    /\ \A i \in Listed : \E t \in 1 .. Len(delivered) :
         delivered[t] = OnDisk(Num(i), heap[i].p.data, TRUE)
    /\ ~Ending => \A t \in 1 .. IF InHand THEN Used - 1 ELSE Used :
         delivered[t].crcOK => \E i \in Listed : Num(i) = delivered[t].num
    /\ Adding => out = << >> /\ counter = 0
    /\ ~Adding => input = << >>

PrintInv ==
  prog = "readstream" /\ ~Adding =>
    /\ counter = Len(out) /\ counter <= NumMod
    /\ pc = "print" /\ out # << >> => \E i \in Listed : Num(i) >= Len(out) - 1
    /\ \A i \in Listed : Num(i) < Len(out) => out[Num(i) + 1] = Shown(heap[i].p.data)
    /\ Ending => /\ \A i \in Listed : Num(i) < Len(out)
                 /\ Complete => out = [b \in 1 .. Len(infile) |-> Shown(BlockData(b))]

StreamInv == ListInv /\ PacketizeInv /\ ReadInv /\ PrintInv

-----------------------------------------------------------------------------
(* What addPacket does to the list, round by round.                        *)

\* What addPacket does to the list once the place is found: the packet is in, in
\* a node that is not one of the list's, and the node of the same number, if there
\* is one, is gone.  Number 0 never takes the place of another packet.
Repeated == {i \in Listed : Num(i) = packet.num}

Added ==
  /\ pc' = "read" /\ packet' = packet
  /\ temp' \in Nat \ {0} /\ temp' \notin Listed /\ heap'[temp'].p = packet
  /\ heap'[temp'].live /\ Len(heap) <= Len(heap')
  /\ \A i \in Listed : heap'[i].p = heap[i].p
  /\ Listed' = (Listed \ Repeated) \cup {temp'}
  /\ mem' = mem \ {heap[i].p.payload : i \in Repeated}
  /\ packet.num = 0 => Repeated = {}

LEMMA NodeFields ==
  ASSUME ListTypeOK, NEW i \in 1 .. Len(heap)
  PROVE  /\ heap[i] \in Node /\ heap[i].p \in Packet /\ heap[i].next \in 0 .. Len(heap)
         /\ heap[i].live \in BOOLEAN
         /\ Num(i) \in 0 .. NumMod - 1 /\ Num(i) \in Int /\ heap[i].p.data \in Datum
         /\ heap[i].p.payload \in Nat
<1>1. heap[i] \in Node
  BY DEF ListTypeOK
<1> QED BY SMTT(30), <1>1, NumModAssumption DEF ListTypeOK, Node, Packet, Num

LEMMA PacketFields ==
  ASSUME ListTypeOK
  PROVE  /\ packet.num \in 0 .. NumMod - 1 /\ packet.num \in Int
         /\ packet.data \in Datum /\ packet.payload \in Nat
         /\ NewNode(packet) \in Node
         /\ NewNode(packet).p = packet /\ NewNode(packet).next = NULL
         /\ NewNode(packet).live
BY NumModAssumption DEF ListTypeOK, Packet, Node, NewNode, NULL

LEMMA HeapFacts ==
  ASSUME ListTypeOK
  PROVE  Len(heap) \in Nat /\ Listed \subseteq 1 .. Len(heap) /\ NULL \notin Listed
BY DEF ListTypeOK, Listed, NULL

\* A malloc'ed node at the end of heap.
LEMMA GrownHeap ==
  ASSUME ListTypeOK, heap' = Append(heap, NewNode(packet))
  PROVE  /\ heap' \in Seq(Node) /\ Len(heap') = Len(heap) + 1
         /\ \A i \in 1 .. Len(heap) : heap'[i] = heap[i]
         /\ heap'[Len(heap) + 1] = NewNode(packet)
         /\ \A i \in 1 .. Len(heap') : heap'[i].next \in 0 .. Len(heap')
<1>1. heap \in Seq(Node) /\ NewNode(packet) \in Node /\ NewNode(packet).next = 0
  BY PacketFields DEF ListTypeOK, NULL
<1>2. /\ heap' \in Seq(Node) /\ Len(heap') = Len(heap) + 1
      /\ \A i \in 1 .. Len(heap) : heap'[i] = heap[i]
      /\ heap'[Len(heap) + 1] = NewNode(packet)
  BY <1>1, AppendProperties
<1>3. ASSUME NEW i \in 1 .. Len(heap') PROVE heap'[i].next \in 0 .. Len(heap')
  <2>1. CASE i = Len(heap) + 1
    BY <2>1, <1>1, <1>2, HeapFacts
  <2>2. CASE i # Len(heap) + 1
    BY <2>2, <1>2, HeapFacts DEF ListTypeOK
  <2> QED BY <2>1, <2>2
<1> QED BY <1>2, <1>3

\* What the nodes are after the packet was linked in: a is linked to the new node,
\* the new node to m, f is freed (NULL: nothing of the kind).
LinkedIn(a, m, f) ==
  /\ heap' \in Seq(Node) /\ Len(heap') = Len(heap)
  /\ \A i \in 1 .. Len(heap) :
       /\ heap'[i].p = heap[i].p
       /\ heap'[i].next = IF i = temp THEN m ELSE IF i = a THEN temp ELSE heap[i].next
       /\ heap'[i].live <=> heap[i].live /\ i # f

LEMMA SearchFacts ==
  ASSUME ListTypeOK, SearchInv, pc = "search"
  PROVE  /\ temp \in 1 .. Len(heap) /\ temp \notin Listed /\ temp # NULL
         /\ heap[temp].p = packet /\ heap[temp].next = NULL /\ heap[temp].live
         /\ Listed # {} /\ nextNode \in Listed \cup {NULL}
         /\ prevNode = NULL => nextNode = head
         /\ prevNode # NULL => /\ prevNode \in Listed /\ Num(prevNode) < packet.num
                               /\ heap[prevNode].next = nextNode
<1>1. heap # << >> /\ heap[temp] = NewNode(packet)
  BY DEF SearchInv
<1>2. temp \in 1 .. Len(heap) /\ temp # NULL
  BY <1>1, HeapFacts DEF temp, ListTypeOK, NULL
<1>3. temp \notin Listed
  BY DEF Listed, Pending
<1> QED BY <1>1, <1>2, <1>3 DEF SearchInv, NewNode

LEMMA NodeUpdate ==
  ASSUME NEW h \in Seq(Node), NEW i \in 1 .. Len(h), NEW n \in Node
  PROVE  LET g == [h EXCEPT ![i] = n]
         IN  /\ g \in Seq(Node) /\ Len(g) = Len(h)
             /\ \A j \in 1 .. Len(h) : g[j] = IF j = i THEN n ELSE h[j]
OBVIOUS

LEMMA LinkUpdate ==
  ASSUME NEW h \in Seq(Node), NEW i \in 1 .. Len(h), NEW m \in Nat
  PROVE  LET g == [h EXCEPT ![i].next = m]
         IN  /\ g \in Seq(Node) /\ Len(g) = Len(h)
             /\ \A j \in 1 .. Len(h) :
                  /\ g[j].p = h[j].p /\ g[j].live = h[j].live
                  /\ g[j].next = IF j = i THEN m ELSE h[j].next
<1>1. h[i] \in Node
  OBVIOUS
<1>2. [h[i] EXCEPT !.next = m] \in Node
  BY <1>1 DEF Node
<1>3. [h EXCEPT ![i].next = m] = [h EXCEPT ![i] = [h[i] EXCEPT !.next = m]]
  OBVIOUS
<1> QED BY <1>1, <1>2, <1>3, NodeUpdate DEF Node

LEMMA FreeUpdate ==
  ASSUME NEW h \in Seq(Node), NEW i \in 1 .. Len(h)
  PROVE  LET g == [h EXCEPT ![i].live = FALSE]
         IN  /\ g \in Seq(Node) /\ Len(g) = Len(h)
             /\ \A j \in 1 .. Len(h) :
                  /\ g[j].p = h[j].p /\ g[j].next = h[j].next
                  /\ g[j].live <=> h[j].live /\ j # i
<1>1. h[i] \in Node
  OBVIOUS
<1>2. [h[i] EXCEPT !.live = FALSE] \in Node
  BY <1>1 DEF Node
<1> DEFINE n == [h[i] EXCEPT !.live = FALSE]
<1>3. [h EXCEPT ![i].live = FALSE] = [h EXCEPT ![i] = n]
  OBVIOUS
<1>4. n.p = h[i].p /\ n.next = h[i].next /\ ~ n.live
  BY <1>1 DEF Node
<1> HIDE DEF n
<1> QED BY <1>2, <1>3, <1>4, NodeUpdate

LEMMA AppendLinks ==
  ASSUME ListTypeOK, SearchInv, AppendLast, prevNode # NULL
  PROVE  LinkedIn(prevNode, NULL, NULL)
<1>1. heap' = [heap EXCEPT ![prevNode].next = temp] /\ pc = "search"
  BY DEF AppendLast, Found
<1>2. prevNode \in 1 .. Len(heap) /\ temp \in Nat /\ prevNode # temp
  BY <1>1, SearchFacts, HeapFacts
<1>3. heap \in Seq(Node)
  BY DEF ListTypeOK
<1> QED BY <1>1, <1>2, <1>3, LinkUpdate, SearchFacts, NodeFields DEF LinkedIn, NULL

LEMMA ReplaceLinks ==
  ASSUME ListTypeOK, SearchInv, Replace
  PROVE  LinkedIn(prevNode, heap[nextNode].next, nextNode)
<1>1. /\ heap' = [heap EXCEPT ![prevNode].next = temp,
                              ![temp].next = heap[nextNode].next,
                              ![nextNode].live = FALSE]
      /\ pc = "search" /\ prevNode # NULL /\ nextNode # NULL
  BY DEF Replace, Repeats, Found
<1>2. /\ prevNode \in 1 .. Len(heap) /\ nextNode \in 1 .. Len(heap)
      /\ temp \in 1 .. Len(heap) /\ temp \in Nat /\ prevNode # temp
  BY <1>1, SearchFacts, HeapFacts
<1> DEFINE g == [heap EXCEPT ![prevNode].next = temp]
           h == [g EXCEPT ![temp].next = heap[nextNode].next]
<1>3. heap \in Seq(Node) /\ heap[nextNode].next \in Nat
  BY <1>2, NodeFields DEF ListTypeOK
<1>4. /\ g \in Seq(Node) /\ Len(g) = Len(heap)
      /\ \A j \in 1 .. Len(heap) :
           /\ g[j].p = heap[j].p /\ g[j].live = heap[j].live
           /\ g[j].next = IF j = prevNode THEN temp ELSE heap[j].next
  BY <1>2, <1>3, LinkUpdate
<1>5. /\ h \in Seq(Node) /\ Len(h) = Len(heap)
      /\ \A j \in 1 .. Len(heap) :
           /\ h[j].p = g[j].p /\ h[j].live = g[j].live
           /\ h[j].next = IF j = temp THEN heap[nextNode].next ELSE g[j].next
  <2> HIDE DEF g
  <2> QED BY <1>2, <1>3, <1>4, LinkUpdate
<1>6. heap' = [h EXCEPT ![nextNode].live = FALSE]
  BY <1>1
<1> HIDE DEF h, g
<1>7. /\ heap' \in Seq(Node) /\ Len(heap') = Len(heap)
      /\ \A j \in 1 .. Len(heap) :
           /\ heap'[j].p = h[j].p /\ heap'[j].next = h[j].next
           /\ heap'[j].live <=> h[j].live /\ j # nextNode
  BY <1>2, <1>5, <1>6, FreeUpdate
<1> QED BY <1>4, <1>5, <1>7 DEF LinkedIn

LEMMA BetweenLinks ==
  ASSUME ListTypeOK, SearchInv, InsertBetween
  PROVE  LinkedIn(prevNode, nextNode, NULL)
<1>1. /\ heap' = [heap EXCEPT ![temp].next = heap[prevNode].next,
                              ![prevNode].next = temp]
      /\ pc = "search" /\ prevNode # NULL
  BY DEF InsertBetween, Found
<1>2. /\ prevNode \in 1 .. Len(heap) /\ temp \in 1 .. Len(heap) /\ temp \in Nat
      /\ prevNode # temp /\ heap[prevNode].next = nextNode
  BY <1>1, SearchFacts, HeapFacts
<1> DEFINE g == [heap EXCEPT ![temp].next = heap[prevNode].next]
<1>3. heap \in Seq(Node) /\ nextNode \in Nat
  BY <1>2, NodeFields DEF ListTypeOK
<1>4. /\ g \in Seq(Node) /\ Len(g) = Len(heap)
      /\ \A j \in 1 .. Len(heap) :
           /\ g[j].p = heap[j].p /\ g[j].live = heap[j].live
           /\ g[j].next = IF j = temp THEN nextNode ELSE heap[j].next
  BY <1>2, <1>3, LinkUpdate
<1>5. heap' = [g EXCEPT ![prevNode].next = temp]
  BY <1>1
<1> HIDE DEF g
<1> QED BY <1>2, <1>4, <1>5, LinkUpdate, NodeFields DEF LinkedIn, NULL

LEMMA FirstLinks ==
  ASSUME ListTypeOK, SearchInv, InsertFirst
  PROVE  LinkedIn(NULL, head, NULL)
<1>1. heap' = [heap EXCEPT ![temp].next = head] /\ pc = "search"
  BY DEF InsertFirst, Found
<1>2. heap \in Seq(Node) /\ temp \in 1 .. Len(heap) /\ head \in Nat
  BY <1>1, SearchFacts, HeapFacts DEF ListTypeOK
<1> QED BY <1>1, <1>2, LinkUpdate, NodeFields DEF LinkedIn, NULL

\* The place that addPacket's loop finds is between the lower and the other numbers.
LEMMA Place ==
  ASSUME ListTypeOK, SearchInv, InOrder(head), Found
  PROVE  /\ prevNode # NULL => prevNode \in Listed /\ Num(prevNode) < packet.num
         /\ nextNode # NULL => nextNode \in Listed /\ packet.num <= Num(nextNode)
         /\ \A j \in Listed : \/ prevNode # NULL /\ Num(j) <= Num(prevNode)
                              \/ nextNode # NULL /\ Num(nextNode) <= Num(j)
<1>1. pc = "search" /\ (nextNode # NULL => packet.num <= Num(nextNode))
  BY SearchFacts, NodeFields, PacketFields, HeapFacts DEF Found, GoesBefore
<1>2. ASSUME NEW j \in Listed
      PROVE  \/ prevNode # NULL /\ Num(j) <= Num(prevNode)
             \/ nextNode # NULL /\ Num(nextNode) <= Num(j)
  <2>1. CASE prevNode = NULL
    BY <2>1, <1>1, SearchFacts, HeapFacts DEF InOrder, IsFirst
  <2>2. CASE prevNode # NULL /\ ~ (Num(j) <= Num(prevNode))
    <3>1. prevNode \in Listed /\ heap[prevNode].next = nextNode
      BY <2>2, <1>1, SearchFacts
    <3>2. j \in {k \in Listed : Num(prevNode) < Num(k)}
      BY <2>2, <3>1, NodeFields, HeapFacts
    <3>3. IsFirst(nextNode, {k \in Listed : Num(prevNode) < Num(k)})
      BY <3>1 DEF InOrder
    <3> QED BY <3>2, <3>3, HeapFacts DEF IsFirst
  <2> QED BY <2>1, <2>2
<1> QED BY <1>1, <1>2, SearchFacts

\* The packet is linked in at its place: the list is in order again.
LEMMA LinkedInOrder ==
  ASSUME ListTypeOK, SearchInv, InOrder(head), Found, pc' = "read", packet' = packet,
         NEW m \in 0 .. Len(heap), NEW f \in 0 .. Len(heap), LinkedIn(prevNode, m, f),
         head' = IF prevNode = NULL THEN temp ELSE head,
         \/ /\ nextNode # NULL /\ Num(nextNode) = packet.num /\ prevNode # NULL
            /\ f = nextNode /\ m = heap[nextNode].next
         \/ /\ nextNode = NULL \/ Num(nextNode) # packet.num
            /\ f = NULL /\ m = nextNode
  PROVE  /\ InOrder(head)'
         /\ Repeated = {f} \ {NULL}
         /\ Listed' = (Listed \ Repeated) \cup {temp}
<1>0. /\ \A i \in Listed : /\ i \in 1 .. Len(heap) /\ i # NULL /\ i \in Int
                              /\ Num(i) \in Int /\ heap[i].next \in 0 .. Len(heap)
      /\ packet.num \in Int /\ Len(heap) \in Nat
  BY HeapFacts, NodeFields, PacketFields
<1> USE <1>0
<1>1. /\ pc = "search" /\ temp \in 1 .. Len(heap) /\ temp \notin Listed /\ temp # NULL
      /\ heap[temp].live /\ heap[temp].p = packet
  BY SearchFacts DEF Found
<1>2. Repeated = {f} \ {NULL}
  <2>1. ASSUME NEW j \in Listed, Num(j) = packet.num PROVE j = f /\ j # NULL
    <3>1. nextNode \in Listed /\ nextNode # NULL /\ Num(nextNode) <= Num(j)
      BY <2>1, Place
    <3>2. Num(nextNode) = packet.num
      BY <2>1, <3>1, Place
    <3> QED BY <2>1, <3>1, <3>2 DEF InOrder
  <2>2. f # NULL => f \in Listed /\ Num(f) = packet.num
    BY Place
  <2> QED BY <2>1, <2>2 DEF Repeated
<1>3. Listed' = (Listed \ Repeated) \cup {temp}
  <2>1. Pending = {temp} /\ Pending' = {}
    BY <1>1 DEF Pending
  <2>2. Len(heap') = Len(heap) /\ f # temp
    BY <1>1, Place DEF LinkedIn
  <2>3. \A i \in 1 .. Len(heap) : heap'[i].live <=> heap[i].live /\ i # f
    BY DEF LinkedIn
  <2> QED BY <1>1, <1>2, <2>1, <2>2, <2>3 DEF Listed
<1>4. /\ \A i \in Listed : heap'[i].p.num = Num(i) /\ i # temp
      /\ heap'[temp].p.num = packet.num
      /\ \A i \in Listed' : i \in 1 .. Len(heap) /\ (i # temp => i \in Listed /\ i # f)
      /\ \A i \in Listed' : i = temp \/ Num(i) # packet.num
  BY <1>1, <1>2, <1>3 DEF LinkedIn, Num, Repeated
<1>5. IsFirst(head, Listed)'
  <2>1. temp \in Listed'
    BY <1>3
  <2>2. CASE prevNode = NULL
    <3>1. head' = temp
      BY <2>2
    <3>2. ASSUME NEW j \in Listed', j # temp PROVE packet.num <= Num(j)
      BY <3>2, <1>4, <2>2, Place DEF Num
    <3> QED BY <2>1, <3>1, <3>2, <1>4 DEF IsFirst, Num
  <2>3. CASE prevNode # NULL
    <3>1. head' = head /\ head \in Listed /\ \A j \in Listed : Num(head) <= Num(j)
      BY <2>3, Place DEF InOrder, IsFirst, Num
    <3>2. Num(head) < packet.num
      BY <2>3, <3>1, Place
    <3>3. head \in Listed'
      BY <3>1, <3>2, <1>3 DEF Repeated, Num
    <3> QED BY SMTT(30), <3>1, <3>2, <3>3, <1>4 DEF IsFirst, Num
  <2> QED BY <2>2, <2>3
<1>6. ASSUME NEW i \in Listed'
      PROVE  IsFirst(heap[i].next, {j \in Listed : Num(i) < Num(j)})'
  <2>1. CASE i = temp
    <3>1. heap'[i].next = m
      BY <2>1, <1>1 DEF LinkedIn, Num
    <3>2. {j \in Listed' : heap'[i].p.num < heap'[j].p.num} = {j \in Listed : packet.num < Num(j)}
      BY <2>1, <1>2, <1>3, <1>4 DEF Repeated, Num
    <3>3. IsFirst(m, {j \in Listed : packet.num < Num(j)})
      <4>1. CASE f # NULL
        <5>1. f \in Listed /\ Num(f) = packet.num /\ m = heap[f].next
          BY <4>1, Place
        <5> QED BY <5>1 DEF InOrder, Num
      <4>2. CASE f = NULL
        <5>1. m = nextNode
          BY <4>2
        <5>2. \A j \in Listed : packet.num < Num(j) => nextNode # NULL /\ Num(nextNode) <= Num(j)
          BY Place
        <5>3. nextNode # NULL => nextNode \in Listed /\ packet.num < Num(nextNode)
          BY <4>2, Place
        <5> QED BY <5>1, <5>2, <5>3 DEF IsFirst, Num
      <4> QED BY <4>1, <4>2
    <3> QED BY <3>1, <3>2, <3>3, <1>4 DEF IsFirst, Num
  <2>2. CASE i = prevNode /\ i # temp
    <3>1. heap'[i].next = temp /\ heap'[i].p.num = Num(i) /\ Num(i) < packet.num /\ i \in Listed
      BY <2>2, <1>4, Place DEF LinkedIn, Num
    <3>2. ASSUME NEW j \in Listed', Num(i) < heap'[j].p.num PROVE packet.num <= heap'[j].p.num
      BY SMTT(30), <3>1, <3>2, <2>2, <1>4, Place DEF Num
    <3>3. temp \in Listed'
      BY <1>3
    <3> QED BY <3>1, <3>2, <3>3, <1>4 DEF IsFirst, Num
  <2>3. CASE i # prevNode /\ i # temp /\ Num(i) < packet.num
    <3>1. heap'[i].next = heap[i].next /\ heap'[i].p.num = Num(i) /\ i \in Listed
      BY <2>3, <1>4 DEF LinkedIn, Num
    <3>2. prevNode \in Listed /\ Num(i) < Num(prevNode)
      <4>1. prevNode \in Listed /\ Num(i) <= Num(prevNode)
        BY <3>1, <2>3, Place
      <4>2. Num(i) # Num(prevNode)
        BY <4>1, <3>1, <2>3 DEF InOrder
      <4> QED BY <4>1, <4>2, <3>1
    <3>3. /\ heap[i].next \in Listed /\ Num(i) < Num(heap[i].next)
          /\ \A j \in Listed : Num(i) < Num(j) => Num(heap[i].next) <= Num(j)
      BY <3>1, <3>2 DEF InOrder, IsFirst, Num
    <3>4. Num(heap[i].next) < packet.num
      BY <3>2, <3>3, Place
    <3>5. heap[i].next \in Listed' /\ heap'[heap[i].next].p.num = Num(heap[i].next)
      BY <3>3, <3>4, <1>3, <1>4 DEF Repeated, Num
    <3>6. ASSUME NEW j \in Listed', Num(i) < heap'[j].p.num
          PROVE  Num(heap[i].next) <= heap'[j].p.num
      BY <3>3, <3>4, <3>6, <1>4
    <3> DEFINE S == {j \in Listed' : heap'[i].p.num < heap'[j].p.num}
    <3>7. heap[i].next \in S /\ S # {}
      BY <3>1, <3>3, <3>5
    <3>8. \A j \in S : heap'[heap[i].next].p.num <= heap'[j].p.num
      BY <3>1, <3>5, <3>6
    <3> QED BY <3>1, <3>7, <3>8 DEF IsFirst, Num
  <2>4. CASE i # prevNode /\ i # temp /\ packet.num < Num(i)
    <3>1. heap'[i].next = heap[i].next /\ heap'[i].p.num = Num(i) /\ i \in Listed
      BY <2>4, <1>4 DEF LinkedIn, Num
    <3>2. {j \in Listed' : heap'[i].p.num < heap'[j].p.num} = {j \in Listed : Num(i) < Num(j)}
      BY <3>1, <2>4, <1>3, <1>4 DEF Repeated, Num
    <3>3. IsFirst(heap[i].next, {j \in Listed : Num(i) < Num(j)})
      BY <3>1 DEF InOrder, Num
    <3> QED BY <3>1, <3>2, <3>3, <1>4 DEF IsFirst, Num
  <2> QED BY <2>1, <2>2, <2>3, <2>4, <1>4
<1>7. \A i, j \in Listed' : heap'[i].p.num = heap'[j].p.num => i = j
  BY <1>4 DEF InOrder, Num
<1> QED BY <1>2, <1>3, <1>5, <1>6, <1>7 DEF InOrder, Num

\* What linking the packet in gives, at any place.
LEMMA LinkedInAdds ==
  ASSUME ListTypeOK, SearchInv, InOrder(head), Found, pc' = "read", packet' = packet,
         NEW m \in 0 .. Len(heap), NEW f \in 0 .. Len(heap), LinkedIn(prevNode, m, f),
         head' = IF prevNode = NULL THEN temp ELSE head,
         prevNode' = prevNode, nextNode' = nextNode,
         mem' = mem \ {heap[i].p.payload : i \in {f} \ {NULL}},
         \/ /\ nextNode # NULL /\ Num(nextNode) = packet.num /\ prevNode # NULL
            /\ f = nextNode /\ m = heap[nextNode].next
         \/ /\ nextNode = NULL \/ Num(nextNode) # packet.num
            /\ f = NULL /\ m = nextNode
  PROVE  Added /\ InOrder(head)' /\ ListTypeOK'
<1>1. /\ InOrder(head)' /\ Repeated = {f} \ {NULL}
      /\ Listed' = (Listed \ Repeated) \cup {temp}
  BY LinkedInOrder
<1>2. /\ temp \in 1 .. Len(heap) /\ temp \notin Listed /\ heap[temp].p = packet
      /\ heap[temp].live /\ temp \in Nat /\ Len(heap) \in Nat
  BY SearchFacts, HeapFacts DEF Found
<1>3. f # temp /\ (packet.num = 0 => f = NULL)
  <2>1. f = NULL \/ f \in Listed
    BY Place
  <2>2. ASSUME f # NULL PROVE packet.num # 0
    <3>1. prevNode \in Listed /\ Num(prevNode) < packet.num
      BY <2>2, Place
    <3>2. Num(prevNode) \in 0 .. NumMod - 1
      BY <3>1, HeapFacts, NodeFields
    <3> QED BY <3>1, <3>2, PacketFields
  <2> QED BY <1>2, <2>1, <2>2 DEF NULL
<1>4. /\ heap' \in Seq(Node) /\ Len(heap') = Len(heap) /\ temp' = temp
      /\ \A i \in 1 .. Len(heap) : heap'[i].p = heap[i].p
      /\ \A i \in 1 .. Len(heap) : heap'[i].next \in 0 .. Len(heap)
      /\ heap'[temp].live
  <2>1. \A i \in 1 .. Len(heap) : heap[i].next \in 0 .. Len(heap)
    BY NodeFields
  <2> QED BY <1>2, <1>3, <2>1 DEF LinkedIn, temp
<1>5. Added
  BY <1>1, <1>2, <1>3, <1>4, HeapFacts DEF Added
<1>6. head' \in 0 .. Len(heap)
  BY <1>2 DEF ListTypeOK
<1>7. ListTypeOK'
  BY <1>4, <1>6 DEF ListTypeOK
<1> QED BY <1>1, <1>5, <1>7

LEMMA AddsToList ==
  ASSUME ListTypeOK, SearchInv, InOrder(head),
         AppendLast \/ Replace \/ InsertBetween \/ InsertFirst
  PROVE  Added /\ InOrder(head)' /\ ListTypeOK'
<1>1. Found /\ Len(heap) \in Nat /\ NULL \in 0 .. Len(heap)
  BY HeapFacts DEF AppendLast, Replace, Repeats, InsertBetween, InsertFirst, NULL
<1>2. pc = "search" /\ nextNode \in 0 .. Len(heap) /\ head \in 0 .. Len(heap)
  BY <1>1 DEF Found, ListTypeOK
<1>3. {heap[i].p.payload : i \in {NULL} \ {NULL}} = {} /\ mem \ {} = mem
  OBVIOUS
<1>4. CASE AppendLast
  <2>1. prevNode # NULL
    BY <1>1, <1>2, <1>4, Place, SearchFacts DEF AppendLast
  <2>2. LinkedIn(prevNode, NULL, NULL)
    BY <1>4, <2>1, AppendLinks
  <2> QED BY <1>1, <1>3, <1>4, <2>1, <2>2, LinkedInAdds DEF AppendLast
<1>5. CASE Replace
  <2>1. LinkedIn(prevNode, heap[nextNode].next, nextNode)
    BY <1>5, ReplaceLinks
  <2>2. nextNode # NULL /\ Num(nextNode) = packet.num /\ prevNode # NULL
    BY <1>5 DEF Replace, Repeats
  <2>3. heap[nextNode].next \in 0 .. Len(heap)
    BY <1>2, <2>2, NodeFields, HeapFacts DEF NULL
  <2>4. mem' = mem \ {heap[i].p.payload : i \in {nextNode} \ {NULL}}
    BY <1>5, <2>2 DEF Replace
  <2> QED BY <1>1, <1>2, <1>5, <2>1, <2>2, <2>3, <2>4, LinkedInAdds DEF Replace
<1>6. CASE InsertBetween
  <2>1. LinkedIn(prevNode, nextNode, NULL)
    BY <1>6, BetweenLinks
  <2> QED BY <1>1, <1>2, <1>3, <1>6, <2>1, LinkedInAdds DEF InsertBetween
<1>7. CASE InsertFirst
  <2>1. LinkedIn(prevNode, nextNode, NULL)
    BY <1>2, <1>7, FirstLinks, SearchFacts DEF InsertFirst
  <2> QED BY <1>1, <1>2, <1>3, <1>7, <2>1, LinkedInAdds DEF InsertFirst
<1> QED BY <1>4, <1>5, <1>6, <1>7

LEMMA AddFirstAdds ==
  ASSUME ListTypeOK, InOrder(head), AddFirst
  PROVE  Added /\ InOrder(head)' /\ ListTypeOK'
<1>1. Listed = {} /\ Pending = {} /\ Pending' = {}
  BY HeapFacts DEF AddFirst, InOrder, IsFirst, Pending
<1>2. /\ heap' \in Seq(Node) /\ Len(heap') = Len(heap) + 1
      /\ \A i \in 1 .. Len(heap) : heap'[i] = heap[i]
      /\ heap'[Len(heap) + 1] = NewNode(packet)
      /\ \A i \in 1 .. Len(heap') : heap'[i].next \in 0 .. Len(heap')
  BY GrownHeap DEF AddFirst
<1>3. /\ temp' = Len(heap) + 1 /\ Len(heap) \in Nat
      /\ heap'[temp'].p = packet /\ heap'[temp'].live /\ heap'[temp'].next = NULL
  BY <1>2, HeapFacts, PacketFields DEF temp
<1>4. Listed' = {temp'}
  <2>1. \A i \in 1 .. Len(heap) : ~ heap'[i].live
    BY <1>1, <1>2 DEF Listed
  <2> QED BY <1>1, <1>2, <1>3, <2>1 DEF Listed
<1>5. InOrder(head)'
  <2>1. head' = temp'
    BY <1>3 DEF AddFirst
  <2>2. heap'[temp'].p.num \in Int
    BY <1>3, PacketFields
  <2>3. {j \in Listed' : heap'[temp'].p.num < heap'[j].p.num} = {}
    BY <1>4, <2>2
  <2> QED BY <1>3, <1>4, <2>1, <2>2, <2>3 DEF InOrder, IsFirst, Num
<1>6. Added
  <2>1. Repeated = {} /\ {heap[i].p.payload : i \in Repeated} = {}
    BY <1>1 DEF Repeated
  <2> QED BY <1>1, <1>3, <1>4, <2>1 DEF Added, AddFirst
<1>7. ListTypeOK'
  BY <1>2, <1>3 DEF ListTypeOK, AddFirst
<1> QED BY <1>5, <1>6, <1>7

\* The payloads of the nodes and of the packet in hand are what is allocated.
LEMMA AddedPayloads ==
  ASSUME ListTypeOK, ListInOrder, PayloadInv, Used \in Int, Used' = Used, InHand, Added
  PROVE  /\ mem' = {heap'[i].p.payload : i \in Listed'}
         /\ \A i, j \in Listed' : heap'[i].p.payload = heap'[j].p.payload => i = j
         /\ \A i \in Listed' : heap'[i].p.payload <= Used
<1>1. /\ \A i \in Listed : heap'[i].p = heap[i].p
      /\ Listed' = (Listed \ Repeated) \cup {temp'} /\ temp' \notin Listed
      /\ heap'[temp'].p = packet
      /\ mem' = mem \ {heap[i].p.payload : i \in Repeated}
      /\ Repeated \subseteq Listed
  BY DEF Added, Repeated
<1>2. /\ mem = {heap[i].p.payload : i \in Listed} \cup {packet.payload}
      /\ \A i, j \in Listed : heap[i].p.payload = heap[j].p.payload => i = j
      /\ \A i \in Listed : heap[i].p.payload # packet.payload
      /\ packet.payload = Used
      /\ \A i \in Listed : heap[i].p.payload <= Used - 1 /\ heap[i].p.payload \in Int
  BY HeapFacts, NodeFields DEF ListInOrder, PayloadInv
<1>3. \A i, j \in Listed' : heap'[i].p.payload = heap'[j].p.payload => i = j
  BY <1>1, <1>2
<1>4. \A i \in Listed' : heap'[i].p.payload <= Used
  BY <1>1, <1>2
<1>5. ASSUME NEW x \in mem' PROVE x \in {heap'[i].p.payload : i \in Listed'}
  BY <1>1, <1>2
<1>6. ASSUME NEW i \in Listed' PROVE heap'[i].p.payload \in mem'
  <2>1. CASE i = temp'
    BY <2>1, <1>1, <1>2
  <2>2. CASE i \in Listed \ Repeated
    BY <2>2, <1>1, <1>2
  <2> QED BY <2>1, <2>2, <1>1
<1> QED BY <1>3, <1>4, <1>5, <1>6

LEMMA UsedType == TypeOK => Used \in Int /\ Len(delivered) \in Nat /\ Len(input) \in Nat
BY DEF TypeOK, Used

\* Numbers of up to NumMod + 1 blocks: only the last is a number that was given before.
LEMMA BlockNumWraps ==
  ASSUME NEW b \in 0 .. NumMod
  PROVE  BlockNum(b) = IF b = NumMod THEN 0 ELSE b
<1> DEFINE q == b \div NumMod
           r == b % NumMod
<1>1. NumMod \in Nat /\ NumMod >= 1 /\ b \in Nat /\ b <= NumMod
  BY NumModAssumption
<1>2. q \in Nat /\ r \in 0 .. NumMod - 1
  BY <1>1
<1>3. b = NumMod * q + r
  BY <1>1
<1> HIDE DEF q, r
<1>4. CASE q >= 2
  <2>1. NumMod * q >= NumMod * 2
    BY <1>1, <1>2, <1>4
  <2> QED BY <2>1, <1>1, <1>2, <1>3
<1>5. CASE q = 1
  BY <1>1, <1>2, <1>3, <1>5 DEF BlockNum, r
<1>6. CASE q = 0
  BY <1>1, <1>2, <1>3, <1>6 DEF BlockNum, r
<1> QED BY <1>2, <1>4, <1>5, <1>6

LEMMA AddedPacketize ==
  ASSUME StreamInv, InHand, Added, prog = "packetize",
         UNCHANGED <<prog, infile, counter, curr, outfile, delivered, input, out>>
  PROVE  PacketizeInv'
<1>0. /\ counter \in Int /\ NumMod \in Nat \ {0} /\ infile \in Seq({"text", "binary"})
      /\ pc \in {"add", "search", "crashed"} /\ ListTypeOK
  BY NumModAssumption, StreamAssumption DEF StreamInv, ListInv, TypeOK, InHand
<1>1. /\ input = << >> /\ delivered = << >> /\ out = << >> /\ outfile = << >>
      /\ counter <= Len(infile) /\ counter - 1 \in 0 .. NumMod
      /\ packet.num = BlockNum(counter - 1) /\ packet.data = BlockData(counter)
      /\ \A i \in Listed : heap[i].p.data = BlockData(Num(i) + 1) /\ Num(i) < counter - 1
      /\ \A k \in 0 .. counter - 2 : \E i \in Listed : Num(i) = k
  BY <1>0 DEF StreamInv, PacketizeInv, Kept, Adding, Ending, InHand
<1>3. /\ \A i \in Listed : heap'[i].p = heap[i].p
      /\ Listed' = (Listed \ Repeated) \cup {temp'} /\ heap'[temp'].p = packet
      /\ packet.num = 0 => Repeated = {}
      /\ pc' = "read"
  BY DEF Added
<1>4. counter - 1 < NumMod
  <2>1. SUFFICES ASSUME counter - 1 = NumMod PROVE FALSE
    BY <1>1, <1>0
  <2>2. packet.num = 0
    BY <2>1, <1>1, <1>0, BlockNumWraps
  <2>3. 0 \in 0 .. counter - 2
    BY <2>1, <1>0
  <2> QED BY <2>2, <2>3, <1>1, <1>3 DEF Repeated
<1>5. packet.num = counter - 1
  BY <1>1, <1>0, <1>4, BlockNumWraps
<1>6. \A i \in Listed' : /\ heap'[i].p.data = BlockData(heap'[i].p.num + 1)
                         /\ heap'[i].p.num < counter
  <2>1. ASSUME NEW i \in Listed
        PROVE  /\ heap[i].p.data = BlockData(heap[i].p.num + 1)
               /\ heap[i].p.num < counter /\ heap[i].p.num \in Int
    BY <1>1, <1>0, HeapFacts, NodeFields DEF Num
  <2>2. packet.data = BlockData(packet.num + 1) /\ packet.num < counter
    BY <1>1, <1>0, <1>5
  <2> QED BY <2>1, <2>2, <1>3
<1>7. \A k \in 0 .. counter - 1 : \E i \in Listed' : heap'[i].p.num = k
  <2>1. ASSUME NEW k \in 0 .. counter - 1 PROVE \E i \in Listed' : heap'[i].p.num = k
    <3>1. CASE k = counter - 1
      BY <3>1, <1>3, <1>5
    <3>2. CASE k # counter - 1
      <4>1. k \in 0 .. counter - 2 /\ k # packet.num
        BY <3>2, <1>0, <1>5
      <4>2. PICK i \in Listed : Num(i) = k
        BY <4>1, <1>1
      <4> QED BY <4>1, <4>2, <1>3 DEF Repeated, Num
    <3> QED BY <3>1, <3>2
  <2> QED BY <2>1
<1>8. Kept' = counter /\ ~ InHand' /\ Adding' /\ ~ Ending'
  BY <1>3 DEF Kept, InHand, Adding, Ending
<1>9. Len(outfile') = 0 /\ counter \in 0 .. NumMod
  BY <1>1, <1>0, <1>4
<1> QED BY SMTT(30), <1>1, <1>0, <1>3, <1>6, <1>7, <1>8, <1>9 DEF PacketizeInv, BlockData, Num

LEMMA AddedRead ==
  ASSUME StreamInv, InHand, Added, prog = "readstream",
         UNCHANGED <<prog, infile, counter, curr, outfile, delivered, input, out>>
  PROVE  ReadInv'
<1>1. /\ \A t \in 1 .. Len(delivered) : delivered[t] \in Copies
      /\ delivered[Used] = OnDisk(packet.num, packet.data, TRUE)
      /\ \A i \in Listed : \E t \in 1 .. Len(delivered) :
           delivered[t] = OnDisk(Num(i), heap[i].p.data, TRUE)
      /\ \A t \in 1 .. Used - 1 :
           delivered[t].crcOK => \E i \in Listed : Num(i) = delivered[t].num
      /\ out = << >> /\ counter = 0 /\ PacketsInOrder
  BY DEF StreamInv, ReadInv, Adding, Ending, InHand
<1>2. /\ \A i \in Listed : heap'[i].p = heap[i].p
      /\ Listed' = (Listed \ Repeated) \cup {temp'} /\ heap'[temp'].p = packet
      /\ pc' = "read"
  BY DEF Added
<1>3. /\ Used \in 1 .. Len(delivered) /\ Used' = Used /\ Used = Len(delivered) - Len(input)
      /\ Used \in Int /\ Len(delivered) \in Nat
  <2>1. Used > 0 /\ Used \in Int /\ Len(delivered) \in Nat /\ Len(input) \in Nat
    BY UsedType DEF StreamInv, ListInv, PayloadInv
  <2>2. Len(input) <= Len(delivered) /\ Used = Len(delivered) - Len(input)
    BY DEF StreamInv, ListInv, TypeOK, Used
  <2> QED BY <2>1, <2>2 DEF Used
<1>4. \A i \in Listed' : \E t \in 1 .. Len(delivered) :
        delivered[t] = OnDisk(heap'[i].p.num, heap'[i].p.data, TRUE)
  BY ZenonT(40), <1>1, <1>2, <1>3 DEF Num
<1>5. \A t \in 1 .. Used :
        delivered[t].crcOK => \E i \in Listed' : heap'[i].p.num = delivered[t].num
  <2>1. SUFFICES ASSUME NEW t \in 1 .. Used, delivered[t].crcOK
                 PROVE  \E i \in Listed' : heap'[i].p.num = delivered[t].num
    OBVIOUS
  <2>2. CASE delivered[t].num = packet.num
    BY <2>2, <1>2
  <2>3. CASE delivered[t].num # packet.num
    <3>1. t # Used
      BY <2>3, <1>1 DEF OnDisk
    <3>2. PICK i \in Listed : Num(i) = delivered[t].num
      BY <2>1, <3>1, <1>1, <1>3
    <3> QED BY <3>2, <2>3, <1>2 DEF Repeated, Num
  <2> QED BY <2>2, <2>3
<1>6. ~ InHand' /\ Adding' /\ PacketsInOrder'
  BY <1>1, <1>2 DEF InHand, Adding, PacketsInOrder
<1>7. Copies' = Copies
  BY DEF Copies
<1> QED BY <1>1, <1>2, <1>3, <1>4, <1>5, <1>6, <1>7 DEF ReadInv, Num

LEMMA AddedKeeps ==
  ASSUME StreamInv, InHand, Added, InOrder(head)', ListTypeOK',
         UNCHANGED <<prog, infile, counter, curr, outfile, delivered, input, out>>
  PROVE  StreamInv'
<1>1. TypeOK /\ ListTypeOK /\ ListInOrder /\ PayloadInv /\ Used \in Int /\ pc' = "read"
  BY UsedType DEF StreamInv, ListInv, TypeOK, Added
<1>2. TypeOK'
  <2>1. curr \in 0 .. Len(heap')
    BY SMTT(30), <1>1 DEF TypeOK, ListTypeOK, Added
  <2> QED BY <1>1, <2>1 DEF TypeOK, PCs
<1>3. Used' = Used
  BY DEF Used
<1>4. ~ InHand' /\ Adding'
  BY <1>1 DEF InHand, Adding
<1>5. /\ mem' = {heap'[i].p.payload : i \in Listed'}
      /\ \A i, j \in Listed' : heap'[i].p.payload = heap'[j].p.payload => i = j
      /\ \A i \in Listed' : heap'[i].p.payload <= Used
  BY <1>1, <1>3, AddedPayloads
<1>6. ListInOrder'
  BY <1>1, <1>4, <1>5 DEF ListInOrder
<1>7. PayloadInv' /\ SearchInv' /\ CursorInv'
  BY <1>1, <1>3, <1>4, <1>5 DEF PayloadInv, SearchInv, CursorInv
<1>8. PacketizeInv'
  BY <1>1, AddedPacketize DEF PacketizeInv
<1>9. ReadInv'
  BY <1>1, AddedRead DEF ReadInv
<1>10. PrintInv'
  BY <1>4 DEF PrintInv
<1> QED BY <1>2, <1>6, <1>7, <1>8, <1>9, <1>10 DEF StreamInv, ListInv

\* A round of addPacket that leaves the list as it is.
LEMMA SearchKeeps ==
  ASSUME StreamInv, InHand, pc' \in {"search", "crashed"}, packet' = packet,
         Listed' = Listed, head' = head, mem' = mem, Len(heap) <= Len(heap'),
         \A i \in Listed : heap'[i].p = heap[i].p /\ heap'[i].next = heap[i].next,
         ListTypeOK', SearchInv',
         UNCHANGED <<prog, infile, counter, curr, outfile, delivered, input, out>>
  PROVE  StreamInv'
<1>1. /\ TypeOK /\ ListTypeOK /\ ListInOrder /\ PayloadInv /\ PacketizeInv /\ ReadInv
      /\ pc \in {"add", "search", "crashed"}
  BY DEF StreamInv, ListInv, TypeOK, InHand
<1>2. TypeOK'
  <2>1. curr \in 0 .. Len(heap')
    BY <1>1 DEF TypeOK, ListTypeOK
  <2> QED BY <1>1, <2>1 DEF TypeOK, PCs
<1>3. Used' = Used /\ InHand' /\ Adding' /\ Adding /\ ~ Ending /\ ~ Ending'
  BY <1>1 DEF Used, InHand, Adding, Ending
<1>4. \A i \in Listed : heap'[i].p.num = Num(i)
  BY DEF Num
<1>5. InOrder(head) /\ mem = {heap[i].p.payload : i \in Listed} \cup {packet.payload}
  BY <1>1, <1>3 DEF ListInOrder
<1>6. InOrder(head)'
  <2>1. IsFirst(head, Listed)'
    BY <1>4, <1>5 DEF InOrder, IsFirst, Num
  <2>2. ASSUME NEW i \in Listed
        PROVE  IsFirst(heap[i].next, {j \in Listed : Num(i) < Num(j)})'
    <3>1. IsFirst(heap[i].next, {j \in Listed : Num(i) < Num(j)})
      BY <1>5 DEF InOrder
    <3>2. {j \in Listed' : heap'[i].p.num < heap'[j].p.num} = {j \in Listed : Num(i) < Num(j)}
      BY <1>4
    <3> QED BY <3>1, <3>2, <1>4 DEF IsFirst, Num
  <2>3. \A i, j \in Listed' : heap'[i].p.num = heap'[j].p.num => i = j
    BY <1>4, <1>5 DEF InOrder
  <2> QED BY <2>1, <2>2, <2>3 DEF InOrder, Num
<1>7. mem' = {heap'[i].p.payload : i \in Listed'} \cup {packet'.payload}
  BY <1>5
<1>8. ListInOrder'
  BY <1>1, <1>3, <1>6, <1>7 DEF ListInOrder, InHand
<1>9. PayloadInv' /\ CursorInv'
  BY <1>1, <1>3 DEF PayloadInv, CursorInv
<1>10. PacketizeInv'
  <2>1. SUFFICES ASSUME prog = "packetize" PROVE PacketizeInv'
    BY DEF PacketizeInv
  <2>2. Kept' = Kept /\ pc' # "print"
    BY <1>3 DEF Kept
  <2>3. \A i \in Listed : heap[i].p.data = BlockData(Num(i) + 1) /\ Num(i) < Kept
    BY <1>1, <2>1 DEF PacketizeInv
  <2>4. \A i \in Listed' : heap'[i].p.data = BlockData(heap'[i].p.num + 1)
                           /\ heap'[i].p.num < Kept
    BY <1>4, <2>3
  <2>5. \A k \in 0 .. Kept - 1 : \E i \in Listed' : heap'[i].p.num = k
    BY <1>1, <1>3, <1>4, <2>1 DEF PacketizeInv
  <2> QED BY <1>1, <1>3, <2>1, <2>2, <2>4, <2>5 DEF PacketizeInv, BlockData, Num, BlockNum
<1>11. ReadInv'
  <2>1. SUFFICES ASSUME prog = "readstream" PROVE ReadInv'
    BY DEF ReadInv
  <2>2. Copies' = Copies /\ PacketsInOrder' /\ pc' # "write"
    BY <1>1, <2>1 DEF Copies, PacketsInOrder, ReadInv
  <2>3. \A i \in Listed' : \E t \in 1 .. Len(delivered) :
          delivered[t] = OnDisk(heap'[i].p.num, heap'[i].p.data, TRUE)
    BY ZenonT(40), <1>1, <1>4, <2>1 DEF ReadInv, Num
  <2>4. \A t \in 1 .. Used - 1 :
          delivered[t].crcOK => \E i \in Listed' : heap'[i].p.num = delivered[t].num
    BY <1>1, <1>3, <1>4, <2>1 DEF ReadInv
  <2> QED BY <1>1, <1>3, <2>1, <2>2, <2>3, <2>4 DEF ReadInv, Num
<1>12. PrintInv'
  BY <1>3 DEF PrintInv
<1> QED BY <1>2, <1>8, <1>9, <1>10, <1>11, <1>12 DEF StreamInv, ListInv

LEMMA StartSearchKeeps ==
  ASSUME StreamInv, StartSearch,
         UNCHANGED <<prog, infile, counter, curr, outfile, delivered, input, out>>
  PROVE  StreamInv' /\ Listed' = Listed /\ \A i \in Listed : heap'[i].p = heap[i].p
<1>1. ListTypeOK /\ InOrder(head) /\ pc = "add" /\ InHand
  BY DEF StreamInv, ListInv, TypeOK, ListInOrder, StartSearch, InHand
<1>2. /\ heap' \in Seq(Node) /\ Len(heap') = Len(heap) + 1
      /\ \A i \in 1 .. Len(heap) : heap'[i] = heap[i]
      /\ heap'[Len(heap) + 1] = NewNode(packet)
      /\ \A i \in 1 .. Len(heap') : heap'[i].next \in 0 .. Len(heap')
  BY <1>1, GrownHeap DEF StartSearch
<1>3. temp' = Len(heap) + 1 /\ Len(heap) \in Nat
  BY <1>1, <1>2, HeapFacts DEF temp
<1>4. Listed' = Listed /\ Listed \subseteq 1 .. Len(heap)
  BY <1>1, <1>2, <1>3 DEF Listed, Pending, StartSearch
<1>5. /\ pc' = "search" /\ packet' = packet /\ prevNode' = NULL /\ nextNode' = head
      /\ head' = head /\ mem' = mem /\ head # NULL
  BY DEF StartSearch
<1>6. ListTypeOK'
  BY <1>1, <1>2, <1>3, <1>5 DEF ListTypeOK, NULL
<1>7. SearchInv'
  <2>1. head \in Listed
    BY <1>1, <1>5 DEF InOrder, IsFirst
  <2>2. heap' # << >>
    BY <1>2, <1>3
  <2>3. heap'[temp'] = NewNode(packet')
    BY <1>2, <1>3, <1>5
  <2> QED BY <1>4, <1>5, <2>1, <2>2, <2>3 DEF SearchInv, NewNode, NULL
<1>8. \A i \in Listed : heap'[i] = heap[i]
  BY <1>2, <1>4
<1> QED BY <1>1, <1>2, <1>3, <1>4, <1>5, <1>6, <1>7, <1>8, SearchKeeps

LEMMA SearchStepKeeps ==
  ASSUME StreamInv, Search \/ ReplaceFirst,
         UNCHANGED <<prog, infile, counter, curr, outfile, delivered, input, out>>
  PROVE  StreamInv' /\ Listed' = Listed /\ heap' = heap
<1>1. ListTypeOK /\ SearchInv /\ InOrder(head) /\ pc = "search" /\ InHand
  BY DEF StreamInv, ListInv, TypeOK, ListInOrder, Search, ReplaceFirst, Repeats,
         Found, InHand
<1>2. /\ pc' \in {"search", "crashed"} /\ packet' = packet /\ heap' = heap
      /\ head' = head /\ mem' = mem
  BY <1>1 DEF Search, ReplaceFirst
<1>3. temp' = temp /\ Listed' = Listed /\ Len(heap) \in Nat
  BY <1>1, <1>2, HeapFacts DEF temp, Listed, Pending
<1>4. CASE ReplaceFirst
  <2>1. ListTypeOK' /\ SearchInv'
    BY <1>1, <1>2, <1>3, <1>4 DEF ReplaceFirst, ListTypeOK, SearchInv, NewNode, Num
  <2> QED BY <1>1, <1>2, <1>3, <2>1, SearchKeeps
<1>5. CASE Search
  <2>1. /\ nextNode \in Listed /\ Num(nextNode) < packet.num /\ prevNode' = nextNode
        /\ nextNode' = heap[nextNode].next /\ pc' = "search" /\ nextNode # NULL
    BY <1>1, <1>5, SearchFacts DEF Search, GoesBefore
  <2>2. nextNode \in 1 .. Len(heap) /\ nextNode' \in 0 .. Len(heap)
    BY <1>1, <2>1, HeapFacts, NodeFields
  <2>3. nextNode' \in Listed \cup {NULL}
    BY <1>1, <2>1 DEF InOrder, IsFirst
  <2>4. ListTypeOK'
    BY <1>1, <1>2, <2>1, <2>2 DEF ListTypeOK
  <2>5. SearchInv'
    BY <1>1, <1>2, <1>3, <2>1, <2>3 DEF SearchInv, NewNode, Num
  <2> QED BY <1>1, <1>2, <1>3, <2>4, <2>5, SearchKeeps
<1> QED BY <1>4, <1>5

LEMMA AddStepKeeps == StreamInv /\ AddStep => StreamInv'
<1> SUFFICES ASSUME StreamInv, AddStep PROVE StreamInv'
  OBVIOUS
<1>1. /\ ListTypeOK /\ SearchInv
      /\ UNCHANGED <<prog, infile, counter, curr, outfile, delivered, input, out>>
  BY DEF StreamInv, ListInv, TypeOK, AddStep
<1>2. CASE AddFirst
  <2>1. InHand /\ InOrder(head)
    BY <1>2 DEF AddFirst, InHand, StreamInv, ListInv, ListInOrder
  <2> QED BY <1>1, <1>2, <2>1, AddFirstAdds, AddedKeeps
<1>3. CASE AppendLast \/ Replace \/ InsertBetween \/ InsertFirst
  <2>1. InHand /\ InOrder(head)
    BY <1>3 DEF AppendLast, Replace, Repeats, InsertBetween, InsertFirst, Found, InHand,
                StreamInv, ListInv, ListInOrder
  <2> QED BY <1>1, <1>3, <2>1, AddsToList, AddedKeeps
<1>4. CASE StartSearch
  BY <1>1, <1>4, StartSearchKeeps
<1>5. CASE Search \/ ReplaceFirst
  BY <1>1, <1>5, SearchStepKeeps
<1> QED BY <1>2, <1>3, <1>4, <1>5 DEF AddStep, AddPacket

-----------------------------------------------------------------------------
(* The other steps of packetize and readstream.                            *)

\* A block that was read, or a packet whose CRC is right, is in hand.
LEMMA NewPacket ==
  ASSUME StreamInv, pc = "read", pc' = "add", heap' = heap, head' = head,
         prevNode' = prevNode, nextNode' = nextNode, packet' \in Packet,
         packet'.payload = Used + 1, Used' = Used + 1, Used >= 0,
         mem' = mem \cup {Used + 1}
  PROVE  ListTypeOK' /\ ListInOrder' /\ PayloadInv' /\ SearchInv' /\ CursorInv'
         /\ Listed' = Listed
<1>1. /\ ListTypeOK /\ ListInOrder /\ PayloadInv /\ Used \in Int
  BY UsedType DEF StreamInv, ListInv, TypeOK
<1>2. ~ InHand /\ InHand' /\ Used + 1 \in Nat
  BY <1>1 DEF InHand
<1>3. Listed' = Listed
  BY DEF Listed, Pending
<1>4. ListTypeOK'
  BY <1>1, <1>2 DEF ListTypeOK
<1>5. \A i \in Listed : heap[i].p.payload <= Used /\ heap[i].p.payload \in Int
  BY <1>1, <1>2, HeapFacts, NodeFields DEF PayloadInv
<1>6. InOrder(head) /\ mem = {heap[i].p.payload : i \in Listed}
  BY <1>1, <1>2 DEF ListInOrder
<1>7. InOrder(head)'
  BY <1>3, <1>6 DEF InOrder, IsFirst, Num
<1>8. ListInOrder'
  <2>1. \A i \in Listed : heap[i].p.payload # packet'.payload
    BY <1>1, <1>5
  <2>2. \A i, j \in Listed : heap[i].p.payload = heap[j].p.payload => i = j
    BY <1>1 DEF ListInOrder
  <2>3. mem' = {heap[i].p.payload : i \in Listed} \cup {packet'.payload}
    BY <1>6
  <2> QED BY <1>2, <1>3, <1>7, <2>1, <2>2, <2>3 DEF ListInOrder
<1>9. PayloadInv'
  BY <1>1, <1>2, <1>3, <1>5 DEF PayloadInv
<1> QED BY <1>3, <1>4, <1>8, <1>9 DEF SearchInv, CursorInv

LEMMA BlockNumType == \A b \in Nat : BlockNum(b) \in 0 .. NumMod - 1
BY NumModAssumption DEF BlockNum

LEMMA PacketizeBlockKeeps == StreamInv /\ PacketizeBlock => StreamInv'
<1> SUFFICES ASSUME StreamInv, PacketizeBlock PROVE StreamInv'
  OBVIOUS
<1>1. /\ prog = "packetize" /\ pc = "read" /\ counter < Len(infile) /\ pc' = "add"
      /\ packet' = [num |-> BlockNum(counter), payload |-> counter + 1,
                    data |-> BlockData(counter + 1)]
      /\ counter' = counter + 1 /\ mem' = mem \cup {counter + 1}
      /\ UNCHANGED <<heap, head, prevNode, nextNode,
                     prog, infile, curr, outfile, delivered, input, out>>
  BY DEF PacketizeBlock, BlockData
<1>2. TypeOK /\ infile \in Seq({"text", "binary"}) /\ NumMod \in Nat
  BY NumModAssumption, StreamAssumption DEF StreamInv, ListInv, TypeOK
<1>3. counter \in Nat /\ counter \in 0 .. NumMod /\ Used = counter /\ Used' = counter + 1
  BY <1>1, <1>2 DEF TypeOK, Used, StreamInv, PacketizeInv, Kept, InHand
<1>4. packet' \in Packet
  <2>1. infile[counter + 1] \in {"text", "binary"}
    BY <1>1, <1>2, <1>3
  <2>2. BlockData(counter + 1) \in Datum
    BY <1>3, <2>1 DEF BlockData, Datum
  <2> QED BY <1>1, <1>3, <2>2, BlockNumType DEF Packet
<1>5. ListTypeOK' /\ ListInOrder' /\ PayloadInv' /\ SearchInv' /\ CursorInv'
      /\ Listed' = Listed
  BY <1>1, <1>3, <1>4, NewPacket
<1>6. TypeOK'
  BY <1>1, <1>2, <1>3, <1>5 DEF TypeOK, PCs
<1>7. /\ Kept = counter /\ Kept' = counter /\ InHand' /\ Adding' /\ ~ Ending'
      /\ Adding /\ ~ Ending
  BY <1>1, <1>3 DEF Kept, InHand, Adding, Ending
<1>8. /\ input = << >> /\ delivered = << >> /\ out = << >> /\ outfile = << >>
      /\ \A i \in Listed : heap[i].p.data = BlockData(Num(i) + 1) /\ Num(i) < counter
      /\ \A k \in 0 .. counter - 1 : \E i \in Listed : Num(i) = k
  BY <1>1, <1>7 DEF StreamInv, PacketizeInv
<1>9. PacketizeInv'
  <2>1. counter + 1 <= Len(infile)
    BY <1>1, <1>2, <1>3
  <2>2. packet'.num = BlockNum(counter) /\ packet'.data = BlockData(counter + 1)
    BY <1>1
  <2> QED BY <1>1, <1>3, <1>5, <1>7, <1>8, <2>1, <2>2
          DEF PacketizeInv, BlockData, Num, BlockNum
<1>10. ReadInv' /\ PrintInv'
  BY <1>1 DEF ReadInv, PrintInv
<1> QED BY <1>5, <1>6, <1>9, <1>10 DEF StreamInv, ListInv

\* The packet that is read next, and what is left of the input.
LEMMA NextInput ==
  ASSUME TypeOK, prog = "readstream", input # << >>, input' = Tail(input),
         delivered' = delivered, prog' = prog
  PROVE  /\ Head(input) \in FilePackets /\ Head(input) = delivered[Used + 1]
         /\ Used \in Nat /\ Used' = Used + 1 /\ Used + 1 <= Len(delivered)
         /\ Used = Len(delivered) - Len(input) /\ NewPayload = Used + 1
         /\ input' \in Seq(FilePackets) /\ Len(input') <= Len(delivered)
         /\ \A i \in 1 .. Len(input') :
              input'[i] = delivered[Len(delivered) - Len(input') + i]
<1>1. /\ input \in Seq(FilePackets) /\ Len(input) <= Len(delivered)
      /\ \A i \in 1 .. Len(input) : input[i] = delivered[Len(delivered) - Len(input) + i]
      /\ Len(input) \in Nat /\ Len(delivered) \in Nat
  BY UsedType DEF TypeOK
<1>2. /\ input' \in Seq(FilePackets) /\ Len(input') = Len(input) - 1
      /\ \A i \in 1 .. Len(input') : input'[i] = input[i + 1]
      /\ Head(input) = input[1] /\ Len(input) >= 1 /\ input[1] \in FilePackets
  BY <1>1, HeadTailProperties
<1>3. /\ Used = Len(delivered) - Len(input) /\ Used' = Len(delivered) - Len(input')
      /\ NewPayload = Used + 1
  BY <1>1 DEF Used, NewPayload
<1> QED BY <1>1, <1>2, <1>3

LEMMA AddsPacketKeeps == StreamInv /\ AddsPacket => StreamInv'
<1> SUFFICES ASSUME StreamInv, AddsPacket PROVE StreamInv'
  OBVIOUS
<1>1. /\ prog = "readstream" /\ pc = "read" /\ input # << >> /\ Head(input).crcOK
      /\ packet' = [num |-> Head(input).num, data |-> Head(input).data,
                    payload |-> NewPayload]
      /\ mem' = mem \cup {NewPayload} /\ input' = Tail(input) /\ pc' = "add"
      /\ UNCHANGED <<heap, head, prevNode, nextNode,
                     prog, infile, counter, curr, outfile, delivered, out>>
  BY DEF AddsPacket, ReadsPacket, CRCMatches
<1>2. TypeOK
  BY DEF StreamInv, ListInv
<1>3. /\ Head(input) \in FilePackets /\ Head(input) = delivered[Used + 1]
      /\ Used \in Nat /\ Used' = Used + 1 /\ Used + 1 <= Len(delivered)
      /\ Used = Len(delivered) - Len(input) /\ NewPayload = Used + 1
      /\ input' \in Seq(FilePackets) /\ Len(input') <= Len(delivered)
      /\ \A i \in 1 .. Len(input') :
           input'[i] = delivered[Len(delivered) - Len(input') + i]
  BY <1>1, <1>2, NextInput
<1>4. packet' \in Packet
  BY <1>1, <1>3 DEF Packet, FilePackets
<1>5. ListTypeOK' /\ ListInOrder' /\ PayloadInv' /\ SearchInv' /\ CursorInv'
      /\ Listed' = Listed
  BY <1>1, <1>3, <1>4, NewPacket
<1>6. TypeOK'
  BY <1>1, <1>2, <1>3, <1>5 DEF TypeOK, PCs
<1>7. ~ InHand /\ InHand' /\ Adding' /\ Adding /\ ~ Ending /\ ~ Ending'
  BY <1>1 DEF InHand, Adding, Ending
<1>8. /\ PacketsInOrder
      /\ \A t \in 1 .. Len(delivered) : delivered[t] \in Copies
      /\ \A i \in Listed : \E t \in 1 .. Len(delivered) :
           delivered[t] = OnDisk(Num(i), heap[i].p.data, TRUE)
      /\ \A t \in 1 .. Used :
           delivered[t].crcOK => \E i \in Listed : Num(i) = delivered[t].num
      /\ out = << >> /\ counter = 0
  BY <1>1, <1>7 DEF StreamInv, ReadInv
<1>9. delivered[Used + 1] = OnDisk(packet'.num, packet'.data, TRUE)
  BY <1>1, <1>3 DEF OnDisk, FilePackets
<1>10. ReadInv'
  <2>1. Copies' = Copies /\ PacketsInOrder'
    BY <1>1, <1>8 DEF Copies, PacketsInOrder
  <2>2. \A i \in Listed' : \E t \in 1 .. Len(delivered) :
          delivered[t] = OnDisk(heap'[i].p.num, heap'[i].p.data, TRUE)
    BY <1>1, <1>5, <1>8 DEF Num
  <2>3. Used' - 1 = Used
    BY <1>3
  <2>4. \A t \in 1 .. Used' - 1 :
          delivered[t].crcOK => \E i \in Listed' : heap'[i].p.num = delivered[t].num
    BY <1>1, <1>5, <1>8, <2>3 DEF Num
  <2> QED BY <1>1, <1>3, <1>7, <1>8, <1>9, <2>1, <2>2, <2>4 DEF ReadInv, Num
<1>11. PacketizeInv' /\ PrintInv'
  BY <1>1, <1>7 DEF PacketizeInv, PrintInv
<1> QED BY <1>5, <1>6, <1>10, <1>11 DEF StreamInv, ListInv

LEMMA RefusesPacketKeeps == StreamInv /\ RefusesPacket => StreamInv'
<1> SUFFICES ASSUME StreamInv, RefusesPacket PROVE StreamInv'
  OBVIOUS
<1>1. /\ prog = "readstream" /\ pc = "read" /\ input # << >> /\ ~ Head(input).crcOK
      /\ input' = Tail(input)
      /\ UNCHANGED <<listVars, prog, infile, counter, curr, outfile, delivered, out>>
  BY DEF RefusesPacket, ReadsPacket, CRCMatches
<1>2. TypeOK /\ ListTypeOK
  BY DEF StreamInv, ListInv, TypeOK
<1>3. /\ Head(input) = delivered[Used + 1]
      /\ Used \in Nat /\ Used' = Used + 1 /\ Used + 1 <= Len(delivered)
      /\ input' \in Seq(FilePackets) /\ Len(input') <= Len(delivered)
      /\ \A i \in 1 .. Len(input') :
           input'[i] = delivered[Len(delivered) - Len(input') + i]
  BY <1>1, <1>2, NextInput
<1>4. Listed' = Listed /\ ~ InHand /\ ~ InHand' /\ Adding' /\ Adding /\ ~ Ending /\ ~ Ending'
  BY <1>1 DEF listVars, Listed, Pending, InHand, Adding, Ending
<1>5. TypeOK'
  BY <1>1, <1>2, <1>3 DEF listVars, TypeOK, ListTypeOK
<1>6. ListInOrder'
  BY <1>1, <1>4 DEF listVars, StreamInv, ListInv, ListInOrder, InOrder, IsFirst, Num
<1>7. PayloadInv'
  <2>1. \A i \in Listed : heap[i].p.payload <= Used /\ heap[i].p.payload \in Int
    BY <1>2, <1>4, HeapFacts, NodeFields DEF StreamInv, ListInv, PayloadInv
  <2> QED BY <1>1, <1>3, <1>4, <2>1 DEF listVars, PayloadInv
<1>8. SearchInv' /\ CursorInv'
  BY <1>1 DEF listVars, SearchInv, CursorInv
<1>9. /\ PacketsInOrder
      /\ \A t \in 1 .. Len(delivered) : delivered[t] \in Copies
      /\ \A i \in Listed : \E t \in 1 .. Len(delivered) :
           delivered[t] = OnDisk(Num(i), heap[i].p.data, TRUE)
      /\ \A t \in 1 .. Used :
           delivered[t].crcOK => \E i \in Listed : Num(i) = delivered[t].num
      /\ out = << >> /\ counter = 0
  BY <1>1, <1>4 DEF StreamInv, ReadInv
<1>10. ReadInv'
  <2>1. Copies' = Copies /\ PacketsInOrder'
    BY <1>1, <1>9 DEF Copies, PacketsInOrder
  <2>2. \A t \in 1 .. Used + 1 :
          delivered[t].crcOK => \E i \in Listed : Num(i) = delivered[t].num
    <3>1. \A t \in 1 .. Used + 1 : t \in 1 .. Used \/ t = Used + 1
      BY <1>3
    <3>2. ~ delivered[Used + 1].crcOK
      BY <1>1, <1>3
    <3> QED BY <1>9, <3>1, <3>2
  <2> QED BY <1>1, <1>3, <1>4, <1>9, <2>1, <2>2 DEF listVars, ReadInv, Num
<1>11. PacketizeInv' /\ PrintInv'
  BY <1>1, <1>4 DEF PacketizeInv, PrintInv
<1> QED BY <1>5, <1>6, <1>7, <1>8, <1>10, <1>11 DEF StreamInv, ListInv

\* The steps that leave the list and what was read as they are.
LEMMA ListStays ==
  ASSUME StreamInv, ~ InHand, ~ InHand', pc' \in PCs,
         UNCHANGED <<heap, head, mem, packet, prevNode, nextNode,
                     prog, infile, delivered, input>>,
         \/ ~ Ending /\ ~ Ending'
         \/ ~ Ending /\ Ending' /\ curr' = head
         \/ Ending /\ Ending' /\ curr' = curr,
         prog = "packetize" => counter' = counter,
         (counter' \in 0 .. NumMod + 1) /\ curr' \in 0 .. Len(heap),
         outfile' \in Seq(FilePackets) /\ out' \in Seq(Datum)
  PROVE  /\ TypeOK' /\ ListInOrder' /\ PayloadInv' /\ SearchInv'
         /\ Listed' = Listed
<1>1. TypeOK /\ ListTypeOK /\ ListInOrder /\ PayloadInv
  BY DEF StreamInv, ListInv, TypeOK
<1>2. Listed' = Listed
  BY DEF Listed, Pending, InHand
<1>3. TypeOK'
  BY <1>1 DEF TypeOK, ListTypeOK
<1>4. \A i, j \in Listed : heap[i].p.payload = heap[j].p.payload => i = j
  BY <1>1 DEF ListInOrder
<1>5. PayloadInv'
  <2>1. Used' = Used
    BY DEF Used
  <2>2. \A i \in Listed : heap[i].p.payload <= Used
    BY <1>1 DEF PayloadInv
  <2> QED BY <1>2, <2>1, <2>2 DEF PayloadInv
<1>6. SearchInv'
  BY DEF SearchInv, InHand
<1>7. mem = {heap[i].p.payload : i \in Listed}
  BY <1>1 DEF ListInOrder
<1>8. InOrder(IF pc \in {"free", "exited"} THEN curr ELSE head)'
  <2>1. InOrder(IF Ending THEN curr ELSE head)
    BY <1>1 DEF ListInOrder, Ending
  <2>2. (IF Ending THEN curr ELSE head)' = IF Ending THEN curr ELSE head
    BY DEF Ending
  <2> DEFINE first == IF Ending THEN curr ELSE head
  <2>3. InOrder(first) /\ first' = first
    BY <2>1, <2>2
  <2> HIDE DEF first
  <2>4. InOrder(first)'
    BY <1>2, <2>3 DEF InOrder, IsFirst, Num
  <2> QED BY <2>4 DEF first, Ending
<1>9. ListInOrder'
  BY <1>2, <1>4, <1>7, <1>8 DEF ListInOrder
<1> QED BY <1>2, <1>3, <1>5, <1>6, <1>9

\* The node with the lowest number is the first from 0 on.
LEMMA FirstFromZero ==
  ASSUME ListTypeOK, InOrder(head)
  PROVE  IsFirst(head, {j \in Listed : Num(j) >= 0})
<1>1. \A j \in Listed : Num(j) >= 0
  BY HeapFacts, NodeFields
<1>2. {j \in Listed : Num(j) >= 0} = Listed
  BY <1>1
<1> QED BY <1>2 DEF InOrder

LEMMA EndOfFileKeeps == StreamInv /\ EndOfFile => StreamInv'
<1> SUFFICES ASSUME StreamInv, EndOfFile PROVE StreamInv'
  OBVIOUS
<1>1. /\ prog = "packetize" /\ pc = "read" /\ counter = Len(infile)
      /\ curr' = head /\ pc' = "write"
      /\ UNCHANGED <<heap, head, mem, packet, prevNode, nextNode,
                     prog, infile, counter, outfile, delivered, input, out>>
  BY DEF EndOfFile
<1>2. TypeOK /\ ListTypeOK /\ InOrder(head)
  BY <1>1 DEF StreamInv, ListInv, TypeOK, ListInOrder
<1>3. ~ InHand /\ ~ InHand' /\ ~ Ending /\ ~ Ending' /\ Adding /\ ~ Adding'
  BY <1>1 DEF InHand, Ending, Adding
<1>4. TypeOK' /\ ListInOrder' /\ PayloadInv' /\ SearchInv' /\ Listed' = Listed
  BY <1>1, <1>2, <1>3, ListStays DEF TypeOK, ListTypeOK, PCs
<1>5. outfile = << >>
  BY <1>1, <1>3 DEF StreamInv, PacketizeInv
<1>6. CursorInv'
  <2>1. IsFirst(head, {j \in Listed : Num(j) >= 0}) /\ Len(outfile) = 0
    BY <1>2, <1>5, FirstFromZero
  <2> QED BY <1>1, <1>4, <2>1 DEF CursorInv, IsFirst, Num
<1>7. Kept = counter /\ Kept' = counter
  BY <1>1, <1>3 DEF Kept
<1>8. PacketizeInv'
  BY <1>1, <1>3, <1>4, <1>5, <1>7 DEF StreamInv, PacketizeInv, BlockData, Num
<1>9. ReadInv' /\ PrintInv'
  BY <1>1 DEF ReadInv, PrintInv
<1> QED BY <1>4, <1>6, <1>8, <1>9 DEF StreamInv, ListInv

LEMMA EndOfPacketsKeeps == StreamInv /\ EndOfPackets => StreamInv'
<1> SUFFICES ASSUME StreamInv, EndOfPackets PROVE StreamInv'
  OBVIOUS
<1>1. /\ prog = "readstream" /\ pc = "read" /\ input = << >>
      /\ curr' = head /\ pc' = "print"
      /\ UNCHANGED <<heap, head, mem, packet, prevNode, nextNode,
                     prog, infile, counter, outfile, delivered, input, out>>
  BY DEF EndOfPackets
<1>2. TypeOK /\ ListTypeOK /\ InOrder(head)
  BY <1>1 DEF StreamInv, ListInv, TypeOK, ListInOrder
<1>3. ~ InHand /\ ~ InHand' /\ ~ Ending /\ ~ Ending' /\ Adding /\ ~ Adding'
  BY <1>1 DEF InHand, Ending, Adding
<1>4. TypeOK' /\ ListInOrder' /\ PayloadInv' /\ SearchInv' /\ Listed' = Listed
  BY <1>1, <1>2, <1>3, ListStays DEF TypeOK, ListTypeOK, PCs
<1>5. out = << >> /\ counter = 0
  BY <1>1, <1>3 DEF StreamInv, ReadInv
<1>6. CursorInv'
  <2>1. IsFirst(head, {j \in Listed : Num(j) >= 0}) /\ Len(out) = 0
    BY <1>2, <1>5, FirstFromZero
  <2> QED BY <1>1, <1>4, <2>1 DEF CursorInv, IsFirst, Num
<1>7. PacketizeInv'
  BY <1>1 DEF PacketizeInv
<1>8. ReadInv'
  <2>1. Copies' = Copies /\ PacketsInOrder' /\ Used' = Used
    BY <1>1 DEF Copies, PacketsInOrder, Used, StreamInv, ReadInv
  <2> QED BY <1>1, <1>3, <1>4, <2>1 DEF StreamInv, ReadInv, Num
<1>9. PrintInv'
  <2>1. \A i \in Listed : Num(i) >= 0 /\ Num(i) \in Int
    BY <1>2, HeapFacts, NodeFields
  <2> QED BY <1>1, <1>3, <1>4, <1>5, <2>1, NumModAssumption DEF PrintInv, Num
<1> QED BY <1>4, <1>6, <1>7, <1>8, <1>9 DEF StreamInv, ListInv

\* packetize's file, block by block.
LEMMA PacketsOfFile ==
  ASSUME TypeOK, PacketsInOrder, prog = "readstream" \/ pc = "exited"
  PROVE  /\ Len(outfile) = Len(infile) /\ Len(infile) \in Nat
         /\ \A b \in 1 .. Len(infile) :
              /\ outfile[b] = OnDisk(b - 1, BlockData(b), TRUE)
              /\ BlockData(b) \in Datum /\ BlockData(b).kind # "changed"
<1>1. infile \in Seq({"text", "binary"}) /\ Len(infile) \in Nat
  BY StreamAssumption DEF TypeOK
<1>2. outfile = [b \in 1 .. Len(infile) |-> OnDisk(b - 1, BlockData(b), TRUE)]
  BY DEF PacketsInOrder, BlockData
<1>3. Len(outfile) = Len(infile)
  BY <1>1, <1>2
<1>4. \A b \in 1 .. Len(infile) : BlockData(b) \in Datum /\ BlockData(b).kind # "changed"
  BY <1>1 DEF BlockData, Datum
<1> QED BY <1>1, <1>2, <1>3, <1>4

\* What the list holds is what was in the file.
LEMMA StoredWhole ==
  ASSUME StreamInv, prog = "readstream", Complete, NEW i \in Listed
  PROVE  Num(i) + 1 \in 1 .. Len(infile) /\ heap[i].p.data = BlockData(Num(i) + 1)
<1>1. /\ TypeOK /\ PacketsInOrder /\ ~ Undetected
      /\ \A t \in 1 .. Len(delivered) : delivered[t] \in Copies
      /\ \E t \in 1 .. Len(delivered) : delivered[t] = OnDisk(Num(i), heap[i].p.data, TRUE)
  BY DEF StreamInv, ListInv, ReadInv, Complete
<1>2. PICK t \in 1 .. Len(delivered) : delivered[t] = OnDisk(Num(i), heap[i].p.data, TRUE)
  BY <1>1
<1>3. PICK b \in 1 .. Len(outfile) : delivered[t] \in CopiesOf(outfile[b])
  BY <1>1 DEF Copies
<1>4. /\ b \in 1 .. Len(infile) /\ b \in Int /\ outfile[b] = OnDisk(b - 1, BlockData(b), TRUE)
      /\ BlockData(b) \in Datum
  <2>1. Len(outfile) = Len(infile) /\ Len(infile) \in Nat
    BY <1>1, PacketsOfFile
  <2>2. b \in 1 .. Len(infile)
    BY <2>1, <1>3
  <2>3. \A d \in 1 .. Len(infile) :
          outfile[d] = OnDisk(d - 1, BlockData(d), TRUE) /\ BlockData(d) \in Datum
    BY <1>1, PacketsOfFile
  <2> QED BY <2>1, <2>2, <2>3 DEF OnDisk, BlockData
<1>5. delivered[t].crcOK /\ delivered[t].data.kind # "changed"
  BY <1>1, <1>2 DEF Undetected, OnDisk
<1>6. Changed(BlockData(b)).kind = "changed"
  BY <1>4 DEF Changed, Datum
<1>7. delivered[t] = OnDisk(b - 1, BlockData(b), TRUE)
  <2> DEFINE p == outfile[b]
  <2>1. p.num = b - 1 /\ p.data = BlockData(b)
    BY <1>4 DEF OnDisk
  <2>2. \/ delivered[t] = p
        \/ delivered[t] = OnDisk(p.num, Changed(p.data), FALSE)
        \/ delivered[t] = OnDisk(p.num, Changed(p.data), TRUE)
    BY <1>3 DEF CopiesOf
  <2>3. delivered[t] # OnDisk(p.num, Changed(p.data), FALSE)
    BY <1>5 DEF OnDisk
  <2>4. delivered[t] # OnDisk(p.num, Changed(p.data), TRUE)
    BY <1>5, <1>6, <2>1 DEF OnDisk
  <2> QED BY <1>4, <2>2, <2>3, <2>4
<1>8. Num(i) = b - 1 /\ heap[i].p.data = BlockData(b)
  BY <1>2, <1>7 DEF OnDisk
<1> QED BY <1>4, <1>8

\* Once every packet came whole, the output is the file.
LEMMA WholeFile ==
  ASSUME StreamInv, prog = "readstream", pc = "print", Complete,
         \A i \in Listed : Num(i) < Len(out)
  PROVE  out = [b \in 1 .. Len(infile) |-> Shown(BlockData(b))]
<1>1. /\ TypeOK /\ ListTypeOK /\ PacketsInOrder /\ out \in Seq(Datum)
      /\ ~ InHand /\ ~ Ending /\ ~ Adding
  BY DEF StreamInv, ListInv, ReadInv, TypeOK, InHand, Ending, Adding
<1>2. input = << >> /\ Used = Len(delivered)
  BY <1>1, UsedType DEF StreamInv, ReadInv, Used
<1>3. ASSUME NEW b \in 1 .. Len(infile) PROVE \E i \in Listed : Num(i) = b - 1
  <2>1. outfile[b] = OnDisk(b - 1, BlockData(b), TRUE) /\ b \in 1 .. Len(outfile)
    BY <1>1, PacketsOfFile
  <2>2. PICK t \in 1 .. Len(delivered) : delivered[t] = outfile[b]
    BY <2>1 DEF Complete, Arrived
  <2>3. delivered[t].crcOK /\ delivered[t].num = b - 1
    BY <2>1, <2>2 DEF OnDisk
  <2> QED BY <1>1, <1>2, <2>3 DEF StreamInv, ReadInv
<1>4. Len(out) \in Nat /\ Len(infile) \in Nat
  BY <1>1, PacketsOfFile
<1>5. Len(out) >= Len(infile)
  <2>1. CASE Len(infile) = 0
    BY <2>1, <1>4
  <2>2. CASE Len(infile) # 0
    <3>1. PICK i \in Listed : Num(i) = Len(infile) - 1
      BY <2>2, <1>3, <1>4
    <3> QED BY <3>1, <1>4
  <2> QED BY <2>1, <2>2
<1>6. Len(out) <= Len(infile)
  <2>1. CASE out = << >>
    BY <2>1, <1>4
  <2>2. CASE out # << >>
    <3>1. PICK i \in Listed : Num(i) >= Len(out) - 1
      BY <2>2, <1>1 DEF StreamInv, PrintInv
    <3>2. Num(i) + 1 \in 1 .. Len(infile) /\ Num(i) \in Int
      BY <1>1, StoredWhole, HeapFacts, NodeFields
    <3> QED BY <3>1, <3>2, <1>4
  <2> QED BY <2>1, <2>2
<1>7. ASSUME NEW b \in 1 .. Len(infile) PROVE out[b] = Shown(BlockData(b))
  <2>1. PICK i \in Listed : Num(i) = b - 1
    BY <1>3
  <2>2. heap[i].p.data = BlockData(b) /\ Num(i) + 1 = b
    BY <2>1, StoredWhole
  <2>3. out[Num(i) + 1] = Shown(heap[i].p.data)
    BY <1>1 DEF StreamInv, PrintInv
  <2> QED BY <2>2, <2>3
<1> QED BY <1>1, <1>4, <1>5, <1>6, <1>7

LEMMA WritePacketKeeps == StreamInv /\ WritePacket => StreamInv'
<1> SUFFICES ASSUME StreamInv, WritePacket PROVE StreamInv'
  OBVIOUS
<1>1. /\ pc = "write" /\ curr # NULL
      /\ outfile' = Append(outfile, OnDisk(Num(curr), heap[curr].p.data, TRUE))
      /\ curr' = heap[curr].next
      /\ UNCHANGED <<listVars, prog, infile, counter, delivered, input, out>>
  BY DEF WritePacket
<1>2. TypeOK /\ ListTypeOK /\ InOrder(head) /\ prog = "packetize"
  BY <1>1 DEF StreamInv, ListInv, TypeOK, ListInOrder, ReadInv
<1>3. ~ InHand /\ ~ InHand' /\ ~ Ending /\ ~ Ending' /\ ~ Adding /\ ~ Adding'
      /\ Kept = counter /\ Kept' = counter
  BY <1>1 DEF listVars, InHand, Ending, Adding, Kept
<1>4. /\ counter = Len(infile) /\ Len(outfile) <= Len(infile)
      /\ \A i \in Listed : heap[i].p.data = BlockData(Num(i) + 1) /\ Num(i) < counter
      /\ \A k \in 0 .. counter - 1 : \E i \in Listed : Num(i) = k
      /\ \A b \in 1 .. Len(outfile) : outfile[b] = OnDisk(b - 1, BlockData(b), TRUE)
  BY <1>2, <1>3 DEF StreamInv, PacketizeInv
<1> DEFINE n == Len(outfile)
<1>5. outfile \in Seq(FilePackets) /\ n \in Nat /\ counter \in Int /\ Len(infile) \in Nat
  BY <1>2, <1>4, StreamAssumption DEF TypeOK
<1>6. \A i \in Listed : Num(i) \in Int
  BY <1>2, HeapFacts, NodeFields
<1>7. /\ curr \in Listed /\ Num(curr) >= n
      /\ \A j \in Listed : Num(j) >= n => Num(curr) <= Num(j)
  BY <1>1 DEF StreamInv, ListInv, CursorInv, IsFirst
<1>8. Num(curr) = n /\ n + 1 <= Len(infile)
  <2>1. Num(curr) < counter
    BY <1>4, <1>7
  <2>2. n \in 0 .. counter - 1
    BY <1>5, <1>6, <1>7, <2>1
  <2>3. PICK i \in Listed : Num(i) = n
    BY <1>4, <2>2
  <2> QED BY <1>4, <1>5, <1>6, <1>7, <2>1, <2>3
<1>9. /\ curr \in 1 .. Len(heap) /\ heap[curr].next \in 0 .. Len(heap)
      /\ heap[curr].p.data = BlockData(n + 1) /\ heap[curr].p.data \in Datum
      /\ n \in 0 .. NumMod - 1
  BY <1>2, <1>4, <1>7, <1>8, HeapFacts, NodeFields
<1>10. OnDisk(Num(curr), heap[curr].p.data, TRUE) = OnDisk(n, BlockData(n + 1), TRUE)
       /\ OnDisk(n, BlockData(n + 1), TRUE) \in FilePackets
  BY <1>8, <1>9 DEF OnDisk, FilePackets
<1>11. /\ outfile' \in Seq(FilePackets) /\ Len(outfile') = n + 1
       /\ \A b \in 1 .. n : outfile'[b] = outfile[b]
       /\ outfile'[n + 1] = OnDisk(n, BlockData(n + 1), TRUE)
  <2> DEFINE p == OnDisk(n, BlockData(n + 1), TRUE)
  <2>1. outfile' = Append(outfile, p) /\ p \in FilePackets
    BY <1>1, <1>10
  <2> HIDE DEF p
  <2>2. /\ outfile' \in Seq(FilePackets) /\ Len(outfile') = n + 1
        /\ \A b \in 1 .. n : outfile'[b] = outfile[b]
        /\ outfile'[n + 1] = p
    BY <1>5, <2>1, AppendProperties
  <2> QED BY <2>2 DEF p
<1>12. TypeOK' /\ ListInOrder' /\ PayloadInv' /\ SearchInv' /\ Listed' = Listed
  BY <1>1, <1>2, <1>3, <1>9, <1>11, ListStays DEF listVars, TypeOK, PCs
<1>13. CursorInv'
  <2>1. IsFirst(heap[curr].next, {j \in Listed : Num(curr) < Num(j)})
    BY <1>2, <1>7 DEF InOrder
  <2>2. {j \in Listed : Num(curr) < Num(j)} = {j \in Listed : Num(j) >= n + 1}
    BY <1>5, <1>6, <1>8
  <2> QED BY <1>1, <1>11, <1>12, <2>1, <2>2 DEF listVars, CursorInv, IsFirst, Num
<1>14. PacketizeInv'
  <2>1. SUFFICES ASSUME NEW b \in 1 .. n + 1
                 PROVE  outfile'[b] = OnDisk(b - 1, BlockData(b), TRUE)
    BY <1>1, <1>2, <1>3, <1>4, <1>8, <1>11, <1>12
       DEF listVars, StreamInv, PacketizeInv, BlockData, Num
  <2>2. CASE b \in 1 .. n
    BY <2>2, <1>4, <1>11
  <2>3. CASE b = n + 1
    BY <2>3, <1>5, <1>11 DEF OnDisk, BlockData
  <2>4. b \in 1 .. n \/ b = n + 1
    BY <1>5
  <2> QED BY <2>2, <2>3, <2>4
<1>15. ReadInv' /\ PrintInv'
  BY <1>1, <1>2 DEF ReadInv, PrintInv
<1> QED BY <1>12, <1>13, <1>14, <1>15 DEF StreamInv, ListInv

LEMMA ExitKeeps == StreamInv /\ Exit => StreamInv'
<1> SUFFICES ASSUME StreamInv, Exit PROVE StreamInv'
  OBVIOUS
<1>1. /\ pc = "free" /\ curr = NULL /\ pc' = "exited"
      /\ UNCHANGED <<heap, head, mem, packet, prevNode, nextNode,
                     prog, infile, counter, curr, outfile, delivered, input, out>>
  BY DEF Exit
<1>2. ~ InHand /\ ~ InHand' /\ Ending /\ Ending' /\ ~ Adding /\ ~ Adding'
      /\ Kept = counter /\ Kept' = counter
  BY <1>1 DEF InHand, Ending, Adding, Kept
<1>3. TypeOK' /\ ListInOrder' /\ PayloadInv' /\ SearchInv' /\ Listed' = Listed
  BY <1>1, <1>2, ListStays DEF StreamInv, ListInv, TypeOK, PCs
<1>4. CursorInv'
  BY <1>1 DEF CursorInv
<1>5. PacketizeInv'
  BY <1>1, <1>2, <1>3 DEF StreamInv, PacketizeInv, BlockData, Num
<1>6. ReadInv'
  <2>1. prog = "readstream" => PacketsInOrder'
    BY <1>1 DEF PacketsInOrder, StreamInv, ReadInv
  <2>2. Copies' = Copies /\ Used' = Used
    BY <1>1 DEF Copies, Used
  <2> QED BY <1>1, <1>2, <1>3, <2>1, <2>2 DEF StreamInv, ReadInv, Num
<1>7. PrintInv'
  BY <1>1, <1>2, <1>3
     DEF StreamInv, PrintInv, Num, Complete, Arrived, Undetected, BlockData, Shown
<1> QED BY <1>3, <1>4, <1>5, <1>6, <1>7 DEF StreamInv, ListInv

LEMMA StartFreeKeeps == StreamInv /\ StartFree => StreamInv'
<1> SUFFICES ASSUME StreamInv, StartFree PROVE StreamInv'
  OBVIOUS
<1>1. /\ pc \in {"write", "print"} /\ curr = NULL /\ curr' = head /\ pc' = "free"
      /\ UNCHANGED <<heap, head, mem, packet, prevNode, nextNode,
                     prog, infile, counter, outfile, delivered, input, out>>
  BY DEF StartFree
<1>2. ~ InHand /\ ~ InHand' /\ ~ Ending /\ Ending' /\ ~ Adding /\ ~ Adding'
      /\ Kept = counter /\ Kept' = counter
  BY <1>1 DEF InHand, Ending, Adding, Kept
<1>3. TypeOK /\ ListTypeOK
  BY DEF StreamInv, ListInv, TypeOK
<1>4. TypeOK' /\ ListInOrder' /\ PayloadInv' /\ SearchInv' /\ Listed' = Listed
  BY <1>1, <1>2, <1>3, ListStays DEF TypeOK, ListTypeOK, PCs
<1>5. CursorInv'
  BY <1>1 DEF CursorInv
<1>6. \A i \in Listed : i # NULL /\ Num(i) \in Int
  BY <1>3, HeapFacts, NodeFields
<1>7. PacketizeInv'
  <2>1. SUFFICES ASSUME prog = "packetize" PROVE PacketizeInv'
    BY <1>1 DEF PacketizeInv
  <2>2. /\ pc = "write" /\ counter = Len(infile) /\ Len(outfile) <= Len(infile)
        /\ \A k \in 0 .. counter - 1 : \E i \in Listed : Num(i) = k
    BY <1>1, <1>2, <2>1 DEF StreamInv, PacketizeInv
  <2>3. ~ \E j \in Listed : Num(j) >= Len(outfile)
    BY <1>1, <1>6, <2>2 DEF StreamInv, ListInv, CursorInv, IsFirst
  <2>4. Len(outfile) \in Nat /\ counter \in Int
    BY <1>3 DEF TypeOK
  <2>5. Len(outfile) = Len(infile)
    <3>1. CASE Len(outfile) < Len(infile)
      <4>1. Len(outfile) \in 0 .. counter - 1
        BY <3>1, <2>2, <2>4
      <4> QED BY <4>1, <2>2, <2>3, <2>4
    <3> QED BY <3>1, <2>2, <2>4
  <2> QED BY <1>1, <1>2, <1>4, <2>1, <2>5 DEF StreamInv, PacketizeInv, BlockData, Num
<1>8. ReadInv'
  <2>1. prog = "readstream" => PacketsInOrder'
    BY <1>1 DEF PacketsInOrder, StreamInv, ReadInv
  <2>2. Copies' = Copies /\ Used' = Used
    BY <1>1 DEF Copies, Used
  <2> QED BY <1>1, <1>2, <1>4, <2>1, <2>2 DEF StreamInv, ReadInv, Num
<1>9. PrintInv'
  <2>1. SUFFICES ASSUME prog = "readstream" PROVE PrintInv'
    BY <1>1 DEF PrintInv
  <2>2. pc = "print" /\ Len(out) \in Int
    BY <1>1, <1>3, <2>1 DEF StreamInv, ReadInv, TypeOK
  <2>3. \A j \in Listed : Num(j) < Len(out)
    BY <1>1, <1>6, <2>2 DEF StreamInv, ListInv, CursorInv, IsFirst
  <2>4. Complete => out = [b \in 1 .. Len(infile) |-> Shown(BlockData(b))]
    BY <2>1, <2>2, <2>3, WholeFile
  <2>5. Complete' = Complete /\ \A b : Shown(BlockData(b))' = Shown(BlockData(b))
    BY <1>1 DEF Complete, Arrived, Undetected, BlockData, Shown
  <2>6. /\ counter = Len(out) /\ counter <= NumMod
        /\ \A i \in Listed : Num(i) < Len(out) => out[Num(i) + 1] = Shown(heap[i].p.data)
    BY <1>2, <2>1 DEF StreamInv, PrintInv
  <2>7. Complete' => out' = [b \in 1 .. Len(infile) |-> Shown(BlockData(b))]'
    BY <1>1, <2>4, <2>5 DEF BlockData, Shown
  <2> QED BY <1>1, <1>2, <1>4, <2>1, <2>3, <2>6, <2>7 DEF PrintInv, Num, Shown
<1> QED BY <1>4, <1>5, <1>7, <1>8, <1>9 DEF StreamInv, ListInv

LEMMA PrintPacketKeeps == StreamInv /\ PrintPacket => StreamInv'
<1> SUFFICES ASSUME StreamInv, PrintPacket PROVE StreamInv'
  OBVIOUS
<1>1. /\ pc = "print" /\ curr # NULL /\ Num(curr) = counter
      /\ out' = Append(out, Shown(heap[curr].p.data))
      /\ curr' = heap[curr].next /\ counter' = counter + 1
      /\ UNCHANGED <<listVars, prog, infile, outfile, delivered, input>>
  BY DEF PrintPacket
<1>2. TypeOK /\ ListTypeOK /\ InOrder(head) /\ prog = "readstream"
  BY <1>1 DEF StreamInv, ListInv, TypeOK, ListInOrder, PacketizeInv
<1>3. ~ InHand /\ ~ InHand' /\ ~ Ending /\ ~ Ending' /\ ~ Adding /\ ~ Adding'
  BY <1>1 DEF listVars, InHand, Ending, Adding
<1> DEFINE n == Len(out)
<1>4. /\ counter = n
      /\ \A i \in Listed : Num(i) < n => out[Num(i) + 1] = Shown(heap[i].p.data)
  BY <1>2, <1>3 DEF StreamInv, PrintInv
<1>5. out \in Seq(Datum) /\ n \in Nat
  BY <1>2 DEF TypeOK
<1>6. \A i \in Listed : Num(i) \in Int
  BY <1>2, HeapFacts, NodeFields
<1>7. curr \in Listed /\ Num(curr) = n
  BY <1>1, <1>4 DEF StreamInv, ListInv, CursorInv, IsFirst
<1>8. /\ curr \in 1 .. Len(heap) /\ heap[curr].next \in 0 .. Len(heap)
      /\ heap[curr].p.data \in Datum /\ n \in 0 .. NumMod - 1 /\ NumMod \in Nat
  BY <1>2, <1>7, HeapFacts, NodeFields, NumModAssumption
<1> DEFINE d == Shown(heap[curr].p.data)
<1>9. d \in Datum
  BY <1>8 DEF Shown, Datum
<1> HIDE DEF d
<1>10. /\ out' \in Seq(Datum) /\ Len(out') = n + 1
       /\ \A b \in 1 .. n : out'[b] = out[b]
       /\ out'[n + 1] = d
  <2>1. out' = Append(out, d)
    BY <1>1 DEF d
  <2> QED BY <1>5, <1>9, <2>1, AppendProperties
<1>11. counter' = n + 1 /\ counter' \in 0 .. NumMod
  BY <1>1, <1>4, <1>8
<1>12. TypeOK' /\ ListInOrder' /\ PayloadInv' /\ SearchInv' /\ Listed' = Listed
  BY <1>1, <1>2, <1>3, <1>8, <1>10, <1>11, ListStays DEF listVars, TypeOK, PCs
<1>13. CursorInv'
  <2>1. IsFirst(heap[curr].next, {j \in Listed : Num(curr) < Num(j)})
    BY <1>2, <1>7 DEF InOrder
  <2>2. {j \in Listed : Num(curr) < Num(j)} = {j \in Listed : Num(j) >= n + 1}
    BY <1>5, <1>6, <1>7
  <2> QED BY <1>1, <1>10, <1>12, <2>1, <2>2 DEF listVars, CursorInv, IsFirst, Num
<1>14. PacketizeInv'
  BY <1>1, <1>2 DEF PacketizeInv
<1>15. ReadInv'
  <2>1. Copies' = Copies /\ Used' = Used /\ PacketsInOrder'
    BY <1>1, <1>2 DEF Copies, Used, PacketsInOrder, StreamInv, ReadInv
  <2> QED BY <1>1, <1>2, <1>3, <1>12, <2>1 DEF listVars, StreamInv, ReadInv, Num
<1>16. PrintInv'
  <2>1. ASSUME NEW i \in Listed, Num(i) < n + 1 PROVE out'[Num(i) + 1] = Shown(heap[i].p.data)
    <3>1. CASE Num(i) < n
      <4>1. Num(i) + 1 \in 1 .. n
        BY <3>1, <1>2, <1>5, HeapFacts, NodeFields
      <4> QED BY <3>1, <4>1, <1>4, <1>10
    <3>2. CASE Num(i) = n
      <4>1. i = curr
        BY <3>2, <1>2, <1>7 DEF InOrder
      <4> QED BY <3>2, <4>1, <1>10 DEF d
    <3> QED BY <2>1, <3>1, <3>2, <1>5, <1>6
  <2>2. \E i \in Listed : Num(i) >= (n + 1) - 1
    BY <1>5, <1>6, <1>7
  <2>3. \A i \in Listed' : heap'[i].p.num < Len(out')
                           => out'[heap'[i].p.num + 1] = Shown(heap'[i].p.data)
    BY <1>1, <1>10, <1>12, <2>1 DEF listVars, Num
  <2>4. \E i \in Listed' : heap'[i].p.num >= Len(out') - 1
    BY <1>1, <1>10, <1>12, <2>2 DEF listVars, Num
  <2>5. counter' = Len(out') /\ counter' <= NumMod
    BY <1>8, <1>10, <1>11
  <2> QED BY <1>1, <1>3, <2>3, <2>4, <2>5 DEF listVars, PrintInv, Num, Shown
<1> QED BY <1>12, <1>13, <1>14, <1>15, <1>16 DEF StreamInv, ListInv

LEMMA PrintMissingKeeps == StreamInv /\ PrintMissing => StreamInv'
<1> SUFFICES ASSUME StreamInv, PrintMissing PROVE StreamInv'
  OBVIOUS
<1>1. /\ pc = "print" /\ curr # NULL /\ Num(curr) # counter
      /\ out' = Append(out, Missing) /\ counter' = counter + 1
      /\ UNCHANGED <<listVars, prog, infile, curr, outfile, delivered, input>>
  BY DEF PrintMissing
<1>2. TypeOK /\ ListTypeOK /\ InOrder(head) /\ prog = "readstream"
  BY <1>1 DEF StreamInv, ListInv, TypeOK, ListInOrder, PacketizeInv
<1>3. ~ InHand /\ ~ InHand' /\ ~ Ending /\ ~ Ending' /\ ~ Adding /\ ~ Adding'
  BY <1>1 DEF listVars, InHand, Ending, Adding
<1> DEFINE n == Len(out)
<1>4. /\ counter = n
      /\ \A i \in Listed : Num(i) < n => out[Num(i) + 1] = Shown(heap[i].p.data)
  BY <1>2, <1>3 DEF StreamInv, PrintInv
<1>5. out \in Seq(Datum) /\ n \in Nat /\ Missing \in Datum
  BY <1>2 DEF TypeOK, Missing, NoDatum, Datum
<1>6. \A i \in Listed : Num(i) \in 0 .. NumMod - 1 /\ Num(i) \in Int
  BY <1>2, HeapFacts, NodeFields
<1>7. /\ curr \in Listed /\ Num(curr) >= n
      /\ \A j \in Listed : Num(j) >= n => Num(curr) <= Num(j)
  BY <1>1, <1>4 DEF StreamInv, ListInv, CursorInv, IsFirst
<1>8. Num(curr) >= n + 1 /\ \A j \in Listed : Num(j) # n
  BY <1>1, <1>4, <1>5, <1>6, <1>7
<1>9. n + 1 \in 0 .. NumMod /\ NumMod \in Nat
  BY <1>5, <1>6, <1>7, <1>8, NumModAssumption
<1>10. /\ out' \in Seq(Datum) /\ Len(out') = n + 1
       /\ \A b \in 1 .. n : out'[b] = out[b]
  BY <1>1, <1>5, AppendProperties
<1>11. counter' = n + 1
  BY <1>1, <1>4
<1>12. TypeOK' /\ ListInOrder' /\ PayloadInv' /\ SearchInv' /\ Listed' = Listed
  BY <1>1, <1>2, <1>3, <1>9, <1>10, <1>11, ListStays DEF listVars, TypeOK, PCs
<1>13. CursorInv'
  <2>1. IsFirst(curr, {j \in Listed : Num(j) >= n})
    BY <1>1 DEF StreamInv, ListInv, CursorInv
  <2>2. {j \in Listed : Num(j) >= n} = {j \in Listed : Num(j) >= n + 1}
    BY <1>5, <1>6, <1>8
  <2> QED BY <1>1, <1>10, <1>12, <2>1, <2>2 DEF listVars, CursorInv, IsFirst, Num
<1>14. PacketizeInv'
  BY <1>1, <1>2 DEF PacketizeInv
<1>15. ReadInv'
  <2>1. Copies' = Copies /\ Used' = Used /\ PacketsInOrder'
    BY ZenonT(40), <1>1, <1>2 DEF Copies, Used, PacketsInOrder, StreamInv, ReadInv
  <2> QED BY <1>1, <1>2, <1>3, <1>12, <2>1 DEF listVars, StreamInv, ReadInv, Num
<1>16. PrintInv'
  <2>1. ASSUME NEW i \in Listed, Num(i) < n + 1 PROVE out'[Num(i) + 1] = Shown(heap[i].p.data)
    <3>1. Num(i) < n /\ Num(i) + 1 \in 1 .. n
      BY <2>1, <1>5, <1>6, <1>8
    <3> QED BY <3>1, <1>4, <1>10
  <2>2. \E i \in Listed : Num(i) >= (n + 1) - 1
    BY <1>5, <1>6, <1>7
  <2>3. \A i \in Listed' : heap'[i].p.num < Len(out')
                           => out'[heap'[i].p.num + 1] = Shown(heap'[i].p.data)
    BY <1>1, <1>10, <1>12, <2>1 DEF listVars, Num
  <2>4. \E i \in Listed' : heap'[i].p.num >= Len(out') - 1
    BY <1>1, <1>10, <1>12, <2>2 DEF listVars, Num
  <2>5. counter' = Len(out') /\ counter' <= NumMod
    BY <1>9, <1>10, <1>11
  <2> QED BY <1>1, <1>3, <2>3, <2>4, <2>5 DEF listVars, PrintInv, Num, Shown
<1> QED BY <1>12, <1>13, <1>14, <1>15, <1>16 DEF StreamInv, ListInv

\* free_list frees the first of the nodes it has not reached.
LEMMA FreeNodeList ==
  ASSUME StreamInv, FreeNode
  PROVE  /\ curr \in Listed /\ Listed' = Listed \ {curr}
         /\ \A i \in 1 .. Len(heap) :
              heap'[i].p = heap[i].p /\ heap'[i].next = heap[i].next
         /\ ListTypeOK' /\ ListInOrder' /\ curr' \in 0 .. Len(heap')
<1>1. /\ pc = "free" /\ curr # NULL /\ mem' = mem \ {heap[curr].p.payload}
      /\ heap' = [heap EXCEPT ![curr].live = FALSE] /\ curr' = heap[curr].next
      /\ UNCHANGED <<head, packet, prevNode, nextNode, pc>>
  BY DEF FreeNode
<1>2. ListTypeOK /\ InOrder(curr) /\ ~ InHand /\ ~ InHand'
  BY <1>1 DEF StreamInv, ListInv, TypeOK, ListInOrder, InHand
<1>3. /\ curr \in Listed /\ curr \in 1 .. Len(heap)
      /\ \A j \in Listed : Num(curr) <= Num(j)
  BY <1>1, <1>2, HeapFacts DEF InOrder, IsFirst
<1>4. /\ heap' \in Seq(Node) /\ Len(heap') = Len(heap)
      /\ \A j \in 1 .. Len(heap) :
           /\ heap'[j].p = heap[j].p /\ heap'[j].next = heap[j].next
           /\ heap'[j].live <=> heap[j].live /\ j # curr
  BY <1>1, <1>2, <1>3, FreeUpdate DEF ListTypeOK
<1>5. Listed' = Listed \ {curr}
  BY <1>1, <1>4 DEF Listed, Pending
<1>6. \A i \in Listed : i \in 1 .. Len(heap) /\ Num(i) \in Int /\ heap'[i].p.num = Num(i)
  BY <1>2, <1>4, HeapFacts, NodeFields DEF Num
<1>7. \A i \in Listed' : i \in Listed /\ Num(curr) < Num(i)
  BY <1>2, <1>3, <1>5, <1>6 DEF InOrder
<1>8. InOrder(curr)'
  <2>1. IsFirst(curr', {j \in Listed : Num(curr) < Num(j)})
    BY <1>1, <1>2, <1>3 DEF InOrder
  <2>2. {j \in Listed : Num(curr) < Num(j)} = Listed'
    <3>1. \A j \in Listed : j \in Listed' <=> Num(curr) < Num(j)
      <4>1. ~ (Num(curr) < Num(curr)) /\ \A j \in Listed : j \in Listed' <=> j # curr
        BY <1>3, <1>5, <1>6
      <4> QED BY <4>1, <1>7
    <3> QED BY <3>1, <1>7
  <2>3. IsFirst(curr, Listed)'
    BY <1>6, <1>7, <2>1, <2>2 DEF IsFirst, Num
  <2>4. ASSUME NEW i \in Listed'
        PROVE  IsFirst(heap[i].next, {j \in Listed : Num(i) < Num(j)})'
    <3>1. IsFirst(heap[i].next, {j \in Listed : Num(i) < Num(j)})
      BY <1>2, <1>7 DEF InOrder
    <3>2. {j \in Listed' : heap'[i].p.num < heap'[j].p.num} = {j \in Listed : Num(i) < Num(j)}
      <4>1. \A j \in Listed : Num(i) < Num(j) => j \in Listed'
        <5>1. ASSUME NEW j \in Listed, Num(i) < Num(j) PROVE j # curr
          <6>1. /\ Num(curr) < Num(i)
                /\ Num(curr) \in Int /\ Num(i) \in Int /\ Num(j) \in Int
            BY <1>3, <1>6, <1>7, <5>1
          <6>2. Num(curr) # Num(j)
            BY <5>1, <6>1
          <6> QED BY <6>2
        <5> QED BY <1>5, <5>1
      <4> QED BY <4>1, <1>6, <1>7
    <3>3. heap'[i].next = heap[i].next
      BY <1>4, <1>6, <1>7
    <3> QED BY <1>6, <3>1, <3>2, <3>3 DEF IsFirst, Num
  <2>5. \A i, j \in Listed' : heap'[i].p.num = heap'[j].p.num => i = j
    BY <1>2, <1>6, <1>7 DEF InOrder
  <2> QED BY <2>3, <2>4, <2>5 DEF InOrder, Num
<1>9. ListTypeOK' /\ curr' \in 0 .. Len(heap')
  <2>1. \A i \in 1 .. Len(heap') : heap'[i].next \in 0 .. Len(heap')
    BY <1>2, <1>4, NodeFields
  <2>2. curr' \in 0 .. Len(heap')
    BY <1>1, <1>2, <1>3, <1>4, NodeFields
  <2> QED BY <1>1, <1>2, <1>4, <2>1, <2>2 DEF ListTypeOK
<1>10. /\ mem = {heap[i].p.payload : i \in Listed}
       /\ \A i, j \in Listed : heap[i].p.payload = heap[j].p.payload => i = j
  BY <1>2 DEF StreamInv, ListInv, ListInOrder
<1>11. \A i \in Listed : heap'[i].p = heap[i].p
  BY <1>4, <1>6
<1>12. mem' = {heap'[i].p.payload : i \in Listed'}
  BY <1>1, <1>3, <1>5, <1>10, <1>11
<1>13. ListInOrder'
  BY ZenonT(40), <1>1, <1>2, <1>7, <1>8, <1>10, <1>11, <1>12 DEF ListInOrder
<1> QED BY <1>3, <1>4, <1>5, <1>9, <1>13

LEMMA FreeNodeKeeps == StreamInv /\ FreeNode => StreamInv'
<1> SUFFICES ASSUME StreamInv, FreeNode PROVE StreamInv'
  OBVIOUS
<1>1. /\ pc = "free" /\ pc' = "free"
      /\ UNCHANGED <<head, packet, prevNode, nextNode, pc,
                     prog, infile, counter, outfile, delivered, input, out>>
  BY DEF FreeNode
<1>2. /\ Listed' = Listed \ {curr} /\ ListTypeOK' /\ ListInOrder' /\ curr' \in 0 .. Len(heap')
      /\ \A i \in 1 .. Len(heap) : heap'[i].p = heap[i].p
  BY FreeNodeList
<1>3. TypeOK /\ ListTypeOK
  BY DEF StreamInv, ListInv, TypeOK
<1>4. \A i \in Listed' : i \in Listed /\ heap'[i].p = heap[i].p
  BY <1>2, <1>3, HeapFacts
<1>5. TypeOK'
  BY <1>1, <1>2, <1>3 DEF TypeOK
<1>6. ~ InHand /\ ~ InHand' /\ Ending /\ Ending' /\ ~ Adding /\ ~ Adding'
      /\ Kept = counter /\ Kept' = counter
  BY <1>1 DEF InHand, Ending, Adding, Kept
<1>7. PayloadInv'
  <2>1. Used' = Used
    BY <1>1 DEF Used
  <2>2. \A i \in Listed : heap[i].p.payload <= Used
    BY <1>6 DEF StreamInv, ListInv, PayloadInv
  <2> QED BY <1>4, <1>6, <2>1, <2>2 DEF PayloadInv
<1>8. SearchInv' /\ CursorInv'
  BY <1>1 DEF SearchInv, CursorInv
<1>9. PacketizeInv'
  <2>1. SUFFICES ASSUME prog = "packetize" PROVE PacketizeInv'
    BY <1>1 DEF PacketizeInv
  <2>2. \A i \in Listed : heap[i].p.data = BlockData(heap[i].p.num + 1) /\ heap[i].p.num < Kept
    BY <2>1 DEF StreamInv, PacketizeInv, Num
  <2>3. \A i \in Listed' : heap'[i].p.data = BlockData(heap'[i].p.num + 1)
                           /\ heap'[i].p.num < Kept
    BY <1>4, <2>2
  <2> QED BY <1>1, <1>6, <2>1, <2>3 DEF StreamInv, PacketizeInv, BlockData, Num
<1>10. ReadInv'
  <2>1. SUFFICES ASSUME prog = "readstream" PROVE ReadInv'
    BY <1>1 DEF ReadInv
  <2>2. Copies' = Copies /\ PacketsInOrder'
    BY <1>1, <2>1 DEF Copies, PacketsInOrder, StreamInv, ReadInv
  <2>3. \A i \in Listed' : \E t \in 1 .. Len(delivered) :
          delivered[t] = OnDisk(heap'[i].p.num, heap'[i].p.data, TRUE)
    BY <1>4, <2>1 DEF StreamInv, ReadInv, Num
  <2> QED BY <1>1, <1>6, <2>1, <2>2, <2>3 DEF StreamInv, ReadInv, Num
<1>11. PrintInv'
  <2>1. SUFFICES ASSUME prog = "readstream" PROVE PrintInv'
    BY <1>1 DEF PrintInv
  <2>2. /\ counter = Len(out) /\ counter <= NumMod
        /\ \A i \in Listed : Num(i) < Len(out) => out[Num(i) + 1] = Shown(heap[i].p.data)
        /\ \A i \in Listed : Num(i) < Len(out)
        /\ Complete => out = [b \in 1 .. Len(infile) |-> Shown(BlockData(b))]
    BY <1>6, <2>1 DEF StreamInv, PrintInv
  <2>3. \A i \in Listed' : /\ heap'[i].p.num < Len(out)
                           /\ out[heap'[i].p.num + 1] = Shown(heap'[i].p.data)
    BY <1>4, <2>2 DEF Num
  <2>4. Complete' = Complete
    BY <1>1 DEF Complete, Arrived, Undetected
  <2> QED BY <1>1, <1>6, <2>1, <2>2, <2>3, <2>4 DEF PrintInv, Num, BlockData, Shown
<1> QED BY <1>2, <1>5, <1>7, <1>8, <1>9, <1>10, <1>11 DEF StreamInv, ListInv

LEMMA BlocksInOrder ==
  ASSUME outfile \in Seq(FilePackets), Len(outfile) = Len(infile),
         \A b \in 1 .. Len(outfile) : outfile[b] = OnDisk(b - 1, BlockData(b), TRUE)
  PROVE  outfile = [b \in 1 .. Len(infile) |-> OnDisk(b - 1, BlockData(b), TRUE)]
<1> DEFINE f == [b \in 1 .. Len(infile) |-> OnDisk(b - 1, BlockData(b), TRUE)]
<1>1. DOMAIN outfile = 1 .. Len(infile) /\ outfile = [b \in DOMAIN outfile |-> outfile[b]]
  OBVIOUS
<1>2. \A b \in 1 .. Len(infile) : outfile[b] = f[b]
  OBVIOUS
<1>3. DOMAIN f = 1 .. Len(infile) /\ f = [b \in DOMAIN f |-> f[b]]
  OBVIOUS
<1> HIDE DEF f
<1>4. outfile = f
  BY <1>1, <1>2, <1>3
<1> QED BY <1>4 DEF f

LEMMA DeliveriesType == TypeOK => Deliveries \subseteq Seq(FilePackets)
<1> SUFFICES ASSUME TypeOK PROVE Deliveries \subseteq Seq(FilePackets)
  OBVIOUS
<1>1. ASSUME NEW p \in FilePackets PROVE CopiesOf(p) \subseteq FilePackets
  <2>1. Changed(p.data) \in Datum /\ p.num \in 0 .. NumMod - 1
    BY DEF FilePackets, Changed, Datum
  <2> QED BY <2>1 DEF CopiesOf, OnDisk, FilePackets
<1>2. \A i \in 1 .. Len(outfile) : outfile[i] \in FilePackets
  BY DEF TypeOK
<1>3. Copies \subseteq FilePackets
  BY <1>1, <1>2 DEF Copies
<1> QED BY <1>3, StreamAssumption DEF Deliveries

LEMMA TransferKeeps == StreamInv /\ Transfer => StreamInv'
<1> SUFFICES ASSUME StreamInv, Transfer PROVE StreamInv'
  OBVIOUS
<1>1. /\ prog = "packetize" /\ pc = "exited" /\ delivered' \in Deliveries
      /\ input' = delivered' /\ prog' = "readstream" /\ pc' = "read"
      /\ heap' = << >> /\ head' = NULL /\ mem' = {}
      /\ packet' = NoPacket /\ prevNode' = NULL /\ nextNode' = NULL
      /\ counter' = 0 /\ curr' = NULL
      /\ UNCHANGED <<infile, outfile, out>>
  BY DEF Transfer
<1>2. TypeOK
  BY DEF StreamInv, ListInv
<1>3. delivered' \in Seq(FilePackets) /\ Len(delivered') \in Nat
  BY <1>1, <1>2, DeliveriesType
<1>4. NoPacket \in Packet /\ Len(heap') = 0 /\ heap' \in Seq(Node)
  BY <1>1, NumModAssumption DEF NoPacket, NoDatum, Packet, Datum
<1>5. TypeOK'
  BY <1>1, <1>2, <1>3, <1>4, NumModAssumption DEF TypeOK, ListTypeOK, PCs, NULL
<1>6. Listed' = {} /\ ~ InHand' /\ Adding' /\ ~ Ending' /\ Used' = 0
  BY <1>1, <1>3, <1>4 DEF Listed, Pending, InHand, Adding, Ending, Used
<1>7. ListInOrder'
  BY <1>1, <1>6 DEF ListInOrder, InOrder, IsFirst, NULL
<1>8. PayloadInv' /\ SearchInv' /\ CursorInv'
  BY <1>1, <1>6 DEF PayloadInv, SearchInv, CursorInv
<1>9. PacketizeInv' /\ PrintInv'
  BY <1>1, <1>6 DEF PacketizeInv, PrintInv
<1>10. PacketsInOrder'
  <2>1. /\ Len(outfile) = Len(infile) /\ outfile \in Seq(FilePackets)
        /\ \A b \in 1 .. Len(outfile) : outfile[b] = OnDisk(b - 1, BlockData(b), TRUE)
    BY <1>1, <1>2 DEF StreamInv, PacketizeInv, Ending, TypeOK
  <2>2. outfile = [b \in 1 .. Len(infile) |-> OnDisk(b - 1, BlockData(b), TRUE)]
    BY <2>1, BlocksInOrder
  <2> QED BY <1>1, <2>2 DEF PacketsInOrder, BlockData
<1>11. ReadInv'
  <2>1. out = << >> /\ Copies' = Copies
    BY <1>1 DEF StreamInv, PacketizeInv, Copies
  <2>2. \A t \in 1 .. Len(delivered') : delivered'[t] \in Copies
    BY <1>1 DEF Deliveries
  <2>3. (IF InHand THEN Used - 1 ELSE Used)' = 0
    BY <1>6
  <2>4. ASSUME NEW t \in 1 .. (IF InHand THEN Used - 1 ELSE Used)' PROVE FALSE
    BY <2>3
  <2> QED BY <1>1, <1>6, <1>10, <2>1, <2>2, <2>4 DEF ReadInv
<1> QED BY <1>5, <1>7, <1>8, <1>9, <1>11 DEF StreamInv, ListInv

LEMMA StreamInit == Init => StreamInv
<1> SUFFICES ASSUME Init PROVE StreamInv
  OBVIOUS
<1>1. NoPacket \in Packet /\ Len(heap) = 0 /\ heap \in Seq(Node)
  BY NumModAssumption DEF Init, ListInit, NoPacket, NoDatum, Packet, Datum
<1>2. Listed = {} /\ ~ InHand /\ Adding /\ ~ Ending /\ Used = 0 /\ Kept = 0
  BY <1>1 DEF Init, Listed, Pending, InHand, Adding, Ending, Used, Kept
<1>3. infile \in Seq({"text", "binary"})
  BY StreamAssumption DEF Init
<1>4. TypeOK
  BY <1>1, NumModAssumption DEF Init, ListInit, TypeOK, ListTypeOK, PCs, NULL
<1>5. ListInOrder
  BY <1>2 DEF Init, ListInit, ListInOrder, InOrder, IsFirst, NULL
<1>6. PayloadInv /\ SearchInv /\ CursorInv
  BY <1>2 DEF Init, PayloadInv, SearchInv, CursorInv
<1>7. PacketizeInv
  BY <1>2, <1>3, NumModAssumption DEF Init, PacketizeInv
<1>8. ReadInv /\ PrintInv
  BY DEF Init, ReadInv, PrintInv
<1> QED BY <1>4, <1>5, <1>6, <1>7, <1>8 DEF StreamInv, ListInv

LEMMA StreamStutter == StreamInv /\ UNCHANGED vars => StreamInv'
<1> SUFFICES ASSUME StreamInv, UNCHANGED vars PROVE StreamInv'
  OBVIOUS
<1>1. UNCHANGED <<heap, head, mem, packet, prevNode, nextNode, pc>>
      /\ UNCHANGED <<prog, infile, counter, curr, outfile, delivered, input, out>>
  BY DEF vars, listVars
<1>2. ListInv'
  <2>1. Listed' = Listed /\ InHand' = InHand /\ Used' = Used
    BY <1>1 DEF Listed, Pending, temp, InHand, Used
  <2>2. TypeOK'
    BY <1>1 DEF StreamInv, ListInv, TypeOK, ListTypeOK
  <2>3. ListInOrder'
    BY <1>1, <2>1 DEF StreamInv, ListInv, ListInOrder, InOrder, IsFirst, Num
  <2>4. PayloadInv'
    BY <1>1, <2>1 DEF StreamInv, ListInv, PayloadInv
  <2>5. SearchInv'
    BY <1>1, <2>1 DEF StreamInv, ListInv, SearchInv, NewNode, temp, Num
  <2>6. CursorInv'
    BY <1>1, <2>1 DEF StreamInv, ListInv, CursorInv, IsFirst, Num
  <2> QED BY <2>2, <2>3, <2>4, <2>5, <2>6 DEF ListInv
<1>3. PacketizeInv'
  BY <1>1 DEF StreamInv, PacketizeInv, InHand, Kept, BlockNum, BlockData, Listed, Pending,
     temp, Num, Adding, Ending
<1>4. Copies' = Copies
  BY <1>1 DEF Copies
<1>5. ReadInv'
  <2>1. Listed' = Listed /\ InHand' = InHand /\ Used' = Used /\ Adding' = Adding
        /\ Ending' = Ending
    BY <1>1 DEF Listed, Pending, temp, InHand, Used, Adding, Ending
  <2>2. prog = "readstream" => PacketsInOrder'
    BY <1>1 DEF StreamInv, ReadInv, PacketsInOrder
  <2> QED BY <1>1, <1>4, <2>1, <2>2 DEF StreamInv, ReadInv, Num
<1>6. PrintInv'
  BY <1>1 DEF StreamInv, PrintInv, Listed, Pending, temp, Num, Shown, Adding, Ending,
     Complete, Arrived, Undetected, BlockData
<1> QED BY <1>2, <1>3, <1>5, <1>6 DEF StreamInv

LEMMA StreamStep == StreamInv /\ [Next]_vars => StreamInv'
<1> SUFFICES ASSUME StreamInv, [Next]_vars PROVE StreamInv'
  OBVIOUS
<1>1. CASE Packetize
  BY <1>1, PacketizeBlockKeeps, EndOfFileKeeps, WritePacketKeeps DEF Packetize
<1>2. CASE ReadStream
  BY <1>2, AddsPacketKeeps, RefusesPacketKeeps, EndOfPacketsKeeps, PrintPacketKeeps,
     PrintMissingKeeps DEF ReadStream
<1>3. CASE AddStep
  BY <1>3, AddStepKeeps
<1>4. CASE StartFree \/ FreeNode \/ Exit \/ Transfer
  BY <1>4, StartFreeKeeps, FreeNodeKeeps, ExitKeeps, TransferKeeps
<1>5. CASE UNCHANGED vars
  BY <1>5, StreamStutter
<1> QED BY <1>1, <1>2, <1>3, <1>4, <1>5 DEF Next

LEMMA StreamInvariant == Spec => []StreamInv
BY StreamInit, StreamStep, PTL DEF Spec

-----------------------------------------------------------------------------
(* What the invariant says of the program.                                 *)

\* Every variable stays in its range, whatever the numbers of blocks and packets
\* (packetize.c:65-112, readstream.c:76-183, list.c:20-134).
THEOREM StreamTypes == Spec => []TypeOK
<1>1. StreamInv => TypeOK
  BY DEF StreamInv, ListInv
<1> QED BY <1>1, StreamInvariant, PTL

\* Packets that come in any order give a list in the order of their numbers, each
\* number once, that holds all live nodes and none that was freed, and every
\* allocated payload belongs to one of them (list.c:27-134).
THEOREM ListCorrect == Spec => []ListInOrder
<1>1. StreamInv => ListInOrder
  BY DEF StreamInv, ListInv
<1> QED BY <1>1, StreamInvariant, PTL

\* No loop over the list stands on a freed node (list.c:56-60, 124-132,
\* packetize.c:119-135, readstream.c:165-183).
THEOREM NoUseAfterFree == Spec => []CursorsLive
<1>1. StreamInv => CursorsLive
  <2> SUFFICES ASSUME StreamInv PROVE CursorsLive
    OBVIOUS
  <2>1. ListTypeOK
    BY DEF StreamInv, ListInv, TypeOK
  <2>2. \A i \in Listed : IsLive(i)
    BY DEF IsLive, Listed
  <2>3. IsLive(NULL)
    BY DEF IsLive
  <2>4. CASE pc = "search"
    BY <2>1, <2>2, <2>3, <2>4, SearchFacts DEF CursorsLive, StreamInv, ListInv
  <2>5. CASE pc \in {"write", "print"}
    BY <2>2, <2>3, <2>5 DEF CursorsLive, StreamInv, ListInv, CursorInv, IsFirst
  <2>6. CASE pc = "free"
    BY <2>2, <2>3, <2>6 DEF CursorsLive, StreamInv, ListInv, ListInOrder, InOrder, IsFirst
  <2> QED BY <2>4, <2>5, <2>6 DEF CursorsLive
<1> QED BY <1>1, StreamInvariant, PTL

\* packetize's file holds every block once, in order, under its own number: a
\* number that wraps crashes addPacket before it could mix two blocks
\* (packetize.c:95-135, list.c:74-81).
THEOREM FileInOrder == Spec => []PacketsInOrder
<1>1. StreamInv => PacketsInOrder
  <2> SUFFICES ASSUME StreamInv PROVE PacketsInOrder
    OBVIOUS
  <2>1. CASE prog = "readstream"
    BY <2>1 DEF StreamInv, ReadInv
  <2>2. CASE prog # "readstream" /\ pc = "exited"
    <3>1. prog = "packetize" /\ outfile \in Seq(FilePackets)
      BY <2>2 DEF StreamInv, ListInv, TypeOK
    <3>2. /\ Len(outfile) = Len(infile)
          /\ \A b \in 1 .. Len(outfile) : outfile[b] = OnDisk(b - 1, BlockData(b), TRUE)
      BY <2>2, <3>1 DEF StreamInv, PacketizeInv, Ending
    <3> QED BY <3>1, <3>2, BlocksInOrder DEF PacketsInOrder, BlockData
  <2> QED BY <2>1, <2>2 DEF PacketsInOrder
<1> QED BY <1>1, StreamInvariant, PTL

\* A program that ends has freed every node and payload, those of repeated and
\* refused packets too (list.c:82-83, 119-134, readstream.c:131).
THEOREM MemoryFreed == Spec => []NothingLeaked
<1>1. StreamInv => NothingLeaked
  <2> SUFFICES ASSUME StreamInv, pc = "exited" PROVE NothingLeaked
    BY DEF NothingLeaked
  <2>1. curr = NULL /\ ListTypeOK /\ InOrder(curr)
        /\ mem = {heap[i].p.payload : i \in Listed}
    BY DEF StreamInv, ListInv, TypeOK, CursorInv, ListInOrder, InHand
  <2>2. Listed = {}
    BY <2>1, HeapFacts DEF InOrder, IsFirst
  <2> QED BY <2>1, <2>2 DEF NothingLeaked, Listed, Pending
<1> QED BY <1>1, StreamInvariant, PTL

\* Whatever the order of the packets, and whatever damaged ones the CRC shows, a
\* readstream that comes to its end prints a file of text as it was, once each
\* packet came whole.  It does not come to its end when the packet that is first in
\* the list is repeated (readstream.c:82-183).
THEOREM FileCorrect == Spec => []FileRebuilt
<1>1. StreamInv => FileRebuilt
  <2> SUFFICES ASSUME StreamInv, prog = "readstream", pc = "exited", Complete,
                      \A b \in 1 .. Len(infile) : infile[b] = "text"
               PROVE  out = [b \in 1 .. Len(infile) |-> [block |-> b, kind |-> infile[b]]]
    BY DEF FileRebuilt, Complete
  <2>1. out = [b \in 1 .. Len(infile) |-> Shown(BlockData(b))]
    BY DEF StreamInv, PrintInv, Ending, Adding
  <2>2. ASSUME NEW b \in 1 .. Len(infile)
        PROVE  Shown(BlockData(b)) = [block |-> b, kind |-> infile[b]]
    <3>1. BlockData(b) = [block |-> b, kind |-> infile[b]] /\ infile[b] = "text"
      BY DEF BlockData
    <3>2. BlockData(b).kind = "text"
      BY <3>1
    <3> QED BY <3>1, <3>2 DEF Shown
  <2> QED BY <2>1, <2>2
<1> QED BY <1>1, StreamInvariant, PTL

-----------------------------------------------------------------------------
(* readstream implements Reassembly, step by step.                         *)

\* What is still to be taken: the packet in hand and the input.
ToDo == IF prog = "readstream" /\ InHand
        THEN <<OnDisk(packet.num, packet.data, TRUE)>> \o input ELSE input

LEMMA HeldValue ==
  ASSUME StreamInv, prog = "readstream"
  PROVE  /\ DOMAIN Held = {Num(i) : i \in Listed}
         /\ \A i \in Listed : Held[Num(i)] = heap[i].p.data
         /\ Held = [k \in DOMAIN Held |-> Held[k]]
<1>1. DOMAIN Held = {Num(i) : i \in Listed} /\ Held = [k \in DOMAIN Held |-> Held[k]]
  BY DEF Held
<1>2. \A i, j \in Listed : Num(i) = Num(j) => i = j
  BY DEF StreamInv, ListInv, ListInOrder, InOrder
<1>3. ASSUME NEW i \in Listed PROVE Held[Num(i)] = heap[i].p.data
  <2> DEFINE c == CHOOSE j \in Listed : Num(j) = Num(i)
  <2>1. c \in Listed /\ Num(c) = Num(i)
    OBVIOUS
  <2>2. c = i
    BY <1>2, <2>1
  <2>3. Held[Num(i)] = heap[c].p.data
    BY DEF Held
  <2> QED BY <2>2, <2>3
<1> QED BY <1>1, <1>2, <1>3

LEMMA HeldEmpty ==
  ASSUME prog # "readstream" \/ Listed = {}
  PROVE  Held = << >>
<1>1. {i \in Listed : prog = "readstream"} = {}
  OBVIOUS
<1>2. DOMAIN Held = {} /\ Held = [k \in DOMAIN Held |-> Held[k]]
  BY <1>1 DEF Held
<1>3. DOMAIN << >> = {} /\ << >> = [k \in DOMAIN << >> |-> << >>[k]]
  OBVIOUS
<1> QED BY <1>2, <1>3

HeldIs ==
  /\ DOMAIN Held = {Num(i) : i \in Listed}
  /\ \A i \in Listed : Held[Num(i)] = heap[i].p.data
  /\ Held = [k \in DOMAIN Held |-> Held[k]]

LEMMA HeldFacts ==
  /\ StreamInv /\ prog = "readstream" => HeldIs
  /\ prog # "readstream" \/ Listed = {} => Held = << >>
BY HeldValue, HeldEmpty DEF HeldIs

\* The same of the next state.
LEMMA HeldFactsNext ==
  /\ StreamInv' /\ prog' = "readstream" => HeldIs'
  /\ prog' # "readstream" \/ Listed' = {} => Held' = << >>
<1>1. /\ StreamInv' /\ (prog = "readstream")' => HeldIs'
      /\ (prog # "readstream" \/ Listed = {})' => (Held = << >>)'
  BY HeldFacts, PTL
<1> QED BY <1>1

\* The list stays, and what is printed of it too.
LEMMA HeldStays ==
  ASSUME StreamInv, StreamInv', prog' = prog, Listed' = Listed,
         \A i \in Listed : heap'[i].p = heap[i].p
  PROVE  Held' = Held
<1>1. CASE prog # "readstream"
  <2>1. Held = << >>
    BY <1>1, HeldFacts
  <2>2. Held' = << >>
    BY <1>1, HeldFactsNext
  <2> QED BY <2>1, <2>2
<1>2. CASE prog = "readstream"
  <2>1. /\ DOMAIN Held = {Num(i) : i \in Listed}
        /\ \A i \in Listed : Held[Num(i)] = heap[i].p.data
        /\ Held = [k \in DOMAIN Held |-> Held[k]]
    BY <1>2, HeldValue
  <2>2. /\ DOMAIN Held' = {heap'[i].p.num : i \in Listed'}
        /\ \A i \in Listed' : Held'[heap'[i].p.num] = heap'[i].p.data
        /\ Held' = [k \in DOMAIN Held' |-> Held'[k]]
    BY <1>2, HeldFactsNext DEF HeldIs, Num
  <2>3. \A i \in Listed : heap'[i].p.num = Num(i)
    BY DEF Num
  <2>4. DOMAIN Held' = DOMAIN Held
    BY <2>1, <2>2, <2>3
  <2>5. \A k \in DOMAIN Held : Held'[k] = Held[k]
    BY <2>1, <2>2, <2>3
  <2> QED BY <2>1, <2>2, <2>4, <2>5
<1> QED BY <1>1, <1>2

LEMMA Prepended ==
  ASSUME NEW p, NEW s \in Seq(FilePackets), p \in FilePackets
  PROVE  /\ <<p>> \o s # << >> /\ Head(<<p>> \o s) = p /\ Tail(<<p>> \o s) = s
<1>1. <<p>> \in Seq(FilePackets) /\ Len(<<p>>) = 1 /\ <<p>>[1] = p
  OBVIOUS
<1>2. /\ <<p>> \o s \in Seq(FilePackets) /\ Len(<<p>> \o s) = 1 + Len(s)
      /\ \A i \in 1 .. Len(s) + 1 : (<<p>> \o s)[i] = IF i = 1 THEN p ELSE s[i - 1]
  BY <1>1, ConcatProperties
<1>3. Head(<<p>> \o s) = p /\ <<p>> \o s # << >>
  BY <1>2
<1>4. /\ Tail(<<p>> \o s) \in Seq(FilePackets) /\ Len(Tail(<<p>> \o s)) = Len(s)
      /\ \A i \in 1 .. Len(s) : Tail(<<p>> \o s)[i] = s[i]
  BY <1>2, <1>3, HeadTailProperties
<1>5. Tail(<<p>> \o s) = s
  BY <1>4
<1> QED BY <1>3, <1>5

\* A packet that is added takes its number in the store.
LEMMA AddedHeld ==
  ASSUME StreamInv, StreamInv', Added, prog = "readstream", prog' = prog
  PROVE  Held' = [k \in DOMAIN Held \cup {packet.num} |->
                    IF k = packet.num THEN packet.data ELSE Held[k]]
<1>1. /\ DOMAIN Held = {Num(i) : i \in Listed}
      /\ \A i \in Listed : Held[Num(i)] = heap[i].p.data
  BY HeldFacts DEF HeldIs
<1>2. /\ DOMAIN Held' = {heap'[i].p.num : i \in Listed'}
      /\ \A i \in Listed' : Held'[heap'[i].p.num] = heap'[i].p.data
      /\ Held' = [k \in DOMAIN Held' |-> Held'[k]]
  BY HeldFactsNext DEF HeldIs, Num
<1>3. /\ \A i \in Listed : heap'[i].p = heap[i].p
      /\ Listed' = (Listed \ Repeated) \cup {temp'} /\ heap'[temp'].p = packet
      /\ \A i \in Listed : i \in Repeated <=> Num(i) = packet.num
  BY DEF Added, Repeated
<1>4. DOMAIN Held' = DOMAIN Held \cup {packet.num}
  <2>1. \A k \in DOMAIN Held' : k \in DOMAIN Held \cup {packet.num}
    BY <1>1, <1>2, <1>3 DEF Num
  <2>2. packet.num \in DOMAIN Held'
    BY <1>2, <1>3
  <2>3. \A i \in Listed : Num(i) # packet.num => Num(i) \in DOMAIN Held'
    BY <1>2, <1>3 DEF Num
  <2>4. \A k \in DOMAIN Held : k \in DOMAIN Held'
    BY <1>1, <2>2, <2>3
  <2> QED BY <2>1, <2>2, <2>4
<1>5. Held'[packet.num] = packet.data
  BY <1>2, <1>3
<1>6. ASSUME NEW k \in DOMAIN Held, k # packet.num PROVE Held'[k] = Held[k]
  <2>1. PICK i \in Listed : Num(i) = k
    BY <1>1
  <2>2. i \in Listed' /\ heap'[i].p.num = k /\ heap'[i].p.data = heap[i].p.data
    BY <1>3, <1>6, <2>1 DEF Num
  <2> QED BY <1>1, <1>2, <2>1, <2>2
<1> QED BY <1>2, <1>4, <1>5, <1>6

\* What Abs!Next says of the values the mapping gives.
AbsTake ==
  /\ ToDo # << >> /\ out = << >>
  /\ ToDo' = Tail(ToDo)
  /\ Held' = IF Head(ToDo).crcOK
             THEN [k \in DOMAIN Held \cup {Head(ToDo).num} |->
                     IF k = Head(ToDo).num THEN Head(ToDo).data ELSE Held[k]]
             ELSE Held
  /\ out' = out

AbsStays == ToDo' = ToDo /\ Held' = Held /\ out' = out

LEMMA AbsTakes == AbsTake => Abs!Next
BY DEF AbsTake, ToDo, Abs!Next, Abs!Take

LEMMA ToDoType ==
  ASSUME StreamInv, prog = "readstream", InHand
  PROVE  /\ ToDo # << >> /\ Tail(ToDo) = input
         /\ Head(ToDo) = OnDisk(packet.num, packet.data, TRUE)
<1>1. ListTypeOK /\ input \in Seq(FilePackets)
  BY DEF StreamInv, ListInv, TypeOK
<1>2. OnDisk(packet.num, packet.data, TRUE) \in FilePackets
  BY <1>1, PacketFields DEF OnDisk, FilePackets
<1> QED BY <1>1, <1>2, Prepended DEF ToDo

LEMMA AddStepRefines ==
  ASSUME StreamInv, StreamInv', AddStep
  PROVE  Abs!Next \/ AbsStays
<1>1. UNCHANGED <<prog, infile, counter, curr, outfile, delivered, input, out>>
  BY DEF AddStep
<1>2. ListTypeOK /\ SearchInv /\ InHand
  BY DEF StreamInv, ListInv, TypeOK, AddStep, AddPacket, AddFirst, StartSearch, Search,
     AppendLast, Replace, ReplaceFirst, Repeats, InsertBetween, InsertFirst, Found, InHand
<1>3. CASE StartSearch \/ Search \/ ReplaceFirst
  <2>1. Listed' = Listed /\ \A i \in Listed : heap'[i].p = heap[i].p
    BY <1>1, <1>3, StartSearchKeeps, SearchStepKeeps
  <2>2. packet' = packet /\ InHand'
    BY <1>3 DEF StartSearch, Search, ReplaceFirst, InHand
  <2>3. ToDo' = ToDo
    BY <1>1, <1>2, <2>2 DEF ToDo
  <2> QED BY <1>1, <2>1, <2>3, HeldStays DEF AbsStays
<1>4. CASE AddFirst \/ AppendLast \/ Replace \/ InsertBetween \/ InsertFirst
  <2>1. InOrder(head)
    BY <1>4 DEF AddFirst, AppendLast, Replace, Repeats, InsertBetween, InsertFirst, Found,
                StreamInv, ListInv, ListInOrder
  <2>2. Added
    BY <1>2, <1>4, <2>1, AddFirstAdds, AddsToList
  <2>3. CASE prog # "readstream"
    <3>1. Held = << >> /\ Held' = << >>
      BY <1>1, <2>3, HeldFacts, HeldFactsNext
    <3>2. ToDo' = ToDo
      BY <1>1, <2>3 DEF ToDo
    <3> QED BY <1>1, <3>1, <3>2 DEF AbsStays
  <2>4. CASE prog = "readstream"
    <3>1. /\ ToDo # << >> /\ Tail(ToDo) = input
          /\ Head(ToDo) = OnDisk(packet.num, packet.data, TRUE)
      BY <1>2, <2>4, ToDoType
    <3>2. ToDo' = input
      BY <1>1, <2>2 DEF Added, InHand, ToDo
    <3>3. Held' = [k \in DOMAIN Held \cup {packet.num} |->
                     IF k = packet.num THEN packet.data ELSE Held[k]]
      BY <1>1, <2>2, <2>4, AddedHeld
    <3>4. out = << >>
      BY <1>2, <2>4 DEF StreamInv, ReadInv, Adding, InHand
    <3>5. Head(ToDo).crcOK /\ Head(ToDo).num = packet.num /\ Head(ToDo).data = packet.data
      BY <3>1 DEF OnDisk
    <3>6. AbsTake
      BY <1>1, <3>1, <3>2, <3>3, <3>4, <3>5 DEF AbsTake
    <3> QED BY <3>6, AbsTakes
  <2> QED BY <2>3, <2>4
<1> QED BY <1>3, <1>4 DEF AddStep, AddPacket

LEMMA RefusesRefines ==
  ASSUME StreamInv, StreamInv', RefusesPacket
  PROVE  Abs!Next
<1>1. /\ prog = "readstream" /\ pc = "read" /\ input # << >> /\ ~ Head(input).crcOK
      /\ input' = Tail(input)
      /\ UNCHANGED <<listVars, prog, infile, counter, curr, outfile, delivered, out>>
  BY DEF RefusesPacket, ReadsPacket, CRCMatches
<1>2. Listed' = Listed /\ \A i \in Listed : heap'[i].p = heap[i].p
  BY <1>1 DEF listVars, Listed, Pending
<1>3. Held' = Held
  BY <1>1, <1>2, HeldStays
<1>4. ToDo = input /\ ToDo' = input'
  BY <1>1 DEF listVars, ToDo, InHand
<1>5. out = << >>
  BY <1>1 DEF StreamInv, ReadInv, Adding
<1>6. AbsTake
  BY <1>1, <1>3, <1>4, <1>5 DEF AbsTake
<1> QED BY <1>6, AbsTakes

LEMMA AddsRefines ==
  ASSUME StreamInv, StreamInv', AddsPacket
  PROVE  AbsStays
<1>1. /\ prog = "readstream" /\ pc = "read" /\ input # << >> /\ Head(input).crcOK
      /\ packet' = [num |-> Head(input).num, data |-> Head(input).data,
                    payload |-> NewPayload]
      /\ input' = Tail(input) /\ pc' = "add"
      /\ UNCHANGED <<heap, prog, out>>
  BY DEF AddsPacket, ReadsPacket, CRCMatches
<1>2. Held' = Held
  <2>1. Listed' = Listed
    BY <1>1 DEF Listed, Pending
  <2> QED BY <1>1, <2>1, HeldStays
<1>3. input \in Seq(FilePackets)
  BY DEF StreamInv, ListInv, TypeOK
<1>4. Head(input) \in FilePackets /\ input = <<Head(input)>> \o Tail(input)
  BY <1>1, <1>3
<1>5. Head(input) = OnDisk(packet'.num, packet'.data, TRUE)
  BY <1>1, <1>4 DEF OnDisk, FilePackets
<1>6. ToDo = input /\ ToDo' = <<Head(input)>> \o Tail(input)
  BY <1>1, <1>5 DEF ToDo, InHand
<1> QED BY <1>1, <1>2, <1>4, <1>6 DEF AbsStays

LEMMA TransferRefines ==
  ASSUME StreamInv, StreamInv', Transfer
  PROVE  Abs!Next
<1>1. /\ prog = "packetize" /\ delivered' \in Deliveries /\ input' = delivered'
      /\ prog' = "readstream" /\ pc' = "read" /\ heap' = << >> /\ out' = out
  BY DEF Transfer
<1>2. input = << >> /\ out = << >>
  BY <1>1 DEF StreamInv, PacketizeInv
<1>3. Held = << >>
  BY <1>1, HeldFacts
<1>4. Held' = << >>
  <2>1. Listed' = {}
    BY <1>1 DEF Listed, Pending
  <2> QED BY <2>1, HeldFactsNext
<1>5. ToDo = << >> /\ ToDo' = input'
  BY <1>1, <1>2 DEF ToDo, InHand
<1>6. input' \in Seq(FilePackets)
  BY <1>1, DeliveriesType DEF StreamInv, ListInv
<1> QED BY <1>1, <1>2, <1>3, <1>4, <1>5, <1>6 DEF ToDo, Abs!Next, Abs!Deliver

\* While readstream prints, the store is the list and nothing is left to take.
LEMMA PrintsRefines ==
  ASSUME StreamInv, StreamInv', PrintPacket \/ PrintMissing
  PROVE  Abs!Next
<1>1. /\ pc = "print" /\ curr # NULL
      /\ UNCHANGED <<listVars, prog, infile, outfile, delivered, input>>
      /\ out' = Append(out, IF Num(curr) = counter THEN Shown(heap[curr].p.data) ELSE Missing)
  BY DEF PrintPacket, PrintMissing
<1>2. prog = "readstream" /\ ~ Adding /\ ~ InHand
  BY <1>1 DEF StreamInv, PacketizeInv, ListInv, TypeOK, Adding, InHand
<1>3. input = << >> /\ counter = Len(out)
  BY <1>2 DEF StreamInv, ReadInv, PrintInv
<1>4. ToDo = << >> /\ ToDo' = ToDo
  BY <1>1, <1>2, <1>3 DEF listVars, ToDo, InHand
<1>5. Held' = Held
  <2>1. Listed' = Listed /\ \A i \in Listed : heap'[i].p = heap[i].p
    BY <1>1 DEF listVars, Listed, Pending
  <2> QED BY <1>1, <2>1, HeldStays
<1>6. /\ DOMAIN Held = {Num(i) : i \in Listed}
      /\ \A i \in Listed : Held[Num(i)] = heap[i].p.data
  BY <1>2, HeldFacts DEF HeldIs
<1>7. /\ curr \in Listed /\ Num(curr) >= Len(out)
      /\ \A j \in Listed : Num(j) >= Len(out) => Num(curr) <= Num(j)
  BY <1>1 DEF StreamInv, ListInv, CursorInv, IsFirst
<1>8. Len(out) \in Int /\ \A j \in Listed : Num(j) \in Int
  BY SMTT(30), HeapFacts, NodeFields DEF StreamInv, ListInv, TypeOK
<1>9. out' = Append(out, IF Len(out) \in DOMAIN Held THEN Shown(Held[Len(out)]) ELSE Missing)
  <2>1. CASE Num(curr) = counter
    <3>1. Len(out) \in DOMAIN Held /\ Held[Len(out)] = heap[curr].p.data
      BY <2>1, <1>3, <1>6, <1>7
    <3> QED BY <2>1, <3>1, <1>1
  <2>2. CASE Num(curr) # counter
    <3>1. Len(out) \notin DOMAIN Held
      BY <2>2, <1>3, <1>6, <1>7, <1>8
    <3> QED BY <2>2, <3>1, <1>1
  <2> QED BY <2>1, <2>2
<1>10. \E k \in DOMAIN Held : k >= Len(out)
  BY <1>6, <1>7
<1> QED BY <1>4, <1>5, <1>9, <1>10 DEF ToDo, Abs!Next, Abs!PrintNext

LEMMA FreeRefines ==
  ASSUME StreamInv, StreamInv', FreeNode
  PROVE  Abs!Next \/ AbsStays
<1>1. pc = "free" /\ UNCHANGED <<pc, prog, input, out>>
  BY DEF FreeNode
<1>2. curr \in Listed /\ Listed' = Listed \ {curr}
      /\ \A i \in 1 .. Len(heap) : heap'[i].p = heap[i].p
  BY FreeNodeList
<1>3. ToDo = input /\ ToDo' = input
  BY <1>1 DEF ToDo, InHand
<1>4. CASE prog # "readstream"
  <2>1. Held = << >> /\ Held' = << >>
    BY <1>1, <1>4, HeldFacts, HeldFactsNext
  <2> QED BY <1>1, <1>3, <2>1 DEF AbsStays
<1>5. CASE prog = "readstream"
  <2>1. /\ DOMAIN Held = {Num(i) : i \in Listed}
        /\ \A i \in Listed : Held[Num(i)] = heap[i].p.data
    BY <1>5, HeldFacts DEF HeldIs
  <2>2. /\ DOMAIN Held' = {heap'[i].p.num : i \in Listed'}
        /\ \A i \in Listed' : Held'[heap'[i].p.num] = heap'[i].p.data
        /\ Held' = [k \in DOMAIN Held' |-> Held'[k]]
    BY <1>1, <1>5, HeldFactsNext DEF HeldIs, Num
  <2>3. \A i \in Listed : heap'[i].p = heap[i].p
    BY <1>2, HeapFacts DEF StreamInv, ListInv, TypeOK
  <2>4. \A i, j \in Listed : Num(i) = Num(j) => i = j
    BY DEF StreamInv, ListInv, ListInOrder, InOrder
  <2>5. DOMAIN Held' = DOMAIN Held \ {Num(curr)}
    <3>1. \A i \in Listed : i \in Listed' <=> Num(i) # Num(curr)
      BY <1>2, <2>4
    <3> QED BY <1>2, <2>1, <2>2, <2>3, <3>1 DEF Num
  <2>6. \A k \in DOMAIN Held' : Held'[k] = Held[k]
    BY <1>2, <2>1, <2>2, <2>3 DEF Num
  <2>7. Held' = [j \in DOMAIN Held \ {Num(curr)} |-> Held[j]]
    BY <2>2, <2>5, <2>6
  <2>8. Num(curr) \in DOMAIN Held
    BY <1>2, <2>1
  <2>9. input = << >> /\ \A k \in DOMAIN Held : k < Len(out)
    BY <1>1, <1>5, <2>1 DEF StreamInv, ReadInv, PrintInv, Adding, Ending
  <2> QED BY <1>1, <1>3, <2>7, <2>8, <2>9 DEF ToDo, Abs!Next, Abs!Release
<1> QED BY <1>4, <1>5

\* The steps that neither take a packet nor print or free one.
LEMMA OtherRefines ==
  ASSUME StreamInv, StreamInv',
         Packetize \/ EndOfPackets \/ StartFree \/ Exit \/ UNCHANGED vars
  PROVE  AbsStays
<1>1. prog' = prog /\ input' = input /\ out' = out /\ heap' = heap
  BY DEF Packetize, PacketizeBlock, EndOfFile, WritePacket, EndOfPackets, StartFree, Exit,
     vars, listVars
<1>2. CASE Packetize
  <2>1. prog # "readstream"
    BY <1>2 DEF Packetize, PacketizeBlock, EndOfFile, WritePacket, StreamInv, ReadInv
  <2>2. Held = << >> /\ Held' = << >>
    BY <1>1, <2>1, HeldFacts, HeldFactsNext
  <2>3. ToDo = input /\ ToDo' = input
    BY <1>1, <2>1 DEF ToDo
  <2> QED BY <1>1, <2>2, <2>3 DEF AbsStays
<1>3. CASE EndOfPackets \/ StartFree \/ Exit
  <2>1. ~ InHand /\ ~ InHand' /\ Listed' = Listed
    BY <1>1, <1>3 DEF EndOfPackets, StartFree, Exit, InHand, Listed, Pending
  <2>2. Held' = Held
    BY <1>1, <2>1, HeldStays
  <2>3. ToDo = input /\ ToDo' = input
    BY <1>1, <2>1 DEF ToDo
  <2> QED BY <1>1, <2>2, <2>3 DEF AbsStays
<1>4. CASE UNCHANGED vars
  <2>1. Listed' = Listed /\ InHand' = InHand /\ packet' = packet
    BY <1>4 DEF vars, listVars, InHand, Listed, Pending, temp
  <2>2. Held' = Held
    BY <1>1, <2>1, HeldStays
  <2>3. ToDo' = ToDo
    BY <1>1, <2>1 DEF ToDo
  <2> QED BY <1>1, <2>2, <2>3 DEF AbsStays
<1> QED BY <1>2, <1>3, <1>4

\* readstream, with its nodes and loops, keeps the last whole packet of each number
\* and prints what it kept in order, as Reassembly says: each of its steps is one
\* of Reassembly's or changes nothing there (readstream.c:76-196, list.c:20-134).
THEOREM StreamRefines == Spec => ImplementsReassembly
<1>1. Init => Abs!Init
  <2>1. Init => ToDo = << >> /\ Held = << >> /\ out = << >>
    BY HeldFacts DEF Init, ToDo
  <2> QED BY <2>1 DEF ToDo, Abs!Init
<1>2. StreamInv /\ StreamInv' /\ [Next]_vars => [Abs!Next]_<<ToDo, Held, out>>
  <2> SUFFICES ASSUME StreamInv, StreamInv', [Next]_vars PROVE Abs!Next \/ AbsStays
    BY DEF AbsStays
  <2>1. CASE AddStep
    BY <2>1, AddStepRefines
  <2>2. CASE ReadStream
    BY <2>2, RefusesRefines, AddsRefines, PrintsRefines, OtherRefines DEF ReadStream
  <2>3. CASE Transfer \/ FreeNode
    BY <2>3, TransferRefines, FreeRefines
  <2>4. CASE Packetize \/ StartFree \/ Exit \/ UNCHANGED vars
    BY <2>4, OtherRefines
  <2> QED BY <2>1, <2>2, <2>3, <2>4 DEF Next
<1> QED BY <1>1, <1>2, StreamInvariant, PTL DEF Spec, ImplementsReassembly, Abs!Spec, ToDo
=============================================================================
