----------------------------- MODULE PacketStream ------------------------------
(***************************************************************************)
(* a2: packetize cuts a file into numbered packets, something loses,       *)
(* repeats, reorders or damages them, and readstream puts the file together*)
(* again.  Both programs keep their packets in a PacketList; the second    *)
(* starts, with memory of its own, when the first has exited.              *)
(***************************************************************************)
EXTENDS PacketList

CONSTANTS
  Files,        \* the files: sequences of "text" and "binary" blocks
  MaxDelivered  \* bound: the packets in the file readstream is given

ASSUME StreamAssumption ==
  /\ \A f \in Files : f \in Seq({"text", "binary"})
  /\ MaxDelivered \in Nat

VARIABLES
  prog,        \* the program that runs
  infile,      \* packetize's input
  counter,     \* its blockNum; readstream's packet_counter
  curr,        \* the node a loop over the list has reached
  outfile,     \* the packets packetize wrote
  delivered,   \* the packets readstream is given
  input,       \* those of them it has not read
  out          \* what it printed

vars == <<listVars, prog, infile, counter, curr, outfile, delivered, input, out>>

\* A packet in a file.  crcOK: the CRC in its header is that of its payload.
OnDisk(num, data, crcOK) == [num |-> num, data |-> data, crcOK |-> crcOK]

FilePackets == [num : 0 .. NumMod - 1, data : Datum, crcOK : BOOLEAN]

Init ==
  /\ ListInit /\ pc = "read"
  /\ prog = "packetize" /\ infile \in Files
  /\ counter = 0 /\ curr = NULL
  /\ outfile = << >> /\ delivered = << >> /\ input = << >> /\ out = << >>

AddStep ==
  /\ AddPacket
  /\ UNCHANGED <<prog, infile, counter, curr, outfile, delivered, input, out>>

----------------------------------------------------------------------------
(* packetize                                                               *)

\* Mutant: the number is not cut to 16 bits.
BlockNum_Whole(b) == b

\* blockNum is an unsigned int, block_num an unsigned short.
BlockNum(b) == b % NumMod

PacketizeBlock ==
  /\ prog = "packetize" /\ pc = "read" /\ counter < Len(infile)
  /\ packet' = [num |-> BlockNum(counter), payload |-> counter + 1,
                data |-> [block |-> counter + 1, kind |-> infile[counter + 1]]]
  /\ mem' = mem \cup {counter + 1}
  /\ counter' = counter + 1
  /\ pc' = "add"
  /\ UNCHANGED <<heap, head, prevNode, nextNode,
                 prog, infile, curr, outfile, delivered, input, out>>

\* Mutant: a last block that is not full ends the loop.
EndOfFile_NotFull ==
  /\ prog = "packetize" /\ pc = "read" /\ counter + 1 >= Len(infile)
  /\ curr' = head /\ pc' = "write"
  /\ UNCHANGED <<heap, head, mem, packet, prevNode, nextNode,
                 prog, infile, counter, outfile, delivered, input, out>>

EndOfFile ==
  /\ prog = "packetize" /\ pc = "read" /\ counter = Len(infile)
  /\ curr' = head /\ pc' = "write"
  /\ UNCHANGED <<heap, head, mem, packet, prevNode, nextNode,
                 prog, infile, counter, outfile, delivered, input, out>>

WritePacket ==
  /\ pc = "write" /\ curr # NULL
  /\ outfile' = Append(outfile, OnDisk(Num(curr), heap[curr].p.data, TRUE))
  /\ curr' = heap[curr].next
  /\ UNCHANGED <<listVars, prog, infile, counter, delivered, input, out>>

----------------------------------------------------------------------------
(* free_list, at the end of either program                                 *)

StartFree ==
  /\ pc \in {"write", "print"} /\ curr = NULL
  /\ curr' = head /\ pc' = "free"
  /\ UNCHANGED <<heap, head, mem, packet, prevNode, nextNode,
                 prog, infile, counter, outfile, delivered, input, out>>

FreeNode ==
  /\ pc = "free" /\ curr # NULL
  /\ mem' = mem \ {heap[curr].p.payload}
  /\ heap' = [heap EXCEPT ![curr].live = FALSE]
  /\ curr' = heap[curr].next
  /\ UNCHANGED <<head, packet, prevNode, nextNode, pc,
                 prog, infile, counter, outfile, delivered, input, out>>

Exit ==
  /\ pc = "free" /\ curr = NULL
  /\ pc' = "exited"
  /\ UNCHANGED <<heap, head, mem, packet, prevNode, nextNode,
                 prog, infile, counter, curr, outfile, delivered, input, out>>

----------------------------------------------------------------------------
(* What happens to the packets in between                                  *)

Changed(data) == [data EXCEPT !.kind = "changed"]

\* The copies of a packet that may arrive: whole, damaged, or damaged in a way
\* that the CRC does not show.  Headers stay as they are.
CopiesOf(p) == {p, OnDisk(p.num, Changed(p.data), FALSE),
                OnDisk(p.num, Changed(p.data), TRUE)}

Copies == UNION {CopiesOf(outfile[i]) : i \in 1 .. Len(outfile)}

Deliveries == UNION {[1 .. k -> Copies] : k \in 0 .. MaxDelivered}

Transfer ==
  /\ prog = "packetize" /\ pc = "exited"
  /\ delivered' \in Deliveries
  /\ input' = delivered'
  /\ prog' = "readstream" /\ pc' = "read"
  /\ heap' = << >> /\ head' = NULL /\ mem' = {}
  /\ packet' = NoPacket /\ prevNode' = NULL /\ nextNode' = NULL
  /\ counter' = 0 /\ curr' = NULL
  /\ UNCHANGED <<infile, outfile, out>>

----------------------------------------------------------------------------
(* readstream                                                              *)

ReadsPacket == prog = "readstream" /\ pc = "read" /\ input # << >>

\* The payload allocated for the packet that is read next.
NewPayload == Len(delivered) - Len(input) + 1

\* Mutant: the CRC is computed and not looked at.
CRCMatches_Always(p) == TRUE

CRCMatches(p) == p.crcOK

AddsPacket ==
  /\ ReadsPacket /\ CRCMatches(Head(input))
  /\ packet' = [num |-> Head(input).num, data |-> Head(input).data,
                payload |-> NewPayload]
  /\ mem' = mem \cup {NewPayload}
  /\ input' = Tail(input)
  /\ pc' = "add"
  /\ UNCHANGED <<heap, head, prevNode, nextNode,
                 prog, infile, counter, curr, outfile, delivered, out>>

\* Mutant: the payload of a refused packet is not freed.
RefusesPacket_NoFree ==
  /\ ReadsPacket /\ ~ CRCMatches(Head(input))
  /\ mem' = mem \cup {NewPayload}
  /\ input' = Tail(input)
  /\ UNCHANGED <<heap, head, packet, prevNode, nextNode, pc,
                 prog, infile, counter, curr, outfile, delivered, out>>

RefusesPacket ==
  /\ ReadsPacket /\ ~ CRCMatches(Head(input))
  /\ input' = Tail(input)
  /\ UNCHANGED <<listVars, prog, infile, counter, curr, outfile, delivered, out>>

EndOfPackets ==
  /\ prog = "readstream" /\ pc = "read" /\ input = << >>
  /\ curr' = head /\ pc' = "print"
  /\ UNCHANGED <<heap, head, mem, packet, prevNode, nextNode,
                 prog, infile, counter, outfile, delivered, input, out>>

\* printf's %s ends at a zero byte, whatever the precision.
Shown(data) == IF data.kind = "binary" THEN [data EXCEPT !.kind = "beginning"]
               ELSE data

PrintPacket ==
  /\ pc = "print" /\ curr # NULL /\ Num(curr) = counter
  /\ out' = Append(out, Shown(heap[curr].p.data))
  /\ curr' = heap[curr].next
  /\ counter' = counter + 1
  /\ UNCHANGED <<listVars, prog, infile, outfile, delivered, input>>

Missing == NoDatum

PrintMissing ==
  /\ pc = "print" /\ curr # NULL /\ Num(curr) # counter
  /\ out' = Append(out, Missing)
  /\ counter' = counter + 1
  /\ UNCHANGED <<listVars, prog, infile, curr, outfile, delivered, input>>

----------------------------------------------------------------------------

Packetize == PacketizeBlock \/ EndOfFile \/ WritePacket

ReadStream == AddsPacket \/ RefusesPacket \/ EndOfPackets \/ PrintPacket \/ PrintMissing

Next == Packetize \/ ReadStream \/ AddStep \/ StartFree \/ FreeNode \/ Exit \/ Transfer

Spec == Init /\ [][Next]_vars

\* Each program runs on while it can, and readstream is run on what came of
\* packetize's file.
FairSpec == Spec /\ WF_vars(Next)

----------------------------------------------------------------------------
(* Properties                                                              *)

PCs == {"read", "add", "search", "write", "print", "free", "exited", "crashed"}

\* Every variable stays in its range, block numbers within 16 bits (data.h:13).
TypeOK ==
  /\ ListTypeOK /\ pc \in PCs
  /\ prog \in {"packetize", "readstream"} /\ infile \in Files
  /\ counter \in 0 .. NumMod + 1 /\ curr \in 0 .. Len(heap)
  /\ outfile \in Seq(FilePackets)
  /\ delivered \in Seq(FilePackets) /\ input \in Seq(FilePackets)
  /\ Len(input) <= Len(delivered)
  /\ \A i \in 1 .. Len(input) :
       input[i] = delivered[Len(delivered) - Len(input) + i]
  /\ out \in Seq(Datum)

\* In whatever order packets come, the list holds all live nodes and none that
\* was freed, each once, by growing numbers, and each allocated payload belongs to
\* one node; free_list keeps what it has not reached yet (list.c:27-134).
ListInOrder ==
  /\ InOrder(IF pc \in {"free", "exited"} THEN curr ELSE head)
  /\ mem = {heap[i].p.payload : i \in Listed} \cup
           (IF InHand THEN {packet.payload} ELSE {})
  /\ \A i, j \in Listed : heap[i].p.payload = heap[j].p.payload => i = j
  /\ InHand => \A i \in Listed : heap[i].p.payload # packet.payload

IsLive(i) == i = NULL \/ (i \in 1 .. Len(heap) /\ heap[i].live)

\* No loop, in addPacket, the two output loops or free_list, stands on a node
\* that was freed (list.c:56-60, 124-132, packetize.c:119, readstream.c:165).
CursorsLive ==
  /\ pc = "search" => IsLive(prevNode) /\ IsLive(nextNode)
  /\ pc \in {"write", "print", "free"} => IsLive(curr)

\* packetize writes each block once, in order, under its own number, whenever it
\* comes to an end: numbers that wrap never mix two blocks (packetize.c:95-135).
PacketsInOrder ==
  prog = "readstream" \/ pc = "exited" =>
    outfile = [i \in 1 .. Len(infile) |->
                 OnDisk(i - 1, [block |-> i, kind |-> infile[i]], TRUE)]

\* When a program ends, all nodes and payloads are freed, those of repeated and
\* refused packets too (list.c:82-83, 119-134, readstream.c:131).
NothingLeaked ==
  pc = "exited" => mem = {} /\ \A i \in 1 .. Len(heap) : ~ heap[i].live

Arrived(p) == \E i \in 1 .. Len(delivered) : delivered[i] = p

Undetected == \E i \in 1 .. Len(delivered) :
                delivered[i].crcOK /\ delivered[i].data.kind = "changed"

\* In whatever order the packets come, and whatever damaged copies come with them,
\* a file of text is printed as it was once each packet came whole and readstream
\* has exited ("Print to stdout the reconstructed data", readstream.c:15).  Left
\* out: a repeat of the packet that is first in the list, after which it does not
\* exit but crashes, and files with zero bytes, which printf does not print whole.
FileRebuilt ==
  /\ prog = "readstream" /\ pc = "exited"
  /\ \A i \in 1 .. Len(infile) : infile[i] = "text"
  /\ \A i \in 1 .. Len(outfile) : Arrived(outfile[i])
  /\ ~ Undetected
  => out = [i \in 1 .. Len(infile) |-> [block |-> i, kind |-> infile[i]]]

Held == LET held == {i \in Listed : prog = "readstream"} IN
        [k \in {Num(i) : i \in held} |->
           heap[CHOOSE i \in held : Num(i) = k].p.data]

Abs == INSTANCE Reassembly WITH
  todo <- IF prog = "readstream" /\ InHand
          THEN <<OnDisk(packet.num, packet.data, TRUE)>> \o input ELSE input,
  store <- Held

\* readstream, its list of nodes and its loops included, does what Reassembly
\* says of the packets it is given.
ImplementsReassembly == Abs!Spec

\* The loops end: both programs come to an end or crash (list.c:56, 124,
\* packetize.c:119, readstream.c:165: packet_counter meets every number).
ProgramsEnd == <> (pc = "crashed" \/ (prog = "readstream" /\ pc = "exited"))

\* "If a packet of a given block_num already exists in the linked list, replace
\* it": addPacket comes to an end for every packet (list.c:17-19).
RepeatsReplaced == pc # "crashed"
=============================================================================
