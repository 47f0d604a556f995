--------------------------- MODULE XmodemSender ----------------------------
(***************************************************************************)
(* The clients of xmodemserver.  Their program is not in the repository:   *)
(* what follows is the sender that a4/xmodemserver.c expects, as far as its*)
(* reads and replies tell, with the faults the server has branches for: a  *)
(* block whose CRC or number arrives wrong, a timer that expires and sends *)
(* a block again, a client that goes away at any time.                     *)
(***************************************************************************)
EXTENDS XmodemNet

CONSTANTS
  Marks,        \* the kinds of block in use: SOH, STX or both
  Faults,       \* which faults happen
  MaxFaults     \* how many of them one client may suffer

ASSUME SenderAssumption ==
  /\ Marks \subseteq {SOH, STX}
  /\ Faults \subseteq {"crc", "number", "timeout", "disconnect"}
  /\ MaxFaults \in Nat

VARIABLE snd    \* snd[c]: where c is in its transfer

\* Between SendBlock and its answer a client is in waitAck, between EOT and its
\* answer in waitEot; done: it was told that the transfer is complete.
Phases == {"idle", "hello", "waitC", "send", "waitAck", "waitEot", "done",
           "gone"}

\* next: the block to send, or to be answered, next.
Sender == [phase : Phases, next : Nat \ {0}, faults : 0 .. MaxFaults]

SenderTypeOK == snd \in [Clients -> Sender]

SenderInit ==
  snd = [c \in Clients |-> [phase |-> "idle", next |-> 1, faults |-> 0]]

----------------------------------------------------------------------------

\* A fault of kind f may still happen to c.
MayFail(c, f) == f \in Faults /\ snd[c].faults < MaxFaults

\* c writes frame f; a connection that the server dropped takes nothing.
Send(c, f) ==
  toServer' = IF conn[c] = "open" THEN [toServer EXCEPT ![c] = Append(@, f)]
              ELSE toServer

\* Block i of a file, damaged or not, as it will be found in the buffer.
Damage == {"none", "crc", "number"}

FileBlock(i, damage) ==
  LET n == i % (MaxByte + 1) IN
  [idx |-> i, num |-> n,
   inv |-> IF damage = "number" THEN n ELSE MaxByte - n,
   crcOK |-> damage # "crc"]

Connect(c) ==
  /\ snd[c].phase = "idle"
  /\ snd' = [snd EXCEPT ![c].phase = "hello"]
  /\ conn' = [conn EXCEPT ![c] = "open"]
  /\ backlog' = Append(backlog, c)
  /\ UNCHANGED <<toServer, toClient>>

SendName(c) ==
  /\ snd[c].phase = "hello"
  /\ snd' = [snd EXCEPT ![c].phase = "waitC"]
  /\ Send(c, NameFrame(c))
  /\ UNCHANGED <<conn, backlog, toClient>>

SendBlock(c, mark, damage) ==
  /\ snd[c].phase = "send" /\ snd[c].next <= Blocks[c]
  /\ damage = "none" \/ MayFail(c, damage)
  /\ snd' = [snd EXCEPT ![c].phase = "waitAck",
               ![c].faults = IF damage = "none" THEN @ ELSE @ + 1]
  /\ Send(c, BlockFrame(mark, FileBlock(snd[c].next, damage)))
  /\ UNCHANGED <<conn, backlog, toClient>>

SendEot(c) ==
  /\ snd[c].phase = "send" /\ snd[c].next > Blocks[c]
  /\ snd' = [snd EXCEPT ![c].phase = "waitEot"]
  /\ Send(c, EotFrame)
  /\ UNCHANGED <<conn, backlog, toClient>>

----------------------------------------------------------------------------
(* The answers.                                                            *)

Waiting(c) == snd[c].phase \in {"waitC", "waitAck", "waitEot"}

\* c reads its oldest reply.
Receive(c) ==
  /\ Waiting(c) /\ toClient[c] # << >>
  /\ toClient' = [toClient EXCEPT ![c] = Tail(@)]
  /\ UNCHANGED <<backlog, toServer>>

ReceiveC(c) ==
  /\ Receive(c)
  /\ snd[c].phase = "waitC" /\ Head(toClient[c]).byte = "C"
  /\ snd' = [snd EXCEPT ![c].phase = "send"]
  /\ UNCHANGED conn

ReceiveAck(c) ==
  /\ Receive(c)
  /\ snd[c].phase = "waitAck" /\ Head(toClient[c]).byte = "ACK"
  /\ snd' = [snd EXCEPT ![c].phase = "send", ![c].next = @ + 1]
  /\ UNCHANGED conn

\* A NAK: the block, or EOT, is sent again.
ReceiveNak(c) ==
  /\ Receive(c)
  /\ snd[c].phase \in {"waitAck", "waitEot"} /\ Head(toClient[c]).byte = "NAK"
  /\ snd' = [snd EXCEPT ![c].phase = "send"]
  /\ UNCHANGED conn

\* The ACK of EOT: the client closes its side.
ReceiveDone(c) ==
  /\ Receive(c)
  /\ snd[c].phase = "waitEot" /\ Head(toClient[c]).byte = "ACK"
  /\ snd' = [snd EXCEPT ![c].phase = "done"]
  /\ conn' = [conn EXCEPT ![c] = IF @ = "open" THEN "closed" ELSE @]

----------------------------------------------------------------------------
(* Faults.                                                                 *)

\* No answer in time: the block is sent again.
Timeout(c) ==
  /\ snd[c].phase = "waitAck" /\ MayFail(c, "timeout")
  /\ snd' = [snd EXCEPT ![c].phase = "send", ![c].faults = @ + 1]
  /\ UNCHANGED netVars

\* q without the end of its last frame, of which k bytes remain.
CutShort(q, k) == [q EXCEPT ![Len(q)].left = k]

\* The client goes away, perhaps in the middle of the frame it was sending.
Disconnect(c) ==
  /\ snd[c].phase \notin {"idle", "done", "gone"} /\ MayFail(c, "disconnect")
  /\ conn[c] = "open"
  /\ snd' = [snd EXCEPT ![c].phase = "gone", ![c].faults = @ + 1]
  /\ conn' = [conn EXCEPT ![c] = "closed"]
  /\ \/ UNCHANGED toServer
     \/ /\ toServer[c] # << >>
        /\ \E k \in 1 .. toServer[c][Len(toServer[c])].left - 1 :
             toServer' = [toServer EXCEPT ![c] = CutShort(@, k)]
  /\ UNCHANGED <<backlog, toClient>>

\* The connection is closed by the server, or the server's process has ended.
NoticeEnd(c, running) ==
  /\ snd[c].phase \notin {"idle", "done", "gone"}
  /\ conn[c] = "dropped" \/ ~ running
  /\ Waiting(c) => toClient[c] = << >>
  /\ snd' = [snd EXCEPT ![c].phase = "gone"]
  /\ UNCHANGED netVars

----------------------------------------------------------------------------

\* What a client does on its own, and as long as it is alive surely does.
Progress(c) ==
  \/ Connect(c) \/ SendName(c)
  \/ \E mark \in Marks, damage \in Damage : SendBlock(c, mark, damage)
  \/ SendEot(c)
  \/ ReceiveC(c) \/ ReceiveAck(c) \/ ReceiveNak(c) \/ ReceiveDone(c)

Fault(c) == Timeout(c) \/ Disconnect(c)
=============================================================================
