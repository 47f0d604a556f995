--------------------------- MODULE XmodemSystem ----------------------------
(***************************************************************************)
(* xmodemserver serving its clients: the composition of XmodemServer with  *)
(* one XmodemSender per client, over XmodemNet, and what the whole is to   *)
(* guarantee.                                                              *)
(***************************************************************************)
EXTENDS XmodemServer, XmodemSender

vars == <<netVars, serverVars, snd>>

Init == NetInit /\ ServerInit /\ SenderInit

ServerActs == ServerStep /\ UNCHANGED snd

ClientActs(c) ==
  (Progress(c) \/ NoticeEnd(c, server = "running")) /\ UNCHANGED serverVars

FaultHappens(c) == Fault(c) /\ UNCHANGED serverVars

Next ==
  \/ ServerActs
  \/ \E c \in Clients : ClientActs(c) \/ FaultHappens(c)

Spec == Init /\ [][Next]_vars

\* The kernel runs the server whenever a system call of it can return, and every
\* client that is alive sends, and reads what arrived.  Nothing makes a fault
\* happen.
FairSpec ==
  /\ Spec
  /\ WF_vars(ServerActs)
  /\ \A c \in Clients : WF_vars(ClientActs(c))

----------------------------------------------------------------------------
(* Type and memory safety                                                  *)

\* Every variable, and every field of a client's struct, stays in its range: in
\* particular current_block is a byte, through its wrap after block 255
\* (xmodemserver.c:249-254).
TypeOK == NetTypeOK /\ ServerTypeOK /\ SenderTypeOK

\* The structs that Malloc returned and free has not taken back.
Allocated == {c \in Clients : cl[c].state # "free"}

\* No pointer of a live struct leads to a freed one, next and prev are each
\* other's inverse, start is the struct without a prev.
PointersAgree ==
  /\ start \in Allocated \cup {NULL}
  /\ \A c \in Allocated :
       /\ nxt[c] \in Allocated \cup {NULL}
       /\ prv[c] \in Allocated \cup {NULL}
       /\ nxt[c] # NULL => prv[nxt[c]] = c
       /\ prv[c] # NULL => nxt[prv[c]] = c
       /\ prv[c] = NULL <=> c = start

\* S is closed under the walk from the start of the list.
Walked(S) ==
  /\ start \in S \cup {NULL}
  /\ \A c \in S : nxt[c] \in S \cup {NULL}

\* The list holds exactly the clients that select watches: whatever the order of
\* accepts and drops, a walk from start reaches every live struct and no freed
\* one, so no client is lost and none is used after free (drop_client, and the
\* insertion at xmodemserver.c:128-137).
ListWellFormed ==
  /\ PointersAgree
  /\ cset = Allocated
  /\ \A S \in SUBSET Allocated : Walked(S) => S = Allocated

\* The local variable clients never points to a struct that was freed, though
\* every drop frees the struct it points to (xmodemserver.c:215, 288-295); and a
\* branch of the `if' chain runs only for a live client in its state.
CursorLive ==
  /\ pc # "select" => cursor \in Allocated \cup {NULL}
  /\ pc \notin {"select", "scan"} =>
       cursor \in Allocated /\ cl[cursor].state = pc

----------------------------------------------------------------------------
(* The protocol                                                            *)

\* Where frame f was cut short because c went away while sending it.
CutIn(c, left, full) ==
  \/ left = full
  \/ conn[c] = "closed" /\ Len(toServer[c]) = 1 /\ left < full

\* Reader and sender agree where a frame begins: a byte that pre_block takes for
\* SOH, STX or EOT is one, never payload, and get_block asks for exactly what is
\* left of its block, however the reads split it, after a NAK and through the
\* retransmissions (inbuf and blocksize, xmodemserver.c:157-205, 257, 267).
InSync ==
  \A c \in Allocated :
    LET q == toServer[c] IN
    /\ cl[c].state = "initial" =>
         q = << >> \/ CutIn(c, Head(q).left, NameLen[c] + 2 - cl[c].inbuf)
    /\ cl[c].state \in {"pre_block", "check_block", "finished"} /\ q # << >> =>
         CASE Head(q).mark \in {SOH, STX} ->
                CutIn(c, Head(q).left, 1 + BlockSize(Head(q).mark))
           [] OTHER -> Head(q).left = 1
    /\ cl[c].state = "pre_block" => cl[c].inbuf = 0
    /\ cl[c].state = "get_block" /\ q # << >> =>
         /\ Head(q).mark \in {SOH, STX}
         /\ cl[c].blocksize = BlockSize(Head(q).mark)
         /\ CutIn(c, Head(q).left, cl[c].blocksize - cl[c].inbuf)

\* The blocks of a file arrive in it once each and in order, and no block whose
\* CRC or number was wrong does: under damage, timers that expire and send a
\* block twice, clients that vanish, and block numbers that wrap
\* (xmodemserver.c:207-276).
FileIsPrefix ==
  \A c \in Clients : \A i \in DOMAIN file[c].data : file[c].data[i] = i

\* A client takes a block as delivered, and the transfer as complete, only when
\* the server has stored it: an ACK is written after the fwrite, and not at all
\* when that fails (xmodemserver.c:237-245, 281-284).
AckMeansStored ==
  \A c \in Clients :
    /\ snd[c].next - 1 <= Len(file[c].data)
    /\ snd[c].phase = "done" => c \in finished

\* "File Transfer Finished" is printed for complete files only
\* (xmodemserver.c:278-281).
FinishedMeansComplete ==
  \A c \in finished : Len(file[c].data) = Blocks[c]

\* The same, of the clients that stay to the end: nothing they send, late or
\* twice, and no stray '\n' is taken for the EOT (xmodemserver.c:177-195).
FinishedOrGone ==
  \A c \in finished : conn[c] = "closed" \/ Len(file[c].data) = Blocks[c]

\* Clients that wait for their last ACK before they close do not bring the server
\* down: it is never writing to, or reading from, one that has left (the
\* wrappers Read and Write exit on any error, wrappers.c:16-34).  Only a failing
\* fwrite may end it (xmodemserver.c:238-241).
StaysUp == server \in {"running", "store_error"}

\* The answers to block b that c has still to read.
AcksOf(c, b) ==
  {i \in DOMAIN toClient[c] : toClient[c][i] = [byte |-> "ACK", of |-> b]}

\* Each copy of a block is answered once: a client that sent b, and after every
\* fault may have sent it again, never has more ACKs of b to read than that ("If
\* we got a repeat block, just send the client an ACK.", xmodemserver.c:271).
OneAnswerPerCopy ==
  \A c \in Clients : \A b \in 1 .. Blocks[c] :
    Cardinality(AcksOf(c, b)) <= 1 + snd[c].faults

\* Every client ends its transfer, finished or dropped: no interleaving of the
\* clients starves one, and the accepts, the blocking reads and the clients the
\* walk skips after a drop delay none for ever.
EveryTransferEnds == \A c \in Clients : <>(snd[c].phase \in {"done", "gone"})

----------------------------------------------------------------------------
(* The server implements Upload, for clients that do not go away first.    *)

Status(c) == IF c \in finished THEN "complete"
             ELSE IF conn[c] = "dropped" THEN "given_up" ELSE "open"

Abs == INSTANCE Upload WITH
         contents <- [c \in Clients |-> file[c].data],
         status <- [c \in Clients |-> Status(c)]

\* What the loop does to the files is what Upload allows: blocks in order, a
\* report of completion for complete files only, nothing written after it or
\* after a drop.
ImplementsUpload == Abs!UploadSpec
=============================================================================
