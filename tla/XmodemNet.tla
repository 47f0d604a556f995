----------------------------- MODULE XmodemNet -----------------------------
(***************************************************************************)
(* What lies between a4/xmodemserver.c and its clients: one TCP connection *)
(* per client, as the server's read(2), write(2), select(2) and accept(2)  *)
(* see it.  A connection carries frames: the file name followed by a       *)
(* network newline, a block announced by SOH or STX, or the single byte    *)
(* EOT.  A frame is kept whole, with the number of its bytes the server    *)
(* has not read yet, because read(2) may return any part of what arrived.  *)
(***************************************************************************)
EXTENDS Integers, Sequences, FiniteSets

CONSTANTS
  Clients,    \* the connections clients may make
  NULL,       \* the null Client pointer
  MaxByte,    \* the largest value of a byte, 255 in the code
  SohSize,    \* bytes of a SOH block after its SOH: 132 in the code
  StxSize,    \* bytes of a STX block after its STX: 1028 in the code
  NameCap,    \* sizeof(filename): 20 in the code
  NameLen,    \* NameLen[c]: the length of the file name that c sends
  Blocks,     \* Blocks[c]: the number of blocks of c's file
  SendBuf     \* replies a connection holds before write(2) blocks

\* The control characters of xmodemserver.h, and the '\n' of a newline.
SOH == 1
STX == 2
EOT == 4
LF  == 10

Bytes == 0 .. MaxByte

\* NULL is no client; block numbers are bytes, and there are an even number of
\* bytes (so a byte is never its own complement); a block has a number, its
\* complement and more.
ASSUME NetAssumption ==
  /\ NULL \notin Clients
  /\ MaxByte \in Nat /\ MaxByte >= LF /\ MaxByte % 2 = 1
  /\ SohSize \in Nat /\ SohSize >= 2
  /\ StxSize \in Nat /\ StxSize >= 2
  /\ NameCap \in Nat /\ NameCap >= 2
  /\ NameLen \in [Clients -> Nat]
  /\ Blocks \in [Clients -> Nat]
  /\ SendBuf \in Nat \ {0}

VARIABLES
  conn,       \* conn[c]: the connection of c
  backlog,    \* connections accept(2) has not returned yet, oldest first
  toServer,   \* toServer[c]: the frames c sent, unread
  toClient    \* toClient[c]: the replies the server wrote, unread

netVars == <<conn, backlog, toServer, toClient>>

\* "closed": the client went away first.  "dropped": the server closed it.
ConnStates == {"none", "open", "closed", "dropped"}

\* A block as the server finds it in its buffer.  idx is its place in the
\* file, the identity of its payload; num and inv are its first two bytes;
\* crcOK says whether its last two are the CRC of the payload.
Block == [idx : Nat, num : Bytes, inv : Bytes, crcOK : BOOLEAN]

NoBlock == [idx |-> 0, num |-> 0, inv |-> MaxByte, crcOK |-> TRUE]

\* mark is the byte a reader of pre_block sees: the leading control character,
\* or the '\n' when a file name's last byte is all that is left.
Frame == [mark : {SOH, STX, EOT, LF}, left : Nat, blk : Block]

Reply == [byte : {"C", "ACK", "NAK"}, of : Nat]

BlockSize(mark) == IF mark = SOH THEN SohSize ELSE StxSize

NameFrame(c) == [mark |-> LF, left |-> NameLen[c] + 2, blk |-> NoBlock]

EotFrame == [mark |-> EOT, left |-> 1, blk |-> NoBlock]

BlockFrame(mark, b) == [mark |-> mark, left |-> 1 + BlockSize(mark), blk |-> b]

NetInit ==
  /\ conn = [c \in Clients |-> "none"]
  /\ backlog = << >>
  /\ toServer = [c \in Clients |-> << >>]
  /\ toClient = [c \in Clients |-> << >>]

NetTypeOK ==
  /\ conn \in [Clients -> ConnStates]
  /\ backlog \in Seq(Clients)
  /\ toServer \in [Clients -> Seq(Frame)]
  /\ toClient \in [Clients -> Seq(Reply)]

----------------------------------------------------------------------------
(* The system calls of the server.                                         *)

\* select(2) reports c: bytes, or an end of file, to read.
Readable(c) == toServer[c] # << >> \/ conn[c] = "closed"

\* The results read(2) may return on c's socket when asked for size bytes; none
\* while it blocks, 0 at the end of the file or when nothing was asked for.
\* It does not read past a frame: a client sends the next one after an answer.
ReadCounts(c, size) ==
  IF size = 0 THEN {0}
  ELSE IF toServer[c] # << >>
       THEN {n \in 1 .. Head(toServer[c]).left : n <= size}
       ELSE {n \in {0} : conn[c] = "closed"}

\* What is left to read once n bytes were taken.
AfterRead(q, n) ==
  IF n = 0 THEN q
  ELSE IF n = Head(q).left THEN Tail(q)
       ELSE [q EXCEPT ![1].left = @ - n]

\* write(2) on c's socket, through the wrapper Write: it blocks while an open
\* connection has no room; when the peer is gone the bytes are lost, or the call
\* fails (EPIPE: SIGPIPE is ignored, but the wrapper exits).
CanWrite(c) == conn[c] # "open" \/ Len(toClient[c]) < SendBuf

WriteOutcomes(c) ==
  IF conn[c] = "open" THEN {"running"} ELSE {"running", "write_error"}

AfterWrite(c, byte, of) ==
  IF conn[c] = "open"
  THEN [toClient EXCEPT ![c] = Append(@, [byte |-> byte, of |-> of])]
  ELSE toClient
=============================================================================
