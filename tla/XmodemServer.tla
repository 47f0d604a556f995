--------------------------- MODULE XmodemServer ----------------------------
(***************************************************************************)
(* The server of a4/xmodemserver.c: one process, one loop.  select(2)      *)
(* reports the readable sockets; either one connection is accepted, or the *)
(* list of clients is walked once and every client that was reported runs  *)
(* the chain of `if (clients->state == ...)' that starts at its state.     *)
(* One action is the code between two system calls; pc names the place.    *)
(* The list is kept pointer by pointer, so that a dangling one would show. *)
(***************************************************************************)
EXTENDS XmodemNet

CONSTANTS
  JunkBytes,    \* what malloc(3) may leave in buf[0]
  JunkLFs,      \* may it leave a '\n' after the '\r' that was read last
  OpenResults,  \* how open_file_in_dir may end
  StoreResults  \* how fwrite may end

ASSUME ServerAssumption ==
  /\ JunkBytes \subseteq Bytes /\ JunkBytes # {}
  /\ JunkLFs \subseteq BOOLEAN /\ JunkLFs # {}
  /\ OpenResults \subseteq {"open", "failed", "no_dir"} /\ OpenResults # {}
  /\ StoreResults \subseteq {"stored", "failed"} /\ "stored" \in StoreResults

VARIABLES
  server,       \* "running", or why the process ended
  pc,           \* the system call or test the process is at
  cursor,       \* the local variable clients
  rset,         \* the descriptors select(2) reported
  cset,         \* the descriptors it watches
  start,        \* the first client of the list
  nxt, prv,     \* next and prev of every client struct
  cl,           \* the other fields of the structs
  file,         \* what each client's file has been given
  finished      \* clients for which "File Transfer Finished" was printed

listVars == <<start, nxt, prv>>
serverVars == <<server, pc, cursor, rset, cset, start, nxt, prv, cl, file,
                finished>>

\* "free" is a struct before Malloc or after free.
RecStates == {"free", "initial", "pre_block", "get_block", "check_block",
              "finished"}

PCs == {"select", "scan"} \cup (RecStates \ {"free"})

Stops == {"running", "write_error", "read_error", "open_error", "store_error",
          "crashed"}

Struct == [state : RecStates, inbuf : Nat, buf0 : Bytes, junkLF : BOOLEAN,
           blocksize : {0, SohSize, StxSize}, current_block : Bytes,
           blk : Block, fp : {"unset", "open", "failed"}]

FileState == [name : Nat, data : Seq(Nat)]

Pointer == Clients \cup {NULL}

ServerTypeOK ==
  /\ server \in Stops
  /\ pc \in PCs
  /\ cursor \in Pointer
  /\ rset \subseteq Clients
  /\ cset \subseteq Clients
  /\ start \in Pointer
  /\ nxt \in [Clients -> Pointer]
  /\ prv \in [Clients -> Pointer]
  /\ cl \in [Clients -> Struct]
  /\ file \in [Clients -> FileState]
  /\ finished \subseteq Clients

FreeStruct == [state |-> "free", inbuf |-> 0, buf0 |-> 0, junkLF |-> FALSE,
               blocksize |-> 0, current_block |-> 0, blk |-> NoBlock,
               fp |-> "unset"]

ServerInit ==
  /\ server = "running"
  /\ pc = "select"
  /\ cursor = NULL
  /\ rset = {}
  /\ cset = {}
  /\ start = NULL
  /\ nxt = [c \in Clients |-> NULL]
  /\ prv = [c \in Clients |-> NULL]
  /\ cl = [c \in Clients |-> FreeStruct]
  /\ file = [c \in Clients |-> [name |-> 0, data |-> << >>]]
  /\ finished = {}

----------------------------------------------------------------------------
(* select, accept and the walk over the list                               *)

\* The listening socket is served before any client, and alone: `continue'.
Accept ==
  /\ server = "running" /\ pc = "select"
  /\ backlog # << >>
  /\ LET c == Head(backlog) IN
     /\ cset' = cset \cup {c}
     /\ \E byte \in JunkBytes, lf \in JunkLFs :
          cl' = [cl EXCEPT ![c] = [FreeStruct EXCEPT !.state = "initial",
                                     !.buf0 = byte, !.junkLF = lf]]
     /\ nxt' = [nxt EXCEPT ![c] = start]
     /\ prv' = [d \in Clients |->
                  IF d = c THEN NULL ELSE IF d = start THEN c ELSE prv[d]]
     /\ start' = c
  /\ backlog' = Tail(backlog)
  /\ UNCHANGED <<server, pc, cursor, rset, file, finished, conn, toServer,
                 toClient>>

\* select(2) returns when a watched socket is readable.
Poll ==
  /\ server = "running" /\ pc = "select"
  /\ backlog = << >>
  /\ \E c \in cset : Readable(c)
  /\ rset' = {c \in cset : Readable(c)}
  /\ cursor' = start
  /\ pc' = "scan"
  /\ UNCHANGED <<server, cset, listVars, cl, file, finished, netVars>>

EndScan ==
  /\ server = "running" /\ pc = "scan"
  /\ cursor = NULL
  /\ pc' = "select"
  /\ UNCHANGED <<server, cursor, rset, cset, listVars, cl, file, finished,
                 netVars>>

SkipClient(c) ==
  /\ server = "running" /\ pc = "scan"
  /\ cursor = c /\ c \notin rset
  /\ cursor' = nxt[c]
  /\ UNCHANGED <<server, pc, rset, cset, listVars, cl, file, finished, netVars>>

VisitClient(c) ==
  /\ server = "running" /\ pc = "scan"
  /\ cursor = c /\ c \in rset
  /\ cl[c].state # "free"
  /\ pc' = cl[c].state
  /\ UNCHANGED <<server, cursor, rset, cset, listVars, cl, file, finished,
                 netVars>>

\* The process is at the `if' of state s, serving c.
At(s, c) == server = "running" /\ pc = s /\ cursor = c

\* No later `if' of the chain applies: on to the next client.
EndVisit(c) == pc' = "scan" /\ cursor' = nxt[c]

\* Mutant: the client after c keeps c as its prev.
Unlink_NoPrev(c) ==
  /\ start' = IF c = start THEN nxt[c] ELSE start
  /\ prv' = prv
  /\ nxt' = IF prv[c] # NULL THEN [nxt EXCEPT ![prv[c]] = nxt[c]] ELSE nxt

\* The unlinking done by drop_client.
Unlink(c) ==
  /\ start' = IF c = start THEN nxt[c] ELSE start
  /\ prv' = IF nxt[c] # NULL THEN [prv EXCEPT ![nxt[c]] = prv[c]] ELSE prv
  /\ nxt' = IF prv[c] # NULL THEN [nxt EXCEPT ![prv[c]] = nxt[c]] ELSE nxt

\* FD_CLR and drop_client, of a client whose file is open.
Drop(c) ==
  /\ cset' = cset \ {c}
  /\ Unlink(c)
  /\ cl' = [cl EXCEPT ![c] = FreeStruct]
  /\ conn' = [conn EXCEPT ![c] = IF @ = "open" THEN "dropped" ELSE @]
  /\ toServer' = [toServer EXCEPT ![c] = << >>]

----------------------------------------------------------------------------
(* state == initial *)

\* find_network_newline over the name read so far.  It looks at one character
\* more than was read: a '\r' that came without its '\n' is enough when the
\* buffer happens to hold '\n' behind it.  The caller asks for > 0.
NewlineFound(c, inbuf) ==
  /\ NameLen[c] > 0
  /\ \/ inbuf = NameLen[c] + 2
     \/ inbuf = NameLen[c] + 1 /\ cl[c].junkLF

ReadPartOfName(c) ==
  /\ At("initial", c)
  /\ \E n \in ReadCounts(c, NameCap - cl[c].inbuf) :
       /\ ~ NewlineFound(c, cl[c].inbuf + n)
       /\ cl' = [cl EXCEPT ![c].inbuf = @ + n]
       /\ toServer' = [toServer EXCEPT ![c] = AfterRead(@, n)]
  /\ EndVisit(c)
  /\ UNCHANGED <<server, rset, cset, listVars, file, finished, conn, backlog,
                 toClient>>

\* The name is complete: open the file, send 'C', fall through to pre_block.
OpenFile(c) ==
  /\ At("initial", c)
  /\ CanWrite(c)
  /\ \E n \in ReadCounts(c, NameCap - cl[c].inbuf), r \in OpenResults \ {"no_dir"} :
       /\ NewlineFound(c, cl[c].inbuf + n)
       /\ toServer' = [toServer EXCEPT ![c] = AfterRead(@, n)]
       /\ file' = [file EXCEPT ![c].name = cl[c].inbuf + n - 2]
       /\ cl' = [cl EXCEPT ![c].state = "pre_block", ![c].inbuf = 0,
                           ![c].current_block = 1, ![c].fp = r]
  /\ toClient' = AfterWrite(c, "C", 0)
  /\ server' \in WriteOutcomes(c)
  /\ pc' = "pre_block"
  /\ UNCHANGED <<cursor, rset, cset, listVars, finished, conn, backlog>>

\* open_file_in_dir exits when the directory cannot be made.
NoDirectory(c) ==
  /\ At("initial", c)
  /\ "no_dir" \in OpenResults
  /\ \E n \in ReadCounts(c, NameCap - cl[c].inbuf) :
       NewlineFound(c, cl[c].inbuf + n)
  /\ server' = "open_error"
  /\ UNCHANGED <<pc, cursor, rset, cset, listVars, cl, file, finished, netVars>>

----------------------------------------------------------------------------
(* state == pre_block *)

\* The byte that buf[0] holds after Read(clientfd, buf, 1) returned n: at the end
\* of the file it is what buf[0] held before.
ReadMark(c, n) == IF n = 0 THEN cl[c].buf0 ELSE Head(toServer[c]).mark

StartBlock(c) ==
  /\ At("pre_block", c)
  /\ \E n \in ReadCounts(c, 1) :
       /\ ReadMark(c, n) \in {SOH, STX}
       /\ cl' = [cl EXCEPT ![c].state = "get_block",
                           ![c].buf0 = ReadMark(c, n),
                           ![c].blocksize = BlockSize(ReadMark(c, n))]
       /\ toServer' = [toServer EXCEPT ![c] = AfterRead(@, n)]
  /\ pc' = "get_block"
  /\ UNCHANGED <<server, cursor, rset, cset, listVars, file, finished, conn,
                 backlog, toClient>>

\* Mutant: whatever does not announce a block ends the transfer.
EndOfTransmission_AnyByte(c) ==
  /\ At("pre_block", c)
  /\ \E n \in ReadCounts(c, 1) :
       /\ ReadMark(c, n) \notin {SOH, STX}
       /\ cl' = [cl EXCEPT ![c].state = "finished", ![c].buf0 = EOT]
       /\ toServer' = [toServer EXCEPT ![c] = AfterRead(@, n)]
  /\ pc' = "finished"
  /\ UNCHANGED <<server, cursor, rset, cset, listVars, file, finished, conn,
                 backlog, toClient>>

EndOfTransmission(c) ==
  /\ At("pre_block", c)
  /\ \E n \in ReadCounts(c, 1) :
       /\ ReadMark(c, n) = EOT
       /\ cl' = [cl EXCEPT ![c].state = "finished", ![c].buf0 = EOT]
       /\ toServer' = [toServer EXCEPT ![c] = AfterRead(@, n)]
  /\ pc' = "finished"
  /\ UNCHANGED <<server, cursor, rset, cset, listVars, file, finished, conn,
                 backlog, toClient>>

NakMark(c) ==
  /\ At("pre_block", c)
  /\ CanWrite(c)
  /\ \E n \in ReadCounts(c, 1) :
       /\ ReadMark(c, n) \notin {SOH, STX, EOT}
       /\ cl' = [cl EXCEPT ![c].buf0 = ReadMark(c, n)]
       /\ toServer' = [toServer EXCEPT ![c] = AfterRead(@, n)]
  /\ toClient' = AfterWrite(c, "NAK", 0)
  /\ server' \in WriteOutcomes(c)
  /\ EndVisit(c)
  /\ UNCHANGED <<rset, cset, listVars, file, finished, conn, backlog>>

----------------------------------------------------------------------------
(* state == get_block *)

\* Mutant: inbuf is set to what was read, not advanced by it.
GetBlock_Restart(c) ==
  /\ At("get_block", c)
  /\ \E n \in ReadCounts(c, cl[c].blocksize - cl[c].inbuf) :
       LET full == n = cl[c].blocksize
           blk  == IF n = 0 THEN cl[c].blk ELSE Head(toServer[c]).blk IN
       /\ cl' = [cl EXCEPT ![c].inbuf = n,
                           ![c].blk = blk,
                           ![c].buf0 = IF n = 0 THEN @ ELSE blk.num,
                           ![c].state = IF full THEN "check_block" ELSE @]
       /\ toServer' = [toServer EXCEPT ![c] = AfterRead(@, n)]
       /\ IF full THEN pc' = "check_block" /\ UNCHANGED cursor ELSE EndVisit(c)
  /\ UNCHANGED <<server, rset, cset, listVars, file, finished, conn, backlog,
                 toClient>>

GetBlock(c) ==
  /\ At("get_block", c)
  /\ \E n \in ReadCounts(c, cl[c].blocksize - cl[c].inbuf) :
       LET full == cl[c].inbuf + n = cl[c].blocksize
           blk  == IF n = 0 THEN cl[c].blk ELSE Head(toServer[c]).blk IN
       /\ cl' = [cl EXCEPT ![c].inbuf = @ + n,
                           ![c].blk = blk,
                           ![c].buf0 = IF n = 0 THEN @ ELSE blk.num,
                           ![c].state = IF full THEN "check_block" ELSE @]
       /\ toServer' = [toServer EXCEPT ![c] = AfterRead(@, n)]
       /\ IF full THEN pc' = "check_block" /\ UNCHANGED cursor ELSE EndVisit(c)
  /\ UNCHANGED <<server, rset, cset, listVars, file, finished, conn, backlog,
                 toClient>>

----------------------------------------------------------------------------
(* state == check_block *)

BadNumber(c) == \/ cl[c].blk.num # MaxByte - cl[c].blk.inv
                \/ cl[c].blk.num > cl[c].current_block

\* A wrong number: drop the client.  The `break' leaves the walk altogether.
DropClient(c) ==
  /\ At("check_block", c)
  /\ BadNumber(c) /\ cl[c].fp = "open"
  /\ Drop(c)
  /\ cursor' = nxt[c]
  /\ pc' = "select"
  /\ UNCHANGED <<server, rset, file, finished, backlog, toClient>>

\* Mutants: the CRC, or the number, is not looked at.
IsExpected_NoCRC(c) ==
  ~ BadNumber(c) /\ cl[c].blk.num = cl[c].current_block

IsExpected_AnyNumber(c) == ~ BadNumber(c) /\ cl[c].blk.crcOK

IsExpected(c) ==
  ~ BadNumber(c) /\ cl[c].blk.crcOK /\ cl[c].blk.num = cl[c].current_block

\* Mutant: the number grows past a byte.
NextNumber_NoWrap(n) == n + 1

\* The number after this one, wrapped: 255 is followed by 0.
NextNumber(n) == IF n + 1 = MaxByte + 1 THEN 0 ELSE n + 1

\* What fwrite is given: the payload of b, or, when its CRC is wrong, a damaged
\* one (0, the payload of no block).
Payload(b) == IF b.crcOK THEN b.idx ELSE 0

\* Mutant: the client stays in check_block, its buffer full.
AcceptBlock_NoReset(c) ==
  /\ At("check_block", c)
  /\ IsExpected(c) /\ cl[c].fp = "open"
  /\ CanWrite(c)
  /\ file' = [file EXCEPT ![c].data = Append(@, Payload(cl[c].blk))]
  /\ toClient' = AfterWrite(c, "ACK", cl[c].blk.idx)
  /\ server' \in WriteOutcomes(c)
  /\ cl' = [cl EXCEPT ![c].current_block = NextNumber(@)]
  /\ EndVisit(c)
  /\ UNCHANGED <<rset, cset, listVars, finished, conn, backlog, toServer>>

\* fwrite stored the block: the ACK, and on to the next one.
AcceptBlock(c) ==
  /\ At("check_block", c)
  /\ IsExpected(c) /\ cl[c].fp = "open"
  /\ CanWrite(c)
  /\ file' = [file EXCEPT ![c].data = Append(@, Payload(cl[c].blk))]
  /\ toClient' = AfterWrite(c, "ACK", cl[c].blk.idx)
  /\ server' \in WriteOutcomes(c)
  /\ cl' = [cl EXCEPT ![c].state = "pre_block", ![c].inbuf = 0,
                      ![c].current_block = NextNumber(@)]
  /\ EndVisit(c)
  /\ UNCHANGED <<rset, cset, listVars, finished, conn, backlog, toServer>>

\* Mutant: the ACK is written before fwrite, which then fails.
StoreFails_AckFirst(c) ==
  /\ At("check_block", c)
  /\ "failed" \in StoreResults
  /\ IsExpected(c) /\ cl[c].fp = "open"
  /\ CanWrite(c)
  /\ toClient' = AfterWrite(c, "ACK", cl[c].blk.idx)
  /\ server' = "store_error"
  /\ UNCHANGED <<pc, cursor, rset, cset, listVars, cl, file, finished, conn,
                 backlog, toServer>>

\* fwrite stored nothing: the process exits, with no answer to the block.
StoreFails(c) ==
  /\ At("check_block", c)
  /\ "failed" \in StoreResults
  /\ IsExpected(c) /\ cl[c].fp = "open"
  /\ server' = "store_error"
  /\ UNCHANGED <<pc, cursor, rset, cset, listVars, cl, file, finished, netVars>>

\* Mutants: a damaged block is acknowledged; the next one is appended to it.
NakBlock_Ack(c) ==
  /\ At("check_block", c)
  /\ ~ BadNumber(c) /\ ~ cl[c].blk.crcOK
  /\ CanWrite(c)
  /\ toClient' = AfterWrite(c, "ACK", cl[c].blk.idx)
  /\ server' \in WriteOutcomes(c)
  /\ cl' = [cl EXCEPT ![c].state = "pre_block", ![c].inbuf = 0]
  /\ EndVisit(c)
  /\ UNCHANGED <<rset, cset, listVars, file, finished, conn, backlog, toServer>>

NakBlock_KeepInbuf(c) ==
  /\ At("check_block", c)
  /\ ~ BadNumber(c) /\ ~ cl[c].blk.crcOK
  /\ CanWrite(c)
  /\ toClient' = AfterWrite(c, "NAK", cl[c].blk.idx)
  /\ server' \in WriteOutcomes(c)
  /\ cl' = [cl EXCEPT ![c].state = "pre_block"]
  /\ EndVisit(c)
  /\ UNCHANGED <<rset, cset, listVars, file, finished, conn, backlog, toServer>>

NakBlock(c) ==
  /\ At("check_block", c)
  /\ ~ BadNumber(c) /\ ~ cl[c].blk.crcOK
  /\ CanWrite(c)
  /\ toClient' = AfterWrite(c, "NAK", cl[c].blk.idx)
  /\ server' \in WriteOutcomes(c)
  /\ cl' = [cl EXCEPT ![c].state = "pre_block", ![c].inbuf = 0]
  /\ EndVisit(c)
  /\ UNCHANGED <<rset, cset, listVars, file, finished, conn, backlog, toServer>>

\* A block that was stored before: an ACK, and nothing else changes.
RepeatBlock(c) ==
  /\ At("check_block", c)
  /\ ~ BadNumber(c) /\ cl[c].blk.crcOK
  /\ cl[c].blk.num < cl[c].current_block
  /\ CanWrite(c)
  /\ toClient' = AfterWrite(c, "ACK", cl[c].blk.idx)
  /\ server' \in WriteOutcomes(c)
  /\ EndVisit(c)
  /\ UNCHANGED <<rset, cset, listVars, cl, file, finished, conn, backlog,
                 toServer>>

----------------------------------------------------------------------------
(* state == finished *)

\* Mutant: the loop goes on from the struct that was just freed.
Finish_StaleCursor(c) ==
  /\ At("finished", c)
  /\ CanWrite(c)
  /\ finished' = finished \cup {c}
  /\ toClient' = AfterWrite(c, "ACK", Len(file[c].data) + 1)
  /\ server' \in WriteOutcomes(c)
  /\ Drop(c)
  /\ UNCHANGED cursor
  /\ pc' = "scan"
  /\ UNCHANGED <<rset, file, backlog>>

\* The final ACK.  drop_client returns the client after this one, and the end of
\* the loop body moves on once more.
Finish(c) ==
  /\ At("finished", c)
  /\ CanWrite(c)
  /\ finished' = finished \cup {c}
  /\ toClient' = AfterWrite(c, "ACK", Len(file[c].data) + 1)
  /\ \/ /\ cl[c].fp = "open"
        /\ server' \in WriteOutcomes(c)
        /\ Drop(c)
        /\ cursor' = IF nxt[c] = NULL THEN NULL ELSE nxt'[nxt[c]]
     \/ /\ cl[c].fp # "open"
        /\ server' \in {"crashed"} \cup (WriteOutcomes(c) \ {"running"})
        /\ UNCHANGED <<cursor, cset, listVars, cl, conn, toServer>>
  /\ pc' = "scan"
  /\ UNCHANGED <<rset, file, backlog>>

\* fwrite or fclose on the null FILE pointer of an fopen that failed.
NullFile(c) ==
  /\ At("check_block", c)
  /\ cl[c].fp # "open"
  /\ BadNumber(c) \/ IsExpected(c)
  /\ server' = "crashed"
  /\ UNCHANGED <<pc, cursor, rset, cset, listVars, cl, file, finished, netVars>>

\* read(2) fails on a connection its client has reset: the wrapper exits.
ReadError(c) ==
  /\ server = "running" /\ pc \in {"initial", "pre_block", "get_block"}
  /\ cursor = c /\ conn[c] = "closed"
  /\ server' = "read_error"
  /\ UNCHANGED <<pc, cursor, rset, cset, listVars, cl, file, finished, netVars>>

----------------------------------------------------------------------------

Serve(c) ==
  \/ SkipClient(c) \/ VisitClient(c)
  \/ ReadPartOfName(c) \/ OpenFile(c) \/ NoDirectory(c)
  \/ StartBlock(c) \/ EndOfTransmission(c) \/ NakMark(c)
  \/ GetBlock(c)
  \/ DropClient(c) \/ AcceptBlock(c) \/ StoreFails(c) \/ NakBlock(c)
  \/ RepeatBlock(c)
  \/ NullFile(c)
  \/ Finish(c)
  \/ ReadError(c)

ServerStep == Accept \/ Poll \/ EndScan \/ (\E c \in Clients : Serve(c))
=============================================================================
