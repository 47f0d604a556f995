# Verification of the Systems-Assignments programs

The repository holds the programs of a systems programming course: four
assignments (`a1`..`a4`) and eight exercises (`ex1`..`ex8`). The largest program,
and the one with by far the most interesting behaviour, is `a4/xmodemserver`, a
server that receives files from several clients at once over TCP in the XMODEM
manner. This directory models it in TLA+, checks the model with TLC and proves its
invariants with TLAPS. The chain of processes of `a3/pfact`, the packets of `a2`,
the two CRC programs and three of the exercises (`ex6/sigchld`, `ex7/bufserver`,
`ex8/countdown` with its client) are modelled, checked and proved about too: every
invariant that a passing run checks, and both refinements, are theorems.

## 1. Inventory

| part | state it keeps | operations | what is hard about it | what makes it correct |
|---|---|---|---|---|
| `a4/xmodemserver.c` client list and select loop | `start`, the doubly linked `Client` structs, `cset`/`rset`, the loop variable `clients` | accept, walk, `drop_client` | structs are freed while a loop walks them; the walk skips clients; one process serves everybody with blocking calls | the list holds exactly the live clients, nothing freed is used, every client is served in the end |
| `a4/xmodemserver.c` receive protocol | per client: `state`, `inbuf`, `buf`, `blocksize`, `current_block`, `filename`, `fp` | the `if` chain over `enum recstate` | reads return any part of a frame; fall-through from one state to the next; stale bytes; numbers that wrap; damage, repeats, disconnections | reader and sender agree where frames begin; the file is a prefix of what was sent; an ACK means stored |
| `a4/wrappers.c`, `a4/helper.c` | none | system calls that exit on error; `open_file_in_dir` | an error of one client ends the process | failures of one client stay with it |
| `a4/crc16.c`, `a2/crc16.c` | the register, within a call | `crc_bit`, `crc_byte`, `crc_message` | two implementations of one CRC, each bit by bit in its own way | both compute the same remainder, and damage within a block changes it |
| `a3/pfact.c` | per process: `m`, `factor1`, `pid`, pipes | master feeds numbers, each worker filters and forks the next | unbounded pipeline of processes, early exits, `waitpid` with `WNOHANG`, broken pipes | the verdict is right, every process ends, the exit statuses count the stages |
| `a2/packetize.c`, `a2/readstream.c`, `a2/list.c` | the ordered list of packets | cut a file in packets; read, check, insert, print | packets lost, reordered, repeated, damaged, numbers of 16 bits | the output is the file, with `###` for each packet missing |
| `ex6/sigchld.c` | `numkids` | fork, SIGCHLD handler | signals coalesce, the handler races with the forks | done means every child forked and reaped; the handler finds a child each time; the main loop ends |
| `ex7/bufserver.c` | a buffer of 30 bytes, `inbuf`, `room`, `after` | read, find newline, print, shift | lines split and joined by reads; a search that looks past what was received; NUL bytes | no byte of a text lost or repeated, every line printed once, no crash |
| `ex8/countdown.c`, `ex8/client.c` | `counter`; the client's `buf` | timeout, set by client, lines of the user | a timeout races a new value; partial reads, resets | 16-bit counter, the last number is seen, both programs end |
| `ex5/checkpasswd.c`, `ex5/validate.c` | none after exit | pipe, fork, exec, wait | parent and child in lock step | the message fits the exit status |
| `ex4/list.c`, `ex4/bits.c`, `ex3`, `ex2` | local | sequential helpers | nothing interleaves | unit-level |
| `a1`, `ex1`, text files | - | transcripts and answers | - | - |

How they interact: the programs of different directories do not. Inside `a4` the
server talks to its clients over one TCP connection each (messages: the file name
and a newline, `C`, blocks announced by SOH or STX, `ACK`, `NAK`, `EOT`), shares one
loop between them, and calls the wrappers, whose errors end the process.

## 2. Modules

    XmodemNet        connections: frames, replies, read/write/select/accept as the server sees them
      XmodemServer   the process: one action between two system calls, the list pointer by pointer
      XmodemSender   the clients and their faults (external: the client is not in the repository)
        XmodemSystem the composition, its specification and every property
    Upload           what the server promises, abstractly; XmodemSystem implements it
    MCXmodem         instances for TLC
    XmodemServerProofs -> XmodemFileProofs      proofs: types, list, framing; then contents,
                     replies and the refinement

    Pfact            a3: the master and the chain of workers, their pipes and exits
    PfactProofs      proofs
    MCPfact          instances for TLC

    PacketList       a2: list.c, addPacket node by node
      PacketStream   packetize, what happens to the packets, readstream; every property
    Reassembly       what readstream promises, abstractly; PacketStream implements it
    PacketProofs     proofs
    MCPacketStream   instances for TLC

    Crc16            a2, a4: the two CRC programs on one message, and on a damaged copy
    Crc16Proofs      proofs
    MCCrc16          an instance for TLC

    SigChild         ex6: main, the handler on top of it, the children
    SigChildProofs   proofs
    LineBuffer       ex7: the buffer of bufserver, one connection after the other
    Countdown        ex8: the server, the client and the connection between them
    LineBufferProofs, CountdownProofs          proofs
    MCSigChild, MCLineBuffer, MCCountdown      instances for TLC

### XmodemServer and the code

`pc` is the place the process is at: `"select"` (114-118), `"scan"` (147, choosing
the next client) or the name of a state (the process is at the `if` of that state,
serving `cursor`, which is the code's `clients`). The fall-through of the `if` chain
is a step from one `pc` to the next without leaving the client. `cl[c]` is the
struct: `state`, `inbuf`, `blocksize`, `current_block`, `fp` have the code's names;
of `buf` the model keeps the first byte (`buf0`: what a `Read` that returns 0 leaves
to be looked at again) and the block found in it (`blk`); of `filename` it keeps
whether the byte after the `\r` that was read last happens to be `\n` (`junkLF`).
`next`, `prev` and `start` are `nxt`, `prv` and `start`. A struct that was never
allocated, or was freed, has the state `"free"`.

| action | code | |
|---|---|---|
| `Accept` | 118-139 | one connection, then `continue` |
| `Poll` | 114-115, 146 | `select` returns; `rset` is fixed for the whole walk |
| `SkipClient`, `VisitClient`, `EndScan` | 147-149, 293-298 | the walk |
| `ReadPartOfName`, `OpenFile`, `NoDirectory` | 154-175, `helper.c:16` | the name, in one or several reads |
| `StartBlock`, `EndOfTransmission`, `NakMark` | 177-197 | the first byte, read or stale |
| `GetBlock` | 199-205 | any part of the rest |
| `DropClient` | 213-221 | a wrong number; `break` ends the walk |
| `AcceptBlock`, `NakBlock`, `RepeatBlock` | 233-276 | |
| `StoreFails` | 237-241 | `fwrite` stored nothing: the process exits and the block gets no answer |
| `Finish` | 278-296 | two moves of `clients` |
| `NullFile` | 164, 238, 53 | `fwrite` or `fclose` on the NULL of a failed `fopen` |
| `ReadError` | `wrappers.c:16` | the wrapper exits |

A write to a client that left is lost or ends the process (`WriteOutcomes`); a write
to a client that does not read its replies blocks (`CanWrite`). A process that has
ended takes no further step.

### XmodemNet and XmodemSender

A connection carries whole frames, each with the number of its bytes that are
unread: the server may read any part of the first one. The clients behave as the
server's reads and replies require: name, `C`, a block, its answer, the next block or
the same again, `EOT`, its answer, close. The faults are those the server has
branches for: the CRC or the number of a block arrives wrong, a timer expires and
the block is sent again, the client vanishes, perhaps in the middle of a frame. A
client sends again only what was not acknowledged.

The payload of a block is its index in the file (or 0 when damaged), so the file of
a client is a sequence of indices.

### Pfact

`master` and `worker[1]`, `worker[2]`, ... are the processes in the order of the
chain; each has its variables (`m`, `factor1`, `cur` for `current_k`), the pipe it
reads from (`in`) and its exit status (`code`). `pc` names the next system call or
test: for a worker `"read"` (145), `"poll"` (`Waitpid` with WNOHANG, 148),
`"dispatch"` (154-202), `"waitEnd"` (158), `"readM"` (196), then `"exiting"`,
`"exited"` (a zombie) and `"reaped"` (its parent waited for it). `ForkChild` copies
the parent's `factor1` and `current_k`, as `fork` does, and the child goes on in the
middle of the loop body, at 196. A `Write` waits for room in the pipe; it fails only
when no process is left that holds the pipe's read end. All descendants of the first
worker hold that of the master's pipe, and each worker holds that of its child's,
since nothing closes them. The branches at 145 (end of file) and 32 (EPIPE, in a
worker) are therefore never taken, and have no action. `ReportStages` ignores the
test at 134, which compares a byte with -1.

### PacketList and PacketStream

`heap` is the sequence of nodes `malloc` has returned, with a flag for the freed ones,
`mem` the set of payloads that are allocated, `packet` the packet in hand
(`newPacket`, `currentPacket`); `head`, `prevNode`, `nextNode`, `curr` are the code's.
`counter` is `blockNum` in packetize and `packet_counter` in readstream. The two
programs run one after the other, each with a memory of its own; `Transfer` is what
comes between them: any sequence of copies of the packets, each whole, damaged, or
damaged in a way the CRC does not detect. Headers arrive intact.

| action | code |
|---|---|
| `PacketizeBlock`, `EndOfFile`, `WritePacket` | `packetize.c` 72-111, 118, 119-135 |
| `AddFirst`, `StartSearch`, `Search` | `list.c` 30-40, 43-54, 56-60 |
| `AppendLast`, `Replace`, `ReplaceFirst` | `list.c` 65-73, 77-88; 79 with `prevNode` NULL |
| `InsertBetween`, `InsertFirst` | `list.c` 89-109 |
| `AddsPacket`, `RefusesPacket`, `EndOfPackets` | `readstream.c` 89-122, 123-133, 156-162 |
| `PrintPacket`, `PrintMissing` | `readstream.c` 165-181 |
| `StartFree`, `FreeNode`, `Exit` | `list.c` 119-134, the end of either `main` |

`Reassembly` knows of no list: it holds the last right packet of each number and
prints them in order; once a payload is printed it may be given up (`Release`). Under
the refinement mapping `store` is what the nodes that are linked and not freed hold, and
a packet is pending until it is linked.

### Crc16

`reg2` is `*reg` of a2's program, `reg4` that of a4's; a step puts one bit through
each. `CrcBit2` and `CrcBit4` are the two `crc_bit`, with OR and with XOR, the top bit
taken before the shift. a2 picks the bit `7 - i` of a byte and ends with 16 single
zeros (`NextBit2`, `Bits2`); a4 shifts a copy of the byte, `next_byte`, whose bit 7 is
the next one, and ends with two zero bytes (`NextBit4`, `Bits4`). The bits that
`next_byte << 1` pushes above bit 7 are masked away by the code and are not kept.
`damaged` is the register of a2's program on a copy of the message in which bits were
flipped, all of them less than `MaxBurst` after the first. The CRC field that is sent
with a message is not part of the model; its own damage is not either.

### SigChild

`pc` tells which loop `main` is in, `handler` where `sigchild_handler` is; while it
runs, main stands still and SIGCHLD is blocked. `pending` is one bit: the kernel keeps
no count of a signal. Children only exit: none is stopped or continued, which would
raise SIGCHLD too, as `sa_flags` (44) has no `SA_NOCLDSTOP`, and leave `wait` without a
zombie. All properties of the module rest on this assumption about the environment. The actions are the calls: `Fork` (53-62), `ChildExit` (21-25),
`Deliver`, `Wait` (14), `Decrement` (16), `StartComputing` and `Finish` (66-71). A child
exits at any time: its `sleep(2*cnum)` only makes an order likely. main reads numkids
from memory between two runs of the handler; numkids is not volatile, but the loop
calls `putchar`, so that a compiler cannot read it once for all.

### LineBuffer

`buf` is the array with all that earlier lines and connections left in it; `inbuf`
the code's, and `after` is always `buf + inbuf`. A byte is `"x"`, `"CR"`, `"LF"`,
`"NUL"` (sent, or that of line 106), or unknown (never written, or outside the array).
`Shown` is what `%s` makes of the array: all up to the first NUL (108). `FindNewline`
returns what the loop at 55 may, when it searches `inbuf` characters from `after` on
(96), more than were received there. The outcomes are the actions: `NoNewline`,
`PrintLine` (105-119), and `Crash`, where the newline was not part of what this read
returned, `inbuf` becomes negative (118) and `memmove` gets it as a size. `Hangup` is a
read of 0 or less, at the end of a connection or with `room` 0. `printed` has what
printf wrote for each line, `reads` what each read returned; `lines` and `received` are the
same one after another, `lines` with `\r\n` where line 105 had put `\n`. `NothingLost`
compares the two.

### Countdown

Each program is at its `select`, or between a test and the call behind it. The two
queues hold whole numbers; a `read` may return a part of one (`ServerReadsPart`,
`ClientReadsPart`), and both programs then end. A process that ends with unread data
resets the connection: what is on its way to the other side may be lost (`Surviving`),
and a write to a reset connection is SIGPIPE, which neither handles (`ServerKilled`,
`ClientKilled`); the first write to a peer that is gone only causes the reset.
`Wire` is `htons` into an `int` and `ntohs` out of it: 16 bits. `ReadLine` is what
`read` and `atoi` make of the input: one line, or the first of several, or, at the end
of the input, what `buf` held before.

## 3. Properties and runs

### xmodemserver

`TypeOK` is the one type invariant. The others:

| property | says | kind |
|---|---|---|
| `ListWellFormed` | `next` and `prev` are inverse, no pointer leads to a freed struct, `cset` is the list, and a walk from `start` reaches every live struct | invariant |
| `CursorLive` | the loop variable points to a live struct or NULL, and a branch runs for a client in that state | invariant |
| `InSync` | the byte `pre_block` reads is the first of a frame; `get_block` asks for exactly the rest of its block | invariant |
| `FileIsPrefix` | each block once, in order, undamaged | invariant |
| `FinishedOrGone` | "File Transfer Finished" for a client that stays means the whole file | invariant |
| `AckMeansStored` | what a client believes delivered is stored, also when an `fwrite` fails | invariant |
| `StaysUp` | well-behaved clients never bring the server down; a failing `fwrite` may | invariant |
| `ImplementsUpload` | the refinement of `Upload` | temporal, safety |
| `EveryTransferEnds` | every transfer ends | liveness |

The runs and their bounds:

- **list** (1.2 million states): three clients, one block each, wrong numbers and
  disconnections, one fault per client; symmetric in the clients. Three is the least
  number for a removal from the middle, from the head and from the tail with the
  cursor on either side, and for a client accepted in front of a walk in progress.
- **faulty** (0.5 million states): one client, bytes of 0..15, so 17 blocks are one
  more than there are numbers and every number is used before and after the wrap;
  two faults of any kind; fresh memory that looks like nothing, like SOH and like
  EOT; every outcome of opening the file. Clients share nothing but the list, so
  one is enough for the protocol.
- **clean** (87 thousand states, with fairness): two clients, SOH and STX blocks of
  different size, damaged blocks and wrong numbers, an `fwrite` that may fail, no
  disconnection or timer; no newline behind the name in memory. It checks what holds
  only for clients that stay: liveness, the refinement, that the server stays up. The
  assumption on memory is one the code does not enforce (`malloc` does not clear, and
  line 38 looks one byte past what was received); the run **faulty** does without it, and
  so do the theorems but two (section 4). The name itself is then not always right
  (section 5): no property says it is.
- **repeat**, **eof**: two disagreements between the code and its comments, each shown
  by a counterexample (section 5).

Fairness (`FairSpec`): the server takes a step whenever a system call of it can
return, which is what the kernel gives a runnable process; a living client sends
what it has to send and reads what arrived. No fault is ever forced. There is no
fairness per client of the server: that each is served follows from the loop.

Deadlock is not checked (`CHECK_DEADLOCK FALSE`): when all clients are done the
server waits in `select` for ever, as it should.

Block sizes are 2 and 3 bytes instead of 132 and 1028, and names have one or two
characters in a buffer of four: enough for a read to return part of a name or
block, with the newline split. The send buffer holds one or two replies, in **repeat** three.

### pfact

| property | says | kind |
|---|---|---|
| `AnswerTrue` | "prime" is printed of primes only, a product only of what gives it, and no prime and no square of one is missed, whatever the order of steps | invariant |
| `AnsweredOnce` | one line, and it is there when the master ends, failing or not | invariant |
| `SievePrimes` | the workers' `m` are the primes in order, none left out | invariant |
| `StagesCounted` | the stages reported are the workers, modulo a byte | invariant |
| `NothingLeft` | each process outlives those it feeds, and reaps its child | invariant |
| `EndsUnlessBlocked` | the program ends, but for a worker stuck in a full pipe | liveness |

- **chain** (17 thousand states, with fairness): every number from 0 to 53, so up to
  four workers, primes, squares, products of two primes and of more. A pipe holds two
  numbers, few enough for a worker to fill the pipe of a child that has exited (at
  42); with the 16384 of a real pipe only large numbers come to that. Statuses wrap at 3 and products at 64, which the instance reaches; both
  outcomes of testing `result` unassigned. `AnswerTrue`, `AnsweredOnce`,
  `SievePrimes` and liveness are stated for `n >= 2`. `AnswerTrue` does not say that the
  line "is not the product of two primes" is right of every `n`: it is not (section 5).

Fairness: some process takes a step whenever one can. No fairness among processes is
needed, because each ends or blocks after finitely many steps.

### a2

| property | says | kind |
|---|---|---|
| `ListInOrder` | strictly growing numbers, all live nodes and no freed one, one owner per payload | invariant |
| `CursorsLive` | no loop stands on a freed node | invariant |
| `PacketsInOrder` | packetize writes each block once under its own number, or does not get so far | invariant |
| `NothingLeaked` | nodes and payloads are all freed at an exit | invariant |
| `FileRebuilt` | once every packet came whole, in any order and among damaged ones, a readstream that ends has printed a file of text as it was | invariant |
| `ImplementsReassembly` | the refinement of `Reassembly` | temporal, safety |
| `ProgramsEnd` | every loop ends | liveness |

- **stream** (207 thousand states, with fairness): block numbers modulo 3, files of no
  to four blocks (the fourth meets the wrap), some with zero bytes; every sequence of
  up to four copies of the packets. Four are enough to insert at each place of a list
  of three and to replace a node in the middle or at the end. `FileRebuilt` leaves out
  files with zero bytes, which `printf` does not print whole, and can say nothing of a
  repeat of the packet that is first in the list, where the program crashes (section 5);
  `ImplementsReassembly` has both.
- **repeated**: the repeated first packet (section 5).

Deadlock is not checked in these either, nor in those below: the programs end.

### The two CRC programs

| property | says | kind |
|---|---|---|
| `SameRegisters` | both programs have the same register after each bit, and so the same CRC | invariant |
| `IsRemainder` | the register is the remainder of the message as a polynomial, modulo the key | invariant |
| `DetectsBursts` | damage within 16 consecutive bits changes the CRC | invariant |

- **crc** (167 thousand states): the register and the key of the code, messages of no
  to three bytes with each kind of lowest and highest bit, every damage within nine
  consecutive bits: across one end of a byte at least. The reference for `IsRemainder`
  is `Power`, which gives x^n modulo the key from the definition of the remainder alone.
  The bound on bursts is for TLC only; the theorem has the full 16.

### sigchld

| property | says | kind |
|---|---|---|
| `DoneMeansReaped` | "done computing" only after all children were forked and reaped | invariant |
| `WaitFindsChild` | the handler's `wait` finds a zombie: it neither blocks nor fails | invariant |
| `EndsWhenExitsApart` | main ends if each exit comes after the one before was waited for | liveness |

- **sigchld** (4 thousand states, with fairness): no to five children. Two are enough
  for coalescing signals; five let exits fall into every part of both loops and of the
  handler. Fairness: some step is taken when one can be; every behaviour is finite.

### bufserver

| property | says | kind |
|---|---|---|
| `NothingLost` | what was printed and the bytes held are what was received, in order, unless a NUL was | invariant |
| `OneLineEach` | as long as no read goes past the end of a line, or cuts that end in two, each line is one message | invariant |
| `WholeLinesNeverCrash` | clients whose lines come in one read each never crash it, whatever was left in the buffer | invariant |

- **buffer** (1.3 million states): an array of six bytes and seven bytes sent, in any
  number of connections, of four kinds (a character, NUL, `\r`, `\n`), cut in every way. Six bytes hold two lines
  with text and can be filled to `room` 0; seven are enough to leave a newline behind
  and to come to the place in front of it again.

### countdown

| property | says | kind |
|---|---|---|
| `ShowsZero` | a client that reads to the end of the count has shown 0, unless the connection was reset | invariant |
| `BothEndUnlessStopped` | both programs end, or the counter stays at 0 or the input closed for good | liveness |

Its `TypeOK` holds the counter in 16 bits whatever is typed.

- **countdown** (152 thousand states, with fairness): a count from 3, numbers modulo
  6, up to three lines out of -1, 2 and 6 (which becomes 0, as 65536 does), connections
  that hold two numbers. Fairness is that of each process; nobody has to type, to
  close the input or to cut a read short. The client with its input closed is always
  ready at `select`, and the timeout needs a client that sends nothing: this is the
  exception in `BothEndUnlessStopped`.

## 4. Proofs

For every value of the constants: any number of clients, children or workers, every
size, file, message, number of blocks and faults.

| theorem | states | |
|---|---|---|
| **XmodemServerProofs** | | |
| `TypeCorrect` | `TypeOK` | |
| `ListCorrect` | `ListWellFormed` | the list holds exactly the live structs |
| `NoUseAfterFree` | `CursorLive` | |
| `SyncCorrect` | `InSync` | server and clients agree where frames begin |
| **XmodemFileProofs** | | |
| `FileCorrect` | `FileIsPrefix` | damage, repeats, wrapping numbers included |
| `FinishedCorrect` | `FinishedOrGone` | |
| `AckCorrect` | `AckMeansStored` | if no timer expires and memory holds no newline by chance: `ClientsWait` |
| `StaysUpCorrect` | `StaysUp` | if clients also stay and files open: `ClientsStay` |
| `UploadRefined` | `ImplementsUpload` | if nobody vanishes: `NobodyLeaves` |
| **PfactProofs** | | |
| `PfactTypes` | `TypeOK` | |
| `ChainGone` | `NothingLeft` | |
| `OneAnswer` | `AnsweredOnce` | |
| `StagesRight` | `StagesCounted` | |
| `PrimesInOrder` | `SievePrimes` | |
| `AnswerRight` | `AnswerTrue` | overflowing products included |
| **PacketProofs** | | |
| `StreamTypes` | `TypeOK` | |
| `ListCorrect` | `ListInOrder` | |
| `NoUseAfterFree` | `CursorsLive` | |
| `FileInOrder` | `PacketsInOrder` | |
| `MemoryFreed` | `NothingLeaked` | |
| `FileCorrect` | `FileRebuilt` | a file of text, and a program that ends |
| `StreamRefines` | `ImplementsReassembly` | |
| **LineBufferProofs** | | |
| `BufferTypes` | `TypeOK` | |
| `StreamKept` | `NothingLost` | of clients that send no NUL |
| `LinesApart` | `OneLineEach` | |
| `WholeLinesSafe` | `WholeLinesNeverCrash` | |
| **CountdownProofs** | | |
| `CountdownTypes` | `TypeOK` | |
| `ZeroShown` | `ShowsZero` | |
| **SigChildProofs** | | |
| `TypeCorrect` | `TypeOK` | |
| `AllReaped` | `DoneMeansReaped` | |
| `WaitCorrect` | `WaitFindsChild` | |
| **Crc16Proofs** | | |
| `ProgramsAgree` | `SameRegisters` | |
| `BurstsDetected` | `DetectsBursts` | bursts up to the register's width |
| `RemainderCorrect` | `IsRemainder` | |

Each module has one invariant that is inductive; a theorem follows from it.

### Assumptions

They are named where the constants are declared, and TLC evaluates them in each run.

- `NetAssumption`, `ServerAssumption`, `SenderAssumption`: NULL is no client, a byte has
  an even number of values, a block has at least two bytes after its mark, a name buffer
  at least two characters.
- `NumModAssumption`, `StreamAssumption`: there are block numbers; a file is a sequence.
- `PfactAssumption`: a number fits an `int`, which holds more than 4; a status has at
  least two values. `SquareAssumption`: no prime's square is that prime again when it
  wraps. With 2^32 it is none: the square of an odd prime p is p only if 2^32 divides
  p(p - 1), hence p - 1, and p is smaller; the square of 2 is 4.
- `BufferAssumption`, `CountdownAssumption`, `MaxKidsAssumption`: sizes are not 0.
- `CrcAssumption`: the register is as wide as some bytes and the key has the lowest bit.

Three theorems about the server have a hypothesis on what may go wrong. Each is what
the theorem needs: TLC finds the property violated without it.

- `NobodyLeaves` (`UploadRefined`): no client vanishes. One that does can make the
  server report a partial file as finished (section 5). Timers may expire, blocks be
  damaged, files not open, the server go down.
- `ClientsWait` (`AckCorrect`): no timer expires, and `JunkLFs = {FALSE}`: no newline
  stands by chance behind the `\r` of a name; its own `\n` would be read as the mark of a
  block, and refused with a NAK when no block was sent. A client that resends takes
  the ACK of the first copy for that of the next block. Clients may vanish, files may
  not open, the server may go down.
- `ClientsStay` (`StaysUpCorrect`): no client vanishes or resends, every file can be
  opened, no such newline. An `fwrite` may fail. A client that leaves takes the server down with it, and so
  does a file that does not open (section 5). Blocks may arrive with a wrong CRC or
  number. It is what the instance **clean** has.

### xmodemserver

**Types** are inductive as they stand: one step per action; the only facts needed
beyond the types are that a read returns at most what was asked for and what is
there, and that a frame taken or cut keeps its type.

**The list** needs `ListInv`: `PointersAgree`, that a client in the backlog or idle
has no struct, each at most once, that the cursor is live, and a rank: a natural
number per struct that grows along `next`, hence from `start` every live struct is
reached. The rank is what makes reachability inductive without recursion.

**Framing** needs `SyncInv`, which describes the whole queue of each client: the
name alone while its struct is new, and afterwards one frame partly read followed
by untouched ones, the last of which may be short once the client is gone. It
quotes `ListInv` for the fact that serving one client leaves the others alone.

**Contents** need `FileInv`. Block numbers repeat after `MaxByte + 1` blocks, so that
the block expected next cannot be told by its number alone. What makes the numbers
enough is that a block on its way, in the queue or in the buffer, is the last one
stored or the one after it (`QueueOK`, `BufferOK`), because a client is at most one
block ahead of its file (`Numbers`) and each ACK it has still to read is for one more
of the stored blocks (`AcksOK`). Two neighbours never have the same number
(`ModNeighbours`). All this holds until the server wedges itself on a repeated block
(`Wedged`, section 5), after which it reads nothing more from that client; the
invariant is the disjunction.

**Ends of transfers** need `EndInv`: EOT is sent after the last block only, and a client
that the running server serves is still there, unless the server is wedged on its
repeated block, has not been told that its transfer is finished, and while it is about to
be has no ACK to read that would end it sooner (`Connected`). With `FileInv` it makes every
step map to one of `Upload` or leave `Upload`'s variables alone (`StepRefines`, by way of
`ServeRefines` for the server's and `UploadStutters` for everything else).

**Clients that wait** speak in turn with the server, until they go away. `TurnInv` says
so: between the two there is one frame or one reply, never both, and the phase of the
client and the state of its struct tell which (`OpenTurn`; `DroppedTurn` once the server
has closed). The client's count of blocks is what is stored, plus one unless the ACK is
still under way, so that an ACK read is an ACK for a stored block. A client that has
ended counts nothing more (`Over`). `NameInv` says that with `JunkLFs = {FALSE}` the newline
is found where the client put it, so that no byte of the name is left for `pre_block`.

**Clients that also stay** are there as long as the server may write to them, and their
files are open (`StayInv`): with `TurnInv`, a client closes its side only after the
server has (`AllStaying`). So no call of the server fails but `fwrite`; after that one the
clients leave, and the invariant says no more than that the server has ended in it.

### pfact

`ChainInv` is about the processes. Exits go from the end of the chain to its start
(`ExitInv`): when one is on its way out all behind it were reaped, and its status is the
number of those and itself, less one if the answer was "prime" (`AnswerInv`). A new
worker waits for the number that its parent has in hand (`NewInv`).

`SieveInv` is about the numbers, for n >= 3. It gives each number of the master's
stream a place: a worker's pipe holds, in order, exactly what arrived there and was not
taken (`PipeInv`), where what arrives at a worker is what the one before has handled
and let through. The first number to arrive becomes the worker's `m` (`CurInv`), and
the last worker has let nothing through (`LastInv`); so the `m` are the primes up to
the last one, without a gap: the least number not divided by any smaller prime is
prime. `FactorInv` says what `factor1` knows: it is the only `m` so far that divides n,
and neither n itself nor its square, modulo the width of an `int`, is n. The answer
follows from the two, with elementary facts on divisors that are lemmas of the module.

### a2

`StreamInv` has four parts. `ListInv`: the list is in order and complete, payloads are
newer than those already listed, so that no two nodes share one (`PayloadInv`), and
the search stands between neighbours with the packet's place behind it (`SearchInv`).
`PacketizeInv`: block k of the file is the node with number k. `ReadInv`: each node
holds a packet that came, and each number that came right has a node. `PrintInv`: what
was printed is what the nodes below the cursor show. `StreamRefines` needs all
four: linking a node is `Take`, a replaced payload included, printing is `PrintNext`,
freeing is `Release`, and the rounds of the search are stutters.

### bufserver and countdown

`LineInv` is the checked properties and one more (`NothingHeldBack`): a server that has
only read whole lines runs and holds nothing back, so its search for a newline starts
where the line starts and what earlier connections left is never reached.

`CountInv`: a number that the client goes to read is there, as nobody else takes it; a
client that ends while the server runs has reset the connection; and after a count that
was not reset, its 0 is the last number on the wire or was shown (`ZeroComesLast`).

### sigchld

`SigInv`: numkids is what is left of `k` after the children reaped, one more while the
handler is between `wait` and the assignment (`CountRight`); a signal that is pending, or
a handler in front of `wait`, stands for a zombie nobody waits for (`SignalsRight`); and
main is in a loop whose condition it has seen (`MainRight`). Since a signal pending and
one handled cannot stand for the same child, every `wait` finds its own.

### The CRC

`CrcInv`: a4's copy of the byte is the byte shifted as often as bits of it were used
(`ByteInv`), so both programs take the same bit; that OR and XOR with it are the same,
as the lowest bit is 0 after the shift, is `CrcBitValue`. For a burst (`BurstInv`): the
first damaged bit enters at the bottom of the register and moves up one place a step;
above it nothing differs, so until it is shifted out the registers differ at its place.
By then the burst, no longer than the register, is over, and two registers that differ
and take the same bits differ for ever: if the bit shifted out is the same they differ
one place further up, and if it is not, the key, whose lowest bit is 1, goes into one of
them only.

`RemainderInv`: bit j of the register is the parity of the ones fed whose power of x has
the bit j (`Hits`). A step multiplies by x, so each power becomes the next one
(`NextPower`), and adding sets of powers modulo 2 is taking their symmetric difference
(`ParityOfDifference`). What the recursive function `Power` is takes an induction over
the natural numbers (`PowerValue`, `PowerType`). The library's induction has an operator
as parameter; `SetInduction` states it for a set, and follows from the pigeonhole
principle on finite sets: if a number is not in the set, moving each number that is not
to its predecessor, which is not either, would map the missing ones into fewer.

### Only model-checked

Liveness and whatever is about ENABLED: `EveryTransferEnds`, `EndsUnlessBlocked`,
`ProgramsEnd`, `EndsWhenExitsApart`, `BothEndUnlessStopped`. The disagreements of section
5 are counterexamples and need no proof.

## 5. Where the code and its comments disagree

1. **repeat** `xmodemserver.c:269`: a repeated block is acknowledged without leaving
   `check_block`; the buffer is answered again at every pass in which the client is
   readable, and the client is never read again. `OneAnswerPerCopy` allows one ACK for
   each copy sent; in the trace two copies get four.
2. **eof** `xmodemserver.c:179`: the end of a connection leaves the last block's
   number in `buf[0]`; after block 4 it reads as EOT and the partial file is reported
   as finished.
3. **repeated** `list.c:79`: a repeated packet replaces the one in the list, unless
   that is the first: `prevNode` is NULL and the program crashes. packetize meets the
   same with block 65536, whose number is 0 again.

Met while reading and modelling, without a run:

- a4: SIGPIPE is ignored "to take care of" a client that disconnects
  (`xmodemserver.c:85`), but the write then fails and the wrapper ends the server. The
  search for a newline looks one character past the buffer's content (38): when a read
  ends with `\r` and a `\n` happens to follow in memory, in a struct that `malloc` has not
  cleared, the name is cut one character short and the `\n` that comes later is read as the
  mark of a block. What `open_file_in_dir` returns is not looked at (164): of a file that
  cannot be opened the first good block crashes the server.
- pfact: the master exits with -1 "if any of the child processes exited with an error"
  (133), and also when its worker was simply done before it: it waits for it a second
  time, or writes to a pipe without readers. "There can't be any prime factors for n
  between sqrt(n) and n" (89-91), but of every product of two different primes the larger
  one is there, and is never sent: of 10, 14, 15 and all others but 6, whose root is
  rounded up to 3, the line "is not the product of two primes" (171) is printed. A worker
  can hang as `EndsUnlessBlocked` allows.
- a2: `list.c:70` logs "duplicate block" for a packet that is appended; a first packet
  is not logged as inserted; a lost packet behind the last one that came leaves no
  `###`; packetize never frees its `struct packet`s. "Print to stdout the reconstructed
  data" (`readstream.c:15-16`): `printf` with `%.*s` (170) prints a block with a zero byte
  only up to it.
- sigchld: two children that exit while one signal is pending are waited for once; main
  computes for ever.
- bufserver: with a search that runs past what was received, a `\r` that ends a read
  and a stale `\n` behind it, or a whole stale `\r\n`, make `inbuf` negative and crash
  the server. Of two lines that come in one read, the second stays in the buffer until
  the next read, which searches behind it only: both lines are then one message. A
  `\r\n` that two reads split is not found at all. A NUL from the client ends what `%s`
  prints of its line (108), newline included. A line that fills the buffer closes
  the connection.
- countdown: a counter set to 0, by 65536 or by a line without a number, stops.
  At the end of its input the client sends its last number again and again, faster
  than the server counts. Of several lines that one read returns, only the first counts.
- checkpasswd: what is sent to `validate` is cut to the field's size, so that a longer
  user id of `pass.txt` never matches.

## 6. Not modelled, and why

- Socket set-up (91-108) is the initial state; `printf` output other than "File
  Transfer Finished" is left out.
- stdio buffering: a block is stored when `fwrite` returned 1, and nothing of it when it
  failed; the file of a process that exits keeps the blocks stored before.
- Two clients with the same file name: files are per client.
- `Malloc`, `accept` and `select` failing: the process exits at once.
- In the models of the server and of readstream the CRC is a flag: whether the last two
  bytes fit the payload. What the flag is worth is in Crc16, for damage to the payload.
- bufserver: more than one character besides NUL, `\r` and `\n`; output to a closed
  terminal.
- countdown: failing `select` and wrappers, and lines longer than the client's buffer.
- sigchld: children that are stopped or continued, what is printed, and the handler's `printf` on top of one of main's.
- pfact: negative or missing arguments, failing `fork`, `pipe` and `signal`.
- a2: the log file, option parsing, failing file operations and `malloc`, damaged
  headers (which the CRC does not cover), a file that ends inside a header.
- `ex2`..`ex4`: sequential exercises without state that outlives a call, some of them
  not used by any program; `ex5`: one parent and one child in lock step, with a pipe
  that both use once.
- A client whose name is too long, or that reads no replies, next to well-behaved ones:
  XmodemServer has the behaviour (a read of 0 bytes, a write that blocks), but the
  fair instance with a third client was too large to check for liveness.

## 7. Plan

1. (done) xmodemserver: XmodemNet, XmodemServer, XmodemSender, XmodemSystem, Upload.
2. (done) `a3/pfact`: Pfact.
3. (done) `a2`: PacketList, PacketStream, Reassembly.
4. (done) Crc16, SigChild, LineBuffer, Countdown.
5. (done) theorems for every invariant of the passing runs and for both refinements.
6. A smaller instance of the server for a client whose name is too long, and for one
   that reads no replies.
7. (done) A hypothesis of its own for each theorem that needs one, in the place of one
   for all: clients that do not leave, that wait, that stay.
