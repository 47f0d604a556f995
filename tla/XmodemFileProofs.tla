--------------------------- MODULE XmodemFileProofs --------------------------
(***************************************************************************)
(* The files: every block once, in its order, across damage, repeated      *)
(* blocks and the wrap of the block numbers.  Block numbers repeat after   *)
(* MaxByte + 1 blocks; what makes them enough is that a block on its way is*)
(* either the last one stored or the one after it.  Then how transfers end *)
(* (the server implements Upload), what passes between the server and      *)
(* clients that wait for their answers, and clients that also stay.        *)
(***************************************************************************)
EXTENDS XmodemServerProofs

Stored(c) == Len(file[c].data)

IsBlock(f) == f.mark \in {SOH, STX}

\* The server answers the buffered repeat of a stored block again and again; it
\* never reads from c any more.
Wedged(c) ==
  /\ cl[c].state = "check_block"
  /\ ~ BadNumber(c) /\ cl[c].blk.crcOK
  /\ cl[c].blk.num < cl[c].current_block

\* The client is at most one block ahead of the file.
Numbers(c) ==
  /\ Stored(c) <= snd[c].next
  /\ snd[c].next <= Stored(c) + 1
  /\ Stored(c) <= Blocks[c]
  /\ cl[c].current_block = (Stored(c) + 1) % (MaxByte + 1)

\* A block on its way, between what is stored and what is being sent.
OnItsWay(c, b) ==
  /\ Stored(c) <= b.idx /\ b.idx <= snd[c].next
  /\ b.idx <= Blocks[c]
  /\ b.num = b.idx % (MaxByte + 1)

\* Blocks arrive in the order of their indices, EOT after the last of them.
QueueOK(c) ==
  LET q == toServer[c] IN
  /\ \A j \in 1 .. Len(q) : IsBlock(q[j]) => OnItsWay(c, q[j].blk)
  /\ \A j \in 1 .. Len(q) : q[j].mark = EOT => Stored(c) = Blocks[c]
  /\ \A i, j \in 1 .. Len(q) :
       i <= j /\ IsBlock(q[i]) /\ IsBlock(q[j]) => q[i].blk.idx <= q[j].blk.idx

\* Each pending ACK is for one more of the stored blocks.
AcksOK(c) ==
  LET r == toClient[c] IN
  /\ \A j \in 1 .. Len(r) : r[j].byte = "ACK" =>
       snd[c].next <= r[j].of /\ r[j].of <= Stored(c)
  /\ \A i, j \in 1 .. Len(r) :
       i < j /\ r[i].byte = "ACK" /\ r[j].byte = "ACK" => r[i].of < r[j].of

\* The block in the buffer was sent before those in the queue.
BufferOK(c) ==
  cl[c].state = "check_block" =>
    /\ OnItsWay(c, cl[c].blk)
    /\ \A j \in 1 .. Len(toServer[c]) :
         IsBlock(toServer[c][j]) => cl[c].blk.idx <= toServer[c][j].blk.idx

Flow(c) == Numbers(c) /\ QueueOK(c) /\ AcksOK(c) /\ BufferOK(c)

\* Before the file is opened nothing is stored and nothing acked.
Untransferred(c) ==
  /\ snd[c].next = 1
  /\ Stored(c) = 0
  /\ c \notin finished

AllStored(c) == conn[c] = "closed" \/ Stored(c) = Blocks[c]

Transfer(c) ==
  /\ snd[c].phase = "idle" => Untransferred(c)
  /\ \A i \in 1 .. Len(backlog) : backlog[i] = c => Untransferred(c)
  /\ cl[c].state = "initial" => Untransferred(c)
  /\ cl[c].state \in Opened \ {"finished"} => Flow(c) \/ Wedged(c)
  /\ cl[c].state = "finished" => AllStored(c)
  /\ \A i \in 1 .. Stored(c) : file[c].data[i] = i
  /\ c \in finished => cl[c].state \in {"free", "finished"} /\ AllStored(c)

FileInv == SyncInv /\ \A c \in Clients : Transfer(c)

----------------------------------------------------------------------------
(* Arithmetic of block numbers.                                            *)

\* Quotient and remainder.
LEMMA Remainder ==
  ASSUME NEW m \in Nat, m >= 2, NEW n \in Nat
  PROVE  n \div m \in Nat /\ n % m \in 0 .. m - 1
  OBVIOUS

LEMMA QuotientRemainder ==
  ASSUME NEW m \in Nat, m >= 2, NEW n \in Nat
  PROVE  n = m * (n \div m) + (n % m)
  OBVIOUS

\* m * p + s = m * q + r + 1 leaves two choices for s.
LEMMA NextRemainder ==
  ASSUME NEW m \in Nat, m >= 2, NEW q \in Int, NEW p \in Int, NEW r \in 0 .. m-1, NEW s \in 0..m-1,
         m * p + s = m * q + r + 1
  PROVE s = IF r + 1 = m THEN 0 ELSE r+1
<1>1. m * (p - q) = r + 1 - s
  OBVIOUS
<1>2. p - q \in Int
  OBVIOUS
<1>3. CASE p - q >= 2
  <2>1. m * (p - q) >= m * 2
    BY <1>3
  <2> QED BY <2>1, <1>1
<1>4. CASE p - q <= -1
  <2>1. m * (p - q) <= m * (-1)
    BY <1>4
  <2> QED BY <2>1, <1>1
<1>5. CASE p - q = 0
  BY <1>5, <1>1
<1>6. CASE p - q = 1
  BY <1>6, <1>1
<1> QED BY <1>2, <1>3, <1>4, <1>5, <1>6

\* The remainder of the next number.
LEMMA ModSucc ==
  ASSUME NEW m \in Nat, m >= 2, NEW n \in Nat
  PROVE  /\ (n + 1) % m = IF (n % m) + 1 = m THEN 0 ELSE (n % m) + 1
         /\ n % m \in 0 .. m - 1
<1> DEFINE q == n \div m
           p == (n + 1) \div m
           r == n % m
           s == (n + 1) % m
<1>1. q \in Int /\ p \in Int /\ r \in 0 .. m - 1 /\ s \in 0 .. m - 1
  BY Remainder, n + 1 \in Nat
<1>2. n = m * q + r /\ n + 1 = m * p + s
  BY QuotientRemainder, n + 1 \in Nat
<1>3. m * p + s = m * q + r + 1
  BY <1>1, <1>2
<1> HIDE DEF q, p, r, s
<1>4. s = IF r + 1 = m THEN 0 ELSE r + 1
  BY <1>1, <1>3, NextRemainder
<1> QED BY <1>1, <1>4 DEF r, s

\* Of two neighbours only one has a given number.
LEMMA ModNeighbours ==
  ASSUME NEW m \in Nat, m >= 2, NEW n \in Nat, NEW i \in Nat,
         n <= i, i <= n + 1, i % m = (n + 1) % m
  PROVE  i = n + 1
<1>1. i = n \/ i = n + 1
  OBVIOUS
<1>2. n % m # (n + 1) % m
  <2> DEFINE r == n % m
             s == (n + 1) % m
  <2>1. s = (IF r + 1 = m THEN 0 ELSE r + 1) /\ r \in 0 .. m - 1
    BY ModSucc
  <2> HIDE DEF r, s
  <2>2. r # s
    BY <2>1
  <2> QED BY <2>2 DEF r, s
<1> QED BY <1>1, <1>2

LEMMA ModOne ==
  ASSUME NEW m \in Nat, m >= 2
  PROVE  (0 + 1) % m = 1
<1> DEFINE q == 1 \div m
           r == 1 % m
<1>1. q \in Nat /\ r \in 0 .. m - 1 /\ 1 = m * q + r
  BY Remainder, QuotientRemainder
<1> HIDE DEF q, r
<1>2. q >= 1 => m * q >= m
  BY <1>1
<1>3. q = 0
  BY <1>1, <1>2
<1>4. r = 1
  BY <1>1, <1>3
<1> QED BY <1>4 DEF r

----------------------------------------------------------------------------
(* Queues.                                                                 *)

\* The frames after a read are those from before it, without the first if that
\* was read to its end.
LEMMA ReadShift ==
  ASSUME NEW q \in Seq(Frame), NEW n \in Nat,
         n # 0 => q # << >> /\ n <= q[1].left
  PROVE  \E o \in {0, 1} :
           \A j \in 1 .. Len(AfterRead(q, n)) :
             /\ j + o \in 1 .. Len(q)
             /\ AfterRead(q, n)[j].mark = q[j + o].mark
             /\ AfterRead(q, n)[j].blk = q[j + o].blk
<1>1. Len(q) \in Nat
  OBVIOUS
<1>2. CASE n = 0
  <2>1. AfterRead(q, n) = q
    BY <1>2 DEF AfterRead
  <2>2. \A j \in 1 .. Len(q) : j + 0 = j
    BY <1>1
  <2> QED BY <2>1, <2>2
<1>3. CASE n # 0 /\ n = q[1].left
  <2>1. n \in Nat \ {0} /\ n <= q[1].left /\ q # << >>
    BY <1>3
  <2>2. \A j \in 1 .. Len(AfterRead(q, n)) :
          AfterRead(q, n)[j] = q[j + 1] /\ j + 1 \in 2 .. Len(q)
    BY <1>3, <2>1, ReadQueue
  <2>3. \A j \in 1 .. Len(AfterRead(q, n)) : j + 1 \in 1 .. Len(q)
    BY <1>1, <2>2
  <2> QED BY <2>2, <2>3
<1>4. CASE n # 0 /\ n # q[1].left
  <2>1. n \in Nat \ {0} /\ n <= q[1].left /\ q # << >>
    BY <1>4
  <2>2. /\ Len(AfterRead(q, n)) = Len(q)
        /\ AfterRead(q, n)[1].mark = q[1].mark
        /\ AfterRead(q, n)[1].blk = q[1].blk
        /\ \A j \in 2 .. Len(q) : AfterRead(q, n)[j] = q[j]
    BY <1>4, <2>1, ReadQueue
  <2>3. \A j \in 1 .. Len(q) : (j = 1 \/ j \in 2 .. Len(q)) /\ j + 0 = j
    BY <1>1
  <2>4. \A j \in 1 .. Len(q) :
          /\ AfterRead(q, n)[j].mark = q[j].mark
          /\ AfterRead(q, n)[j].blk = q[j].blk
    BY <2>2, <2>3
  <2> QED BY <2>2, <2>3, <2>4
<1> QED BY <1>2, <1>3, <1>4

LEMMA ReadShifts ==
  ASSUME TypeOK, NEW c \in Clients, NEW size \in Int,
         NEW n \in ReadCounts(c, size), toServer'[c] = AfterRead(toServer[c], n)
  PROVE  \E o \in {0, 1} :
           \A j \in 1 .. Len(toServer'[c]) :
             /\ j + o \in 1 .. Len(toServer[c])
             /\ toServer'[c][j].mark = toServer[c][j + o].mark
             /\ toServer'[c][j].blk = toServer[c][j + o].blk
<1> DEFINE q == toServer[c]
<1>1. /\ q \in Seq(Frame) /\ n \in Nat
      /\ n # 0 => q # << >> /\ n <= q[1].left
  BY ReadResult DEF TypeOK, NetTypeOK
<1>2. toServer'[c] = AfterRead(q, n)
  OBVIOUS
<1> HIDE DEF q
<1>3. \E o \in {0, 1} :
        \A j \in 1 .. Len(AfterRead(q, n)) :
          /\ j + o \in 1 .. Len(q)
          /\ AfterRead(q, n)[j].mark = q[j + o].mark
          /\ AfterRead(q, n)[j].blk = q[j + o].blk
  BY <1>1, ReadShift
<1> QED BY <1>2, <1>3 DEF q

\* A read keeps a queue in order.
LEMMA ShiftQueue ==
  ASSUME TypeOK, NEW c \in Clients, QueueOK(c), NEW o \in {0, 1},
         \A j \in 1 .. Len(toServer'[c]) :
             /\ j + o \in 1 .. Len(toServer[c])
             /\ toServer'[c][j].mark = toServer[c][j + o].mark
             /\ toServer'[c][j].blk = toServer[c][j + o].blk,
         file'[c].data = file[c].data, snd'[c].next = snd[c].next
  PROVE  QueueOK(c)'
<1>1. Stored(c)' = Stored(c) /\ \A b : OnItsWay(c, b)' <=> OnItsWay(c, b)
  BY DEF Stored, OnItsWay
<1>2. \A j \in 1 .. Len(toServer'[c]) :
        /\ IsBlock(toServer'[c][j]) => OnItsWay(c, toServer'[c][j].blk)
        /\ toServer'[c][j].mark = EOT => Stored(c) = Blocks[c]
  BY DEF QueueOK, IsBlock
<1>3. \A i, j \in 1 .. Len(toServer'[c]) :
        i <= j /\ IsBlock(toServer'[c][i]) /\ IsBlock(toServer'[c][j])
          => toServer'[c][i].blk.idx <= toServer'[c][j].blk.idx
  <2> SUFFICES ASSUME NEW i \in 1 .. Len(toServer'[c]),
                      NEW j \in 1 .. Len(toServer'[c]), i <= j,
                      IsBlock(toServer'[c][i]), IsBlock(toServer'[c][j])
               PROVE  toServer'[c][i].blk.idx <= toServer'[c][j].blk.idx
    OBVIOUS
  <2>1. i + o <= j + o
    OBVIOUS
  <2> QED BY <2>1 DEF QueueOK, IsBlock
<1>4. \A j \in 1 .. Len(toServer'[c]) :
        IsBlock(toServer'[c][j]) => OnItsWay(c, toServer[c][j].blk)'
  BY <1>2 DEF OnItsWay, Stored
<1> QED BY <1>1, <1>2, <1>3, <1>4 DEF QueueOK, IsBlock

\* A reply that is no ACK leaves the pending ACKs as they are.
LEMMA AcksKept ==
  ASSUME TypeOK, NEW c \in Clients, AcksOK(c),
         \/ toClient'[c] = toClient[c]
         \/ \E r \in Reply : /\ r.byte # "ACK"
                             /\ toClient'[c] = Append(toClient[c], r),
         file'[c].data = file[c].data, snd'[c].next = snd[c].next
  PROVE  AcksOK(c)'
<1>1. toClient[c] \in Seq(Reply) /\ Stored(c)' = Stored(c)
  BY DEF TypeOK, NetTypeOK, Stored
<1>2. CASE toClient'[c] = toClient[c]
  BY <1>1, <1>2 DEF AcksOK
<1>3. ASSUME NEW r \in Reply, r.byte # "ACK",
             toClient'[c] = Append(toClient[c], r)
      PROVE  AcksOK(c)'
  <2>1. \A j \in 1 .. Len(toClient'[c]) : toClient'[c][j].byte = "ACK" =>
          j \in 1 .. Len(toClient[c]) /\ toClient'[c][j] = toClient[c][j]
    BY <1>1, <1>3
  <2> QED BY <1>1, <2>1 DEF AcksOK
<1> QED BY <1>2, <1>3

\* The oldest reply is taken: each of the others was behind it.
LEMMA AcksTail ==
  ASSUME TypeOK, NEW c \in Clients, AcksOK(c), toClient[c] # << >>,
         toClient'[c] = Tail(toClient[c]), UNCHANGED file,
         \/ snd'[c].next = snd[c].next
         \/ toClient[c][1].byte = "ACK" /\ snd'[c].next = snd[c].next + 1
  PROVE  AcksOK(c)'
<1>1. toClient[c] \in Seq(Reply) /\ Stored(c)' = Stored(c)
  BY DEF TypeOK, NetTypeOK, Stored
<1>2. \A j \in 1 .. Len(toClient'[c]) :
        /\ toClient'[c][j] = toClient[c][j + 1]
        /\ j + 1 \in 2 .. Len(toClient[c])
        /\ toClient[c][j + 1].of \in Nat
  <2>1. \A j \in 1 .. Len(toClient'[c]) :
          /\ toClient'[c][j] = toClient[c][j + 1]
          /\ j + 1 \in 2 .. Len(toClient[c])
    BY <1>1, HeadTailProperties
  <2>2. \A j \in 1 .. Len(toClient[c]) : toClient[c][j] \in Reply
    BY <1>1
  <2>3. \A j \in 1 .. Len(toClient[c]) : toClient[c][j].of \in Nat
    BY <2>2 DEF Reply
  <2>4. Len(toClient[c]) \in Nat
    BY <1>1
  <2> QED BY <2>1, <2>3, <2>4
<1>3. 1 \in 1 .. Len(toClient[c]) /\ toClient[c][1].of \in Nat
  <2>1. 1 \in 1 .. Len(toClient[c])
    BY <1>1
  <2>2. toClient[c][1] \in Reply
    BY <1>1, <2>1
  <2> QED BY <2>1, <2>2 DEF Reply
<1>4. \A j \in 1 .. Len(toClient'[c]) : toClient'[c][j].byte = "ACK" =>
        snd'[c].next <= toClient'[c][j].of /\ toClient'[c][j].of <= Stored(c)
  <2> SUFFICES ASSUME NEW j \in 1 .. Len(toClient'[c]),
                      toClient'[c][j].byte = "ACK"
               PROVE  /\ snd'[c].next <= toClient'[c][j].of
                      /\ toClient'[c][j].of <= Stored(c)
    OBVIOUS
  <2>1. snd[c].next <= toClient[c][j + 1].of /\ toClient[c][j + 1].of <= Stored(c)
    BY <1>2 DEF AcksOK
  <2>2. CASE toClient[c][1].byte = "ACK" /\ snd'[c].next = snd[c].next + 1
    <3>1. snd[c].next <= toClient[c][1].of
      BY <1>3, <2>2 DEF AcksOK
    <3>2. toClient[c][1].of < toClient[c][j + 1].of
      BY <1>2, <1>3, <2>2 DEF AcksOK
    <3>3. snd[c].next \in Nat
      BY DEF TypeOK, SenderTypeOK, Sender
    <3> QED BY <1>2, <1>3, <2>1, <2>2, <3>1, <3>2, <3>3
  <2> QED BY <1>2, <2>1, <2>2
<1>5. \A i, j \in 1 .. Len(toClient'[c]) :
        i < j /\ toClient'[c][i].byte = "ACK" /\ toClient'[c][j].byte = "ACK"
          => toClient'[c][i].of < toClient'[c][j].of
  <2> SUFFICES ASSUME NEW i \in 1 .. Len(toClient'[c]),
                      NEW j \in 1 .. Len(toClient'[c]), i < j,
                      toClient'[c][i].byte = "ACK", toClient'[c][j].byte = "ACK"
               PROVE  toClient'[c][i].of < toClient'[c][j].of
    OBVIOUS
  <2>1. i + 1 < j + 1 /\ i + 1 \in 1 .. Len(toClient[c])
        /\ j + 1 \in 1 .. Len(toClient[c])
    BY <1>2
  <2> QED BY <1>2, <2>1 DEF AcksOK
<1> QED BY <1>1, <1>4, <1>5 DEF AcksOK

\* A read, and perhaps a reply that is no ACK, keep the flow of blocks.
LEMMA FlowKept ==
  ASSUME TypeOK, NEW c \in Clients, Flow(c), NEW o \in {0, 1},
         \A j \in 1 .. Len(toServer'[c]) :
             /\ j + o \in 1 .. Len(toServer[c])
             /\ toServer'[c][j].mark = toServer[c][j + o].mark
             /\ toServer'[c][j].blk = toServer[c][j + o].blk,
         \/ toClient'[c] = toClient[c]
         \/ \E r \in Reply : /\ r.byte # "ACK"
                             /\ toClient'[c] = Append(toClient[c], r),
         file'[c].data = file[c].data, snd'[c].next = snd[c].next,
         cl'[c].current_block = cl[c].current_block, BufferOK(c)'
  PROVE  Flow(c)'
<1>1. QueueOK(c)'
  BY ShiftQueue DEF Flow
<1>2. AcksOK(c)'
  BY AcksKept DEF Flow
<1>3. Numbers(c)'
  BY DEF Flow, Numbers, Stored
<1> QED BY <1>1, <1>2, <1>3 DEF Flow

----------------------------------------------------------------------------
(* One step at a time: what the others do, and what c does not see.        *)

\* Nothing of what Transfer says of d has changed, apart from the backlog.
LEMMA OtherTransfer ==
  ASSUME NEW d \in Clients, Transfer(d),
         cl'[d] = cl[d], snd'[d] = snd[d], conn'[d] = conn[d],
         file'[d] = file[d], d \in finished' <=> d \in finished,
         toServer'[d] = toServer[d], toClient'[d] = toClient[d],
         \A i \in 1 .. Len(backlog') : backlog'[i] = d => Untransferred(d)
  PROVE  Transfer(d)'
<1>1. Untransferred(d)' <=> Untransferred(d)
  BY DEF Untransferred, Stored
<1>2. Flow(d) => Flow(d)'
  BY DEF Flow, Numbers, QueueOK, AcksOK, BufferOK, OnItsWay, Stored
<1>3. Wedged(d) => Wedged(d)'
  BY DEF Wedged, BadNumber
<1>4. AllStored(d)' <=> AllStored(d)
  BY DEF AllStored, Stored
<1>5. Stored(d)' = Stored(d)
  BY DEF Stored
<1> QED BY <1>1, <1>2, <1>3, <1>4, <1>5 DEF Transfer

\* What is left to show when c, whose struct is live, is served.
LEMMA ServedTransfer ==
  ASSUME FileInv, NEW c \in Allocated, UNCHANGED <<snd, backlog>>,
         cl'[c].state = "initial" => Untransferred(c)',
         cl'[c].state \in Opened \ {"finished"} => Flow(c)' \/ Wedged(c)',
         cl'[c].state = "finished" => AllStored(c)',
         \A i \in 1 .. Len(file'[c].data) : file'[c].data[i] = i,
         c \in finished' => cl'[c].state \in {"free", "finished"} /\ AllStored(c)'
  PROVE  Transfer(c)'
<1>1. snd[c].phase # "idle" /\ \A i \in 1 .. Len(backlog) : backlog[i] # c
  BY AllocatedNotFresh DEF FileInv, SyncInv
<1> QED BY <1>1 DEF Transfer, Stored

\* The transfer begins: the name was all there was to read.
LEMMA OpenFileTransfer ==
  ASSUME FileInv, TypeOK', UNCHANGED snd, NEW c \in Allocated, OpenFile(c)
  PROVE  Transfer(c)'
<1>1. /\ cl[c].state = "initial" /\ NameOnly(c, cl[c].inbuf) /\ c \in Clients
      /\ cl[c].inbuf \in Nat /\ Untransferred(c) /\ TypeOK
      /\ toServer[c] \in Seq(Frame) /\ toClient[c] \in Seq(Reply)
  BY DEF FileInv, Transfer, SyncInv, ListInv, CursorLive, OpenFile, At, Framing,
     Allocated, TypeOK, ServerTypeOK, NetTypeOK, Struct
<1>2. PICK n \in ReadCounts(c, NameCap - cl[c].inbuf),
           r \in OpenResults \ {"no_dir"} :
        /\ toServer' = [toServer EXCEPT ![c] = AfterRead(@, n)]
        /\ cl' = [cl EXCEPT ![c].state = "pre_block", ![c].inbuf = 0,
                            ![c].current_block = 1, ![c].fp = r]
  BY DEF OpenFile
<1>3. /\ cl'[c].state = "pre_block" /\ cl'[c].current_block = 1
      /\ toServer'[c] = AfterRead(toServer[c], n)
      /\ conn' = conn /\ finished' = finished /\ file'[c].data = file[c].data
      /\ backlog' = backlog
  BY <1>1, <1>2 DEF TypeOK, ServerTypeOK, NetTypeOK, Struct, FileState, OpenFile
<1>4. NameCap - cl[c].inbuf \in Int
  BY <1>1, NetAssumption
<1>5. \A j \in 1 .. Len(toServer'[c]) : toServer'[c][j].mark = LF
  <2>1. PICK o \in {0, 1} :
          \A j \in 1 .. Len(toServer'[c]) :
            /\ j + o \in 1 .. Len(toServer[c])
            /\ toServer'[c][j].mark = toServer[c][j + o].mark
    BY <1>1, <1>3, <1>4, ReadShifts
  <2>2. \A j \in 1 .. Len(toServer[c]) : j = 1 /\ toServer[c][j].mark = LF
    <3>1. CASE toServer[c] = << >>
      BY <3>1
    <3>2. CASE toServer[c] # << >>
      <4>1. Len(toServer[c]) = 1 /\ toServer[c][1].mark = LF
        BY <1>1, <3>2 DEF NameOnly
      <4> QED BY <4>1
    <3> QED BY <3>1, <3>2
  <2> QED BY <2>1, <2>2
<1>6. \A j \in 1 .. Len(toClient'[c]) : toClient'[c][j].byte = "C"
  <2>1. toClient[c] = << >>
    BY <1>1 DEF NameOnly
  <2>2. \/ toClient'[c] = << >>
        \/ toClient'[c] = Append(<< >>, [byte |-> "C", of |-> 0])
    BY <1>1, <2>1 DEF OpenFile, AfterWrite, TypeOK, NetTypeOK
  <2> QED BY <2>2
<1>7. Untransferred(c)' /\ Stored(c)' = 0 /\ snd'[c].next = 1
  BY <1>1, <1>3 DEF Untransferred, Stored
<1>8. Numbers(c)'
  <2>1. Blocks[c] \in Nat /\ (0 + 1) % (MaxByte + 1) = 1
    BY <1>1, NetAssumption, ModOne DEF LF
  <2> QED BY <1>3, <1>7, <2>1 DEF Numbers
<1>9. QueueOK(c)' /\ AcksOK(c)' /\ BufferOK(c)'
  BY <1>3, <1>5, <1>6 DEF QueueOK, AcksOK, BufferOK, IsBlock, LF, SOH, STX, EOT
<1>10. \A i \in 1 .. Len(file'[c].data) : file'[c].data[i] = i
  BY <1>3, <1>7 DEF Stored
<1>11. c \notin finished'
  BY <1>7 DEF Untransferred
<1> QED BY <1>1, <1>3, <1>8, <1>9, <1>10, <1>11, ServedTransfer DEF Flow

\* A client in pre_block or get_block is neither wedged nor finished.
LEMMA FlowBeforeRead ==
  ASSUME FileInv, NEW c \in Allocated, cl[c].state \in {"pre_block", "get_block"}
  PROVE  /\ Flow(c) /\ Framed(c) /\ c \in Clients /\ c \notin finished /\ TypeOK
         /\ \A i \in 1 .. Len(file[c].data) : file[c].data[i] = i
         /\ cl \in [Clients -> Struct] /\ cl[c] \in Struct
         /\ toServer \in [Clients -> Seq(Frame)]
         /\ toClient \in [Clients -> Seq(Reply)]
<1>1. c \in Clients /\ Transfer(c) /\ Framing(c) /\ TypeOK
  BY DEF FileInv, SyncInv, ListInv, Allocated
<1>2. ~ Wedged(c) /\ c \notin finished
  BY <1>1 DEF Wedged, Transfer
<1> QED BY <1>1, <1>2 DEF Transfer, Framing, Opened, TypeOK, ServerTypeOK,
          NetTypeOK, Stored

\* A read that leaves c in pre_block or get_block.
LEMMA ReadTransfer ==
  ASSUME FileInv, UNCHANGED <<snd, backlog, file, finished>>, NEW c \in Allocated,
         cl[c].state \in {"pre_block", "get_block"},
         cl'[c].state \in {"pre_block", "get_block"},
         cl'[c].current_block = cl[c].current_block,
         NEW size \in Int, NEW n \in ReadCounts(c, size),
         toServer'[c] = AfterRead(toServer[c], n),
         \/ toClient'[c] = toClient[c]
         \/ \E r \in Reply : /\ r.byte # "ACK"
                             /\ toClient'[c] = Append(toClient[c], r)
  PROVE  Transfer(c)'
<1>1. /\ Flow(c) /\ c \in Clients /\ c \notin finished /\ TypeOK
      /\ \A i \in 1 .. Len(file[c].data) : file[c].data[i] = i
      /\ toServer[c] \in Seq(Frame)
  BY FlowBeforeRead
<1>2. PICK o \in {0, 1} :
        \A j \in 1 .. Len(toServer'[c]) :
          /\ j + o \in 1 .. Len(toServer[c])
          /\ toServer'[c][j].mark = toServer[c][j + o].mark
          /\ toServer'[c][j].blk = toServer[c][j + o].blk
  BY <1>1, ReadShifts
<1>3. BufferOK(c)'
  BY DEF BufferOK
<1>4. Flow(c)'
  BY <1>1, <1>2, <1>3, FlowKept
<1> QED BY <1>1, <1>4, ServedTransfer DEF Opened

\* What is read in pre_block.
LEMMA MarkTransfer ==
  ASSUME FileInv, TypeOK', UNCHANGED snd, NEW c \in Allocated,
         StartBlock(c) \/ EndOfTransmission(c) \/ NakMark(c)
  PROVE  Transfer(c)'
<1>1. cl[c].state = "pre_block" /\ UNCHANGED <<backlog, file, finished>>
  BY DEF FileInv, SyncInv, ListInv, CursorLive, StartBlock, EndOfTransmission,
         NakMark, At
<1>2. /\ Flow(c) /\ c \in Clients /\ c \notin finished
      /\ \A i \in 1 .. Len(file[c].data) : file[c].data[i] = i
      /\ cl \in [Clients -> Struct] /\ cl[c] \in Struct
      /\ toServer \in [Clients -> Seq(Frame)]
      /\ toClient \in [Clients -> Seq(Reply)]
  BY <1>1, FlowBeforeRead
<1>3. CASE StartBlock(c) \/ NakMark(c)
  <2>1. PICK n \in ReadCounts(c, 1) :
          /\ toServer'[c] = AfterRead(toServer[c], n)
          /\ cl'[c].state \in {"pre_block", "get_block"}
          /\ cl'[c].current_block = cl[c].current_block
    <3>1. CASE StartBlock(c)
      <4>1. PICK n \in ReadCounts(c, 1) :
              /\ cl' = [cl EXCEPT ![c].state = "get_block",
                                  ![c].buf0 = ReadMark(c, n),
                                  ![c].blocksize = BlockSize(ReadMark(c, n))]
              /\ toServer' = [toServer EXCEPT ![c] = AfterRead(@, n)]
        BY <3>1 DEF StartBlock
      <4> QED BY <1>2, <4>1 DEF Struct
    <3>2. CASE NakMark(c)
      BY <1>1, <1>2, <3>2 DEF NakMark, Struct
    <3> QED BY <1>3, <3>1, <3>2
  <2>2. \/ toClient'[c] = toClient[c]
        \/ \E r \in Reply : /\ r.byte # "ACK"
                            /\ toClient'[c] = Append(toClient[c], r)
    <3>1. CASE StartBlock(c)
      BY <3>1 DEF StartBlock
    <3>2. CASE NakMark(c)
      <4> DEFINE r == [byte |-> "NAK", of |-> 0]
      <4>1. r \in Reply /\ r.byte # "ACK"
        BY DEF Reply
      <4>2. toClient'[c] = toClient[c] \/ toClient'[c] = Append(toClient[c], r)
        BY <1>2, <3>2 DEF NakMark, AfterWrite
      <4> QED BY <4>1, <4>2
    <3> QED BY <1>3, <3>1, <3>2
  <2>3. 1 \in Int
    OBVIOUS
  <2> QED BY <1>1, <2>1, <2>2, <2>3, ReadTransfer
<1>4. CASE EndOfTransmission(c)
  <2>1. PICK n \in ReadCounts(c, 1) :
          ReadMark(c, n) = EOT /\ cl'[c].state = "finished"
    BY <1>1, <1>2, <1>4 DEF EndOfTransmission, Struct
  <2>2. conn' = conn
    BY <1>4 DEF EndOfTransmission
  <2>3. conn[c] = "closed" \/ Stored(c) = Blocks[c]
    <3>1. CASE n = 0
      BY <1>1, <2>1, <3>1, MarkRead DEF FileInv
    <3>2. CASE n # 0
      <4>1. toServer[c] # << >> /\ toServer[c][1].mark = EOT
        BY <1>1, <2>1, <3>2, MarkRead DEF FileInv
      <4>2. 1 \in 1 .. Len(toServer[c])
        BY <1>2, <4>1
      <4> QED BY <1>2, <4>1, <4>2 DEF Flow, QueueOK
    <3> QED BY <3>1, <3>2
  <2>4. AllStored(c)'
    BY <1>1, <2>2, <2>3 DEF AllStored, Stored
  <2> QED BY <1>1, <1>2, <2>1, <2>4, ServedTransfer DEF Opened
<1> QED BY <1>3, <1>4

\* A part of a block is read; with its last part the block is in the buffer.
LEMMA GetBlockTransfer ==
  ASSUME FileInv, TypeOK', UNCHANGED snd, NEW c \in Allocated, GetBlock(c)
  PROVE  Transfer(c)'
<1> DEFINE size == cl[c].blocksize - cl[c].inbuf
<1>1. /\ cl[c].state = "get_block"
      /\ UNCHANGED <<backlog, file, finished, toClient>>
  BY DEF FileInv, SyncInv, ListInv, CursorLive, GetBlock, At
<1>2. /\ Flow(c) /\ Framed(c) /\ c \in Clients /\ c \notin finished /\ TypeOK
      /\ \A i \in 1 .. Len(file[c].data) : file[c].data[i] = i
      /\ cl \in [Clients -> Struct] /\ cl[c] \in Struct
      /\ toServer \in [Clients -> Seq(Frame)]
  BY <1>1, FlowBeforeRead
<1>3. /\ cl[c].inbuf \in Nat /\ cl[c].blocksize \in Nat /\ size \in Nat \ {0}
  <2>1. cl[c].inbuf \in Nat /\ cl[c].blocksize \in {0, SohSize, StxSize}
    BY <1>2 DEF Struct
  <2>2. cl[c].blocksize \in Nat
    BY <2>1, NetAssumption
  <2> QED BY <1>1, <1>2, <2>1, <2>2 DEF Framed
<1>4. PICK n \in ReadCounts(c, size) :
        /\ cl'[c].state = IF cl[c].inbuf + n = cl[c].blocksize
                          THEN "check_block" ELSE "get_block"
        /\ cl'[c].current_block = cl[c].current_block
        /\ cl'[c].blk = IF n = 0 THEN cl[c].blk ELSE Head(toServer[c]).blk
        /\ toServer'[c] = AfterRead(toServer[c], n)
  <2>1. PICK n \in ReadCounts(c, size) :
          LET full == cl[c].inbuf + n = cl[c].blocksize
              blk  == IF n = 0 THEN cl[c].blk ELSE Head(toServer[c]).blk IN
          /\ cl' = [cl EXCEPT ![c].inbuf = @ + n,
                              ![c].blk = blk,
                              ![c].buf0 = IF n = 0 THEN @ ELSE blk.num,
                              ![c].state = IF full THEN "check_block" ELSE @]
          /\ toServer' = [toServer EXCEPT ![c] = AfterRead(@, n)]
    BY DEF GetBlock
  <2>2. toServer'[c] = AfterRead(toServer[c], n)
    BY <1>2, <2>1
  <2>3. /\ cl'[c].state = IF cl[c].inbuf + n = cl[c].blocksize
                          THEN "check_block" ELSE "get_block"
        /\ cl'[c].current_block = cl[c].current_block
        /\ cl'[c].blk = IF n = 0 THEN cl[c].blk ELSE Head(toServer[c]).blk
    BY <1>1, <1>2, <2>1 DEF Struct
  <2> QED BY <2>2, <2>3
<1>5. CASE cl[c].inbuf + n # cl[c].blocksize
  <2>1. cl'[c].state = "get_block" /\ size \in Int
    BY <1>3, <1>4, <1>5
  <2> HIDE DEF size
  <2> QED BY <1>1, <1>4, <2>1, ReadTransfer
<1>6. CASE cl[c].inbuf + n = cl[c].blocksize
  <2>1. n \in Nat \ {0} /\ toServer[c] # << >>
    <3>1. n \in Nat /\ (n # 0 => toServer[c] # << >>)
      BY <1>2, <1>3, ReadResult
    <3>2. n # 0
      BY <1>3, <1>6
    <3> QED BY <3>1, <3>2
  <2>2. IsBlock(toServer[c][1])
    BY <1>1, <1>2, <2>1 DEF Framed, IsBlock
  <2>3. /\ cl'[c].blk = toServer[c][1].blk /\ cl'[c].state = "check_block"
        /\ 1 \in 1 .. Len(toServer[c])
    BY <1>2, <1>4, <1>6, <2>1
  <2>4. OnItsWay(c, toServer[c][1].blk)
    BY <1>2, <2>2, <2>3 DEF Flow, QueueOK
  <2>5. size \in Int
    BY <1>3
  <2> HIDE DEF size
  <2>6. PICK o \in {0, 1} :
          \A j \in 1 .. Len(toServer'[c]) :
            /\ j + o \in 1 .. Len(toServer[c])
            /\ toServer'[c][j].mark = toServer[c][j + o].mark
            /\ toServer'[c][j].blk = toServer[c][j + o].blk
    BY <1>2, <1>4, <2>5, ReadShifts
  <2>7. \A j \in 1 .. Len(toServer'[c]) :
          IsBlock(toServer'[c][j]) => cl'[c].blk.idx <= toServer'[c][j].blk.idx
    <3> SUFFICES ASSUME NEW j \in 1 .. Len(toServer'[c]), IsBlock(toServer'[c][j])
                 PROVE  cl'[c].blk.idx <= toServer'[c][j].blk.idx
      OBVIOUS
    <3>1. 1 <= j + o /\ j + o \in 1 .. Len(toServer[c])
      BY <2>6
    <3>2. IsBlock(toServer[c][j + o])
      BY <2>6 DEF IsBlock
    <3>3. toServer[c][1].blk.idx <= toServer[c][j + o].blk.idx
      BY <1>2, <2>2, <2>3, <3>1, <3>2 DEF Flow, QueueOK
    <3> QED BY <2>3, <2>6, <3>3
  <2>8. OnItsWay(c, cl[c].blk)'
    BY <1>1, <2>3, <2>4 DEF OnItsWay, Stored
  <2>9. BufferOK(c)'
    BY <2>7, <2>8 DEF BufferOK, IsBlock
  <2>10. Flow(c)'
    BY <1>1, <1>2, <1>4, <2>6, <2>9, FlowKept
  <2> QED BY <1>1, <1>2, <2>3, <2>10, ServedTransfer DEF Opened
<1> QED BY <1>5, <1>6

\* A client in check_block that is not wedged.
LEMMA FlowBeforeCheck ==
  ASSUME FileInv, NEW c \in Allocated, cl[c].state = "check_block"
  PROVE  /\ Flow(c) \/ Wedged(c)
         /\ c \in Clients /\ c \notin finished /\ TypeOK
         /\ \A i \in 1 .. Len(file[c].data) : file[c].data[i] = i
         /\ cl \in [Clients -> Struct] /\ cl[c] \in Struct
         /\ toServer \in [Clients -> Seq(Frame)]
         /\ toClient \in [Clients -> Seq(Reply)]
         /\ file \in [Clients -> FileState] /\ file[c] \in FileState
         /\ snd[c].next \in Nat
<1>1. c \in Clients /\ Transfer(c) /\ TypeOK
  BY DEF FileInv, SyncInv, ListInv, Allocated
<1>2. c \notin finished
  BY <1>1 DEF Transfer
<1> QED BY <1>1, <1>2 DEF Transfer, Opened, TypeOK, ServerTypeOK, SenderTypeOK,
          Sender, NetTypeOK, Stored

\* The block is the one after those stored: number and queue leave no choice.
LEMMA ExpectedIsNext ==
  ASSUME FileInv, NEW c \in Allocated, cl[c].state = "check_block", IsExpected(c)
  PROVE  /\ Flow(c)
         /\ cl[c].blk.idx = Stored(c) + 1 /\ Payload(cl[c].blk) = Stored(c) + 1
         /\ snd[c].next = Stored(c) + 1 /\ Stored(c) + 1 <= Blocks[c]
<1>1. /\ cl[c] \in Struct /\ file[c] \in FileState /\ snd[c].next \in Nat
      /\ Flow(c) \/ Wedged(c)
  BY FlowBeforeCheck
<1>2. /\ cl[c].blk.crcOK /\ cl[c].blk.num = cl[c].current_block
      /\ cl[c].blk.idx \in Nat /\ cl[c].current_block \in Int
      /\ Stored(c) \in Nat
  BY <1>1 DEF IsExpected, Struct, Block, FileState, Stored, Bytes
<1>3. Flow(c)
  BY <1>1, <1>2 DEF Wedged
<1>4. OnItsWay(c, cl[c].blk) /\ Numbers(c)
  BY <1>3 DEF Flow, BufferOK
<1>5. /\ Stored(c) <= cl[c].blk.idx /\ cl[c].blk.idx <= snd[c].next
      /\ snd[c].next <= Stored(c) + 1 /\ cl[c].blk.idx <= Blocks[c]
      /\ cl[c].blk.idx % (MaxByte + 1) = (Stored(c) + 1) % (MaxByte + 1)
  BY <1>2, <1>4 DEF OnItsWay, Numbers
<1>6. MaxByte + 1 \in Nat /\ MaxByte + 1 >= 2
  BY NetAssumption DEF LF
<1>7. cl[c].blk.idx <= Stored(c) + 1
  BY <1>1, <1>2, <1>5
<1>8. cl[c].blk.idx = Stored(c) + 1
  BY <1>2, <1>5, <1>6, <1>7, ModNeighbours
<1>9. snd[c].next = Stored(c) + 1
  BY <1>1, <1>2, <1>5, <1>8
<1> QED BY <1>2, <1>3, <1>5, <1>8, <1>9 DEF Payload

\* The expected block is stored: file, number and ACK advance together.
LEMMA AcceptBlockTransfer ==
  ASSUME FileInv, TypeOK', UNCHANGED snd, NEW c \in Allocated, AcceptBlock(c)
  PROVE  Transfer(c)'
<1> DEFINE k == Stored(c)
<1>1. /\ cl[c].state = "check_block" /\ IsExpected(c)
      /\ UNCHANGED <<backlog, toServer, finished>>
  BY DEF FileInv, SyncInv, ListInv, CursorLive, AcceptBlock, At
<1>2. /\ c \in Clients /\ c \notin finished /\ TypeOK
      /\ \A i \in 1 .. Len(file[c].data) : file[c].data[i] = i
      /\ cl \in [Clients -> Struct] /\ cl[c] \in Struct
      /\ toServer \in [Clients -> Seq(Frame)]
      /\ toClient \in [Clients -> Seq(Reply)]
      /\ file \in [Clients -> FileState] /\ file[c] \in FileState
      /\ snd[c].next \in Nat /\ cl[c].current_block \in Bytes
      /\ file[c].data \in Seq(Nat) /\ k \in Nat
  BY <1>1, FlowBeforeCheck DEF Struct, FileState, Stored
<1>3. /\ Flow(c) /\ cl[c].blk.idx = k + 1 /\ Payload(cl[c].blk) = k + 1
      /\ snd[c].next = k + 1 /\ k + 1 <= Blocks[c]
  BY <1>1, ExpectedIsNext
<1>4. file'[c].data = Append(file[c].data, k + 1)
  BY <1>2, <1>3 DEF AcceptBlock, FileState
<1>5. /\ cl'[c].state = "pre_block"
      /\ cl'[c].current_block = NextNumber(cl[c].current_block)
  BY <1>2 DEF AcceptBlock, Struct
<1>6. Stored(c)' = k + 1
  BY <1>2, <1>4 DEF Stored
<1>7. \A i \in 1 .. Len(file'[c].data) : file'[c].data[i] = i
  <2>1. Len(file[c].data) = k
    BY DEF Stored
  <2> HIDE DEF k
  <2> QED BY <1>2, <1>4, <2>1
<1> HIDE DEF k
<1>8. Numbers(c)'
  <2>1. cl[c].current_block = (k + 1) % (MaxByte + 1)
    BY <1>3 DEF Flow, Numbers, k
  <2> DEFINE m == MaxByte + 1
  <2>2. m \in Nat /\ m >= 2 /\ k + 1 \in Nat
    <3>1. MaxByte \in Nat /\ MaxByte >= 1
      BY NetAssumption DEF LF
    <3> QED BY <1>2, <3>1
  <2> DEFINE r == (k + 1) % m
  <2>3. ((k + 1) + 1) % m = IF r + 1 = m THEN 0 ELSE r + 1
    BY <2>2, ModSucc
  <2>4. cl'[c].current_block = ((k + 1) + 1) % (MaxByte + 1)
    BY <1>5, <2>1, <2>3 DEF NextNumber
  <2> HIDE DEF m, r
  <2>5. snd'[c].next = k + 1 /\ Blocks[c] \in Nat
    BY <1>2, <1>3, NetAssumption
  <2> QED BY <1>2, <1>3, <1>6, <2>4, <2>5 DEF Numbers
<1>9. QueueOK(c)'
  <2>1. /\ QueueOK(c) /\ Numbers(c)
        /\ \A j \in 1 .. Len(toServer[c]) :
             IsBlock(toServer[c][j]) => k + 1 <= toServer[c][j].blk.idx
    BY <1>1, <1>3 DEF Flow, BufferOK
  <2>2. \A j \in 1 .. Len(toServer[c]) :
          IsBlock(toServer[c][j]) => OnItsWay(c, toServer[c][j].blk)'
    <3> SUFFICES ASSUME NEW j \in 1 .. Len(toServer[c]), IsBlock(toServer[c][j])
                 PROVE  OnItsWay(c, toServer[c][j].blk)'
      OBVIOUS
    <3>1. k + 1 <= toServer[c][j].blk.idx /\ OnItsWay(c, toServer[c][j].blk)
      BY <2>1 DEF QueueOK
    <3> QED BY <1>1, <1>6, <3>1 DEF OnItsWay
  <2>3. \A j \in 1 .. Len(toServer[c]) : toServer[c][j].mark # EOT
    <3> SUFFICES ASSUME NEW j \in 1 .. Len(toServer[c]),
                        toServer[c][j].mark = EOT
                 PROVE  FALSE
      OBVIOUS
    <3>1. k = Blocks[c]
      BY <2>1 DEF QueueOK, k
    <3> QED BY <1>2, <1>3, <3>1
  <2> QED BY <1>1, <2>1, <2>2, <2>3 DEF QueueOK, IsBlock
<1>10. AcksOK(c)'
  <2> DEFINE a == [byte |-> "ACK", of |-> k + 1]
  <2>1. toClient'[c] = toClient[c] \/ toClient'[c] = Append(toClient[c], a)
    BY <1>2, <1>3 DEF AcceptBlock, AfterWrite
  <2>2. \A j \in 1 .. Len(toClient[c]) : toClient[c][j].byte # "ACK"
    <3> SUFFICES ASSUME NEW j \in 1 .. Len(toClient[c]),
                        toClient[c][j].byte = "ACK"
                 PROVE  FALSE
      OBVIOUS
    <3>1. k + 1 <= toClient[c][j].of /\ toClient[c][j].of <= k
      BY <1>3 DEF Flow, AcksOK, k
    <3>2. toClient[c][j] \in Reply
      BY <1>2
    <3>3. toClient[c][j].of \in Nat
      BY <3>2 DEF Reply
    <3> QED BY <1>2, <3>1, <3>3
  <2>3. \A j \in 1 .. Len(toClient'[c]) : toClient'[c][j].byte = "ACK" =>
          j = Len(toClient[c]) + 1 /\ toClient'[c][j].of = k + 1
    <3>1. CASE toClient'[c] = toClient[c]
      BY <2>2, <3>1
    <3>2. CASE toClient'[c] = Append(toClient[c], a)
      <4>1. \A j \in 1 .. Len(toClient'[c]) :
              \/ j \in 1 .. Len(toClient[c]) /\ toClient'[c][j] = toClient[c][j]
              \/ j = Len(toClient[c]) + 1 /\ toClient'[c][j] = a
        <5> HIDE DEF a
        <5> QED BY <1>2, <3>2
      <4> QED BY <2>2, <4>1
    <3> QED BY <2>1, <3>1, <3>2
  <2>4. snd'[c].next = k + 1 /\ Len(toClient[c]) \in Nat
    BY <1>2, <1>3
  <2>5. \A j \in 1 .. Len(toClient'[c]) : toClient'[c][j].byte = "ACK" =>
          snd'[c].next <= toClient'[c][j].of /\ toClient'[c][j].of <= k + 1
    <3> SUFFICES ASSUME NEW j \in 1 .. Len(toClient'[c]),
                        toClient'[c][j].byte = "ACK"
                 PROVE  /\ snd'[c].next <= toClient'[c][j].of
                        /\ toClient'[c][j].of <= k + 1
      OBVIOUS
    <3>1. toClient'[c][j].of = k + 1 /\ snd'[c].next = k + 1
      BY <2>3, <2>4
    <3>2. k \in Nat
      BY <1>2
    <3> QED BY <3>1, <3>2
  <2>6. \A i, j \in 1 .. Len(toClient'[c]) :
          i < j /\ toClient'[c][i].byte = "ACK" /\ toClient'[c][j].byte = "ACK"
            => FALSE
    BY <2>3, <2>4
  <2> HIDE DEF a
  <2> QED BY <1>6, <2>5, <2>6 DEF AcksOK
<1>11. Flow(c)'
  BY <1>5, <1>8, <1>9, <1>10 DEF Flow, BufferOK
<1> QED BY <1>1, <1>2, <1>5, <1>7, <1>11, ServedTransfer DEF Opened

-----------------------------------------------------------------------------
(* Every step keeps FileInv: the rest of the server's steps, the clients', *)
(* and the theorems about the files.                                       *)

\* A damaged block: the client is asked for it again.
LEMMA NakBlockTransfer ==
  ASSUME FileInv, UNCHANGED snd, NEW c \in Allocated, NakBlock(c)
  PROVE  Transfer(c)'
<1>1. /\ cl[c].state = "check_block" /\ ~ cl[c].blk.crcOK
      /\ UNCHANGED <<backlog, toServer, finished, file>>
  BY DEF FileInv, SyncInv, ListInv, CursorLive, NakBlock, At
<1>2. /\ Flow(c) \/ Wedged(c)
      /\ c \in Clients /\ c \notin finished /\ TypeOK
      /\ \A i \in 1 .. Len(file[c].data) : file[c].data[i] = i
      /\ cl \in [Clients -> Struct] /\ cl[c] \in Struct
      /\ toServer \in [Clients -> Seq(Frame)]
      /\ toClient \in [Clients -> Seq(Reply)]
  BY <1>1, FlowBeforeCheck
<1>3. Flow(c)
  BY <1>1, <1>2 DEF Wedged
<1>4. cl'[c].state = "pre_block" /\ cl'[c].current_block = cl[c].current_block
  BY <1>2 DEF NakBlock, Struct
<1>5. \/ toClient'[c] = toClient[c]
      \/ \E r \in Reply : /\ r.byte # "ACK"
                          /\ toClient'[c] = Append(toClient[c], r)
  <2> DEFINE r == [byte |-> "NAK", of |-> cl[c].blk.idx]
  <2>1. r \in Reply /\ r.byte # "ACK"
    BY <1>2 DEF Reply, Struct, Block
  <2>2. toClient'[c] = toClient[c] \/ toClient'[c] = Append(toClient[c], r)
    BY <1>2 DEF NakBlock, AfterWrite
  <2> QED BY <2>1, <2>2
<1>6. \A j \in 1 .. Len(toServer'[c]) :
        /\ j + 0 \in 1 .. Len(toServer[c])
        /\ toServer'[c][j].mark = toServer[c][j + 0].mark
        /\ toServer'[c][j].blk = toServer[c][j + 0].blk
  <2>1. \A j \in 1 .. Len(toServer[c]) : j + 0 = j
    BY <1>2
  <2> QED BY <1>1, <2>1
<1>7. BufferOK(c)'
  BY <1>4 DEF BufferOK
<1>8. Flow(c)'
  <2>1. file'[c].data = file[c].data /\ snd'[c].next = snd[c].next
    BY <1>1
  <2>2. 0 \in {0, 1}
    OBVIOUS
  <2> QED BY <1>2, <1>3, <1>4, <1>5, <1>6, <1>7, <2>1, <2>2, FlowKept
<1> QED BY <1>1, <1>2, <1>4, <1>8, ServedTransfer DEF Opened

\* A repeated block: the client stays where it is, and stays wedged.
LEMMA RepeatBlockTransfer ==
  ASSUME FileInv, UNCHANGED snd, NEW c \in Allocated, RepeatBlock(c)
  PROVE  Transfer(c)'
<1>1. /\ cl[c].state = "check_block" /\ Wedged(c)
      /\ UNCHANGED <<backlog, finished, file, cl>>
  BY DEF FileInv, SyncInv, ListInv, CursorLive, RepeatBlock, At, Wedged
<1>2. /\ c \in Clients /\ c \notin finished
      /\ \A i \in 1 .. Len(file[c].data) : file[c].data[i] = i
  BY <1>1, FlowBeforeCheck
<1>3. Wedged(c)'
  BY <1>1 DEF Wedged, BadNumber
<1> QED BY <1>1, <1>2, <1>3, ServedTransfer DEF Opened

\* Dropped, or finished: nothing more is written.
LEMMA DropTransfer ==
  ASSUME FileInv, UNCHANGED snd, NEW c \in Allocated, DropClient(c)
  PROVE  Transfer(c)'
<1>1. /\ cl[c].state = "check_block" /\ UNCHANGED <<backlog, finished, file>>
      /\ cl' = [cl EXCEPT ![c] = FreeStruct]
  BY DEF FileInv, SyncInv, ListInv, CursorLive, DropClient, Drop, At
<1>2. /\ c \in Clients /\ c \notin finished /\ cl \in [Clients -> Struct]
      /\ \A i \in 1 .. Len(file[c].data) : file[c].data[i] = i
  BY <1>1, FlowBeforeCheck
<1>3. cl'[c].state = "free"
  BY <1>1, <1>2 DEF FreeStruct
<1> QED BY <1>1, <1>2, <1>3, ServedTransfer DEF Opened

LEMMA FinishTransfer ==
  ASSUME FileInv, UNCHANGED snd, NEW c \in Allocated, Finish(c)
  PROVE  Transfer(c)'
<1>1. /\ cl[c].state = "finished" /\ UNCHANGED <<backlog, file>>
      /\ c \in Clients /\ Transfer(c) /\ AllStored(c)
      /\ cl \in [Clients -> Struct] /\ conn \in [Clients -> ConnStates]
  BY DEF FileInv, SyncInv, ListInv, CursorLive, Finish, At, Transfer, TypeOK,
         ServerTypeOK, NetTypeOK, Allocated
<1>2. \/ cl'[c].state = "free"
      \/ cl'[c].state = "finished"
  BY <1>1 DEF Finish, Drop, FreeStruct
<1>3. conn[c] = "closed" => conn'[c] = "closed"
  BY <1>1 DEF Finish, Drop
<1>4. AllStored(c)'
  BY <1>1, <1>3 DEF AllStored, Stored
<1>5. \A i \in 1 .. Len(file'[c].data) : file'[c].data[i] = i
  BY <1>1 DEF Transfer, Stored
<1> QED BY <1>1, <1>2, <1>4, <1>5, ServedTransfer DEF Opened

\* Part of the name: nothing is transferred yet.
LEMMA ReadNameTransfer ==
  ASSUME FileInv, UNCHANGED snd, NEW c \in Allocated, ReadPartOfName(c)
  PROVE  Transfer(c)'
<1>1. /\ cl[c].state = "initial" /\ UNCHANGED <<backlog, file, finished>>
      /\ c \in Clients /\ Transfer(c) /\ Untransferred(c)
      /\ cl \in [Clients -> Struct]
  BY DEF FileInv, SyncInv, ListInv, CursorLive, ReadPartOfName, At, Transfer,
         TypeOK, ServerTypeOK, Allocated
<1>2. cl'[c].state = "initial"
  BY <1>1 DEF ReadPartOfName, Struct
<1>3. Untransferred(c)' /\ c \notin finished
  BY <1>1 DEF Untransferred, Stored
<1>4. \A i \in 1 .. Len(file'[c].data) : file'[c].data[i] = i
  BY <1>1 DEF Transfer, Stored
<1> QED BY <1>1, <1>2, <1>3, <1>4, ServedTransfer DEF Opened

LEMMA ServeTransfer ==
  ASSUME FileInv, TypeOK', UNCHANGED snd, NEW c \in Clients, Serve(c)
  PROVE  Transfer(c)'
<1>0. /\ pc # "select" /\ cursor = c => c \in Allocated
      /\ Transfer(c) /\ TypeOK /\ backlog' = backlog
  BY NetAssumption, ServeLocal
     DEF FileInv, SyncInv, ListInv, CursorLive, Allocated
<1>1. CASE \/ SkipClient(c) \/ VisitClient(c) \/ NoDirectory(c) \/ StoreFails(c) \/ NullFile(c)
           \/ ReadError(c)
  <2>1. UNCHANGED <<cl, conn, toServer, toClient, backlog, file, finished>>
    BY <1>1 DEF SkipClient, VisitClient, NoDirectory, StoreFails, NullFile, ReadError, netVars
  <2>2. \A i \in 1 .. Len(backlog) : backlog[i] = c => Untransferred(c)
    BY <1>0 DEF Transfer
  <2> QED BY <1>0, <2>1, <2>2, OtherTransfer
<1>2. CASE ReadPartOfName(c)
  BY <1>0, <1>2, ReadNameTransfer DEF ReadPartOfName, At
<1>3. CASE OpenFile(c)
  BY <1>0, <1>3, OpenFileTransfer DEF OpenFile, At
<1>4. CASE StartBlock(c) \/ EndOfTransmission(c) \/ NakMark(c)
  BY <1>0, <1>4, MarkTransfer DEF StartBlock, EndOfTransmission, NakMark, At
<1>5. CASE GetBlock(c)
  BY <1>0, <1>5, GetBlockTransfer DEF GetBlock, At
<1>6. CASE AcceptBlock(c)
  BY <1>0, <1>6, AcceptBlockTransfer DEF AcceptBlock, At
<1>7. CASE NakBlock(c)
  BY <1>0, <1>7, NakBlockTransfer DEF NakBlock, At
<1>8. CASE RepeatBlock(c)
  BY <1>0, <1>8, RepeatBlockTransfer DEF RepeatBlock, At
<1>9. CASE DropClient(c)
  BY <1>0, <1>9, DropTransfer DEF DropClient, At
<1>10. CASE Finish(c)
  BY <1>0, <1>10, FinishTransfer DEF Finish, At
<1> QED BY <1>1, <1>2, <1>3, <1>4, <1>5, <1>6, <1>7, <1>8, <1>9, <1>10 DEF Serve

\* Accept: the struct is new, and so is the transfer.
LEMMA AcceptTransfer ==
  ASSUME FileInv, TypeOK', UNCHANGED snd, Accept, NEW d \in Clients
  PROVE  Transfer(d)'
<1> DEFINE c == Head(backlog)
<1>1. /\ backlog \in Seq(Clients) /\ backlog # << >> /\ c = backlog[1]
      /\ 1 \in 1 .. Len(backlog) /\ c \in Clients /\ cl \in [Clients -> Struct]
  BY HeadTailProperties DEF Accept, FileInv, SyncInv, ListInv, TypeOK, NetTypeOK,
     ServerTypeOK
<1>2. /\ UNCHANGED <<conn, toServer, toClient, file, finished>>
      /\ cl'[c].state = "initial"
      /\ \A e \in Clients \ {c} : cl'[e] = cl[e]
  BY <1>1 DEF Accept, FreeStruct
<1>3. \A i \in 1 .. Len(backlog') : /\ backlog'[i] = backlog[i + 1]
                                   /\ i + 1 \in 1 .. Len(backlog)
  BY <1>1, HeadTailProperties DEF Accept
<1>4. Transfer(d)
  BY DEF FileInv
<1>5. \A i \in 1 .. Len(backlog') : backlog'[i] = d => Untransferred(d)
  BY <1>3, <1>4 DEF Transfer
<1> HIDE DEF c
<1>6. CASE d # c
  BY <1>2, <1>4, <1>5, <1>6, OtherTransfer
<1>7. CASE d = c
  <2>1. Untransferred(d)
    BY <1>1, <1>4, <1>7 DEF Transfer
  <2>2. Untransferred(d)' /\ d \notin finished'
    BY <1>2, <2>1 DEF Untransferred, Stored
  <2>3. Stored(d)' = 0
    BY <2>2 DEF Untransferred
  <2> QED BY <1>2, <1>7, <2>2, <2>3 DEF Transfer, Opened
<1> QED BY <1>6, <1>7

----------------------------------------------------------------------------
(* The clients.                                                            *)

\* What is left to show when c itself takes a step.
LEMMA ClientStepTransfer ==
  ASSUME FileInv, UNCHANGED serverVars, UNCHANGED backlog, NEW c \in Clients,
         snd'[c].phase # "idle",
         snd'[c].next = snd[c].next \/ toClient[c] # << >>,
         conn[c] = "closed" => conn'[c] = "closed",
         Flow(c) => Flow(c)'
  PROVE  Transfer(c)'
<1>1. /\ Transfer(c) /\ Framing(c) /\ UNCHANGED <<cl, file, finished>>
  BY DEF FileInv, SyncInv, serverVars
<1>2. Stored(c)' = Stored(c) /\ (AllStored(c) => AllStored(c)')
  BY <1>1 DEF Stored, AllStored
<1>3. Wedged(c) => Wedged(c)'
  BY <1>1 DEF Wedged, BadNumber
<1>4. \/ cl[c].state = "initial"
      \/ \E i \in 1 .. Len(backlog) : backlog[i] = c
      => Untransferred(c)'
  <2> SUFFICES ASSUME \/ cl[c].state = "initial"
                      \/ \E i \in 1 .. Len(backlog) : backlog[i] = c
               PROVE  Untransferred(c)'
    OBVIOUS
  <2>1. toClient[c] = << >> /\ Untransferred(c)
    BY <1>1 DEF Framing, NameOnly, Transfer
  <2> QED BY <1>1, <1>2, <2>1 DEF Untransferred
<1> QED BY <1>1, <1>2, <1>3, <1>4 DEF Transfer

\* A frame that fits is sent behind the others.
LEMMA SendKeepsFlow ==
  ASSUME TypeOK, NEW c \in Clients, Flow(c), UNCHANGED <<serverVars, toClient>>,
         snd'[c].next = snd[c].next, NEW f \in Frame, Send(c, f),
         IsBlock(f) => OnItsWay(c, f.blk) /\ f.blk.idx = snd[c].next,
         f.mark = EOT => Stored(c) = Blocks[c]
  PROVE  Flow(c)'
<1>1. /\ toServer[c] \in Seq(Frame) /\ UNCHANGED <<cl, file>>
      /\ toServer'[c] = toServer[c] \/ toServer'[c] = Append(toServer[c], f)
      /\ Len(toServer[c]) \in Nat
  BY DEF TypeOK, NetTypeOK, Send, serverVars
<1>2. Stored(c)' = Stored(c) /\ \A b : OnItsWay(c, b)' <=> OnItsWay(c, b)
  BY <1>1 DEF Stored, OnItsWay
<1>3. Numbers(c)' /\ AcksOK(c)'
  BY <1>1, <1>2 DEF Flow, Numbers, AcksOK
<1>4. CASE toServer'[c] = toServer[c]
  <2>1. QueueOK(c)'
    BY <1>2, <1>4 DEF Flow, QueueOK, OnItsWay, Stored
  <2>2. BufferOK(c)'
    BY <1>1, <1>2, <1>4 DEF Flow, BufferOK, OnItsWay, Stored
  <2> QED BY <1>3, <2>1, <2>2 DEF Flow
<1>5. CASE toServer'[c] = Append(toServer[c], f)
  <2>1. \A j \in 1 .. Len(toServer'[c]) :
          \/ j \in 1 .. Len(toServer[c]) /\ toServer'[c][j] = toServer[c][j]
          \/ j = Len(toServer[c]) + 1 /\ toServer'[c][j] = f
    BY <1>1, <1>5
  <2>2. \A j \in 1 .. Len(toServer'[c]) :
          IsBlock(toServer'[c][j]) =>
            /\ OnItsWay(c, toServer'[c][j].blk)
            /\ toServer'[c][j].blk.idx <= snd[c].next
    <3>1. \A j \in 1 .. Len(toServer[c]) :
            IsBlock(toServer[c][j]) => OnItsWay(c, toServer[c][j].blk)
      BY DEF Flow, QueueOK
    <3>2. IsBlock(f) => OnItsWay(c, f.blk)
      OBVIOUS
    <3>3. \A b : OnItsWay(c, b) => b.idx <= snd[c].next
      BY DEF OnItsWay
    <3> QED BY <2>1, <3>1, <3>2, <3>3
  <2>3. \A j \in 1 .. Len(toServer'[c]) :
          toServer'[c][j].mark = EOT => Stored(c) = Blocks[c]
    BY <2>1 DEF Flow, QueueOK
  <2>4. \A i, j \in 1 .. Len(toServer'[c]) :
          i <= j /\ IsBlock(toServer'[c][i]) /\ IsBlock(toServer'[c][j])
            => toServer'[c][i].blk.idx <= toServer'[c][j].blk.idx
    <3> SUFFICES ASSUME NEW i \in 1 .. Len(toServer'[c]),
                        NEW j \in 1 .. Len(toServer'[c]), i <= j,
                        IsBlock(toServer'[c][i]), IsBlock(toServer'[c][j])
                 PROVE  toServer'[c][i].blk.idx <= toServer'[c][j].blk.idx
      OBVIOUS
    <3>1. CASE j \in 1 .. Len(toServer[c])
      <4>1. i \in 1 .. Len(toServer[c])
        BY <3>1
      <4>2. toServer'[c][i] = toServer[c][i] /\ toServer'[c][j] = toServer[c][j]
        BY <1>1, <2>1, <3>1, <4>1
      <4> QED BY <3>1, <4>1, <4>2 DEF Flow, QueueOK
    <3>2. CASE j = Len(toServer[c]) + 1
      <4>1. toServer'[c][j] = f
        BY <1>1, <2>1, <3>2
      <4>2. toServer'[c][i].blk.idx <= snd[c].next
        BY <2>2
      <4> QED BY <4>1, <4>2
    <3> QED BY <2>1, <3>1, <3>2
  <2>5. QueueOK(c)'
    <3>1. \A j \in 1 .. Len(toServer'[c]) :
            IsBlock(toServer'[c][j]) => OnItsWay(c, toServer[c][j].blk)'
      BY <2>2 DEF OnItsWay, Stored, serverVars
    <3> QED BY <1>2, <2>3, <2>4, <3>1 DEF QueueOK, IsBlock
  <2>6. BufferOK(c)'
    <3> SUFFICES ASSUME cl[c].state = "check_block"
                 PROVE  BufferOK(c)'
      BY <1>1 DEF BufferOK
    <3>1. OnItsWay(c, cl[c].blk)
      BY DEF Flow, BufferOK
    <3>2. OnItsWay(c, cl[c].blk)' /\ cl[c].blk.idx <= snd[c].next
      BY <1>1, <1>2, <3>1 DEF OnItsWay
    <3>3. \A j \in 1 .. Len(toServer'[c]) :
            IsBlock(toServer'[c][j]) => cl[c].blk.idx <= toServer'[c][j].blk.idx
      <4>1. \A j \in 1 .. Len(toServer[c]) :
              IsBlock(toServer[c][j]) => cl[c].blk.idx <= toServer[c][j].blk.idx
        BY DEF Flow, BufferOK
      <4> QED BY <2>1, <3>2, <4>1
    <3> QED BY <1>1, <3>2, <3>3 DEF BufferOK, IsBlock
  <2> QED BY <1>3, <2>5, <2>6 DEF Flow
<1> QED BY <1>1, <1>4, <1>5

LEMMA SendBlockTransfer ==
  ASSUME FileInv, UNCHANGED serverVars, NEW c \in Clients, NEW m \in Marks,
         NEW d \in Damage, SendBlock(c, m, d)
  PROVE  Transfer(c)'
<1> DEFINE n == snd[c].next
           b == FileBlock(n, d)
<1>1. /\ n \in Nat /\ snd'[c].phase = "waitAck" /\ snd'[c].next = n
      /\ TypeOK /\ n <= Blocks[c]
      /\ UNCHANGED <<conn, backlog, toClient>>
      /\ Send(c, BlockFrame(m, b))
  BY DEF FileInv, SyncInv, ListInv, TypeOK, SenderTypeOK, Sender, SendBlock
<1>2. b \in Block
  BY <1>1, FileBlockType
<1>3. b.idx = n /\ b.num = n % (MaxByte + 1)
  BY DEF FileBlock
<1> HIDE DEF b
<1> DEFINE f == BlockFrame(m, b)
<1>4. f \in Frame /\ f.mark # EOT /\ f.blk = b
  BY <1>2, FrameType, SenderAssumption DEF BlockFrame, SOH, STX, EOT
<1> HIDE DEF f
<1>5. Send(c, f)
  BY <1>1 DEF f
<1>6. Flow(c) => Flow(c)'
  <2> SUFFICES ASSUME Flow(c) PROVE Flow(c)'
    OBVIOUS
  <2>1. Stored(c) <= n
    BY DEF Flow, Numbers
  <2>2. OnItsWay(c, f.blk) /\ f.blk.idx = snd[c].next
    BY <1>1, <1>3, <1>4, <2>1 DEF OnItsWay
  <2> QED BY <1>1, <1>4, <1>5, <2>2, SendKeepsFlow
<1> QED BY <1>1, <1>6, ClientStepTransfer

LEMMA SendEotTransfer ==
  ASSUME FileInv, UNCHANGED serverVars, NEW c \in Clients, SendEot(c)
  PROVE  Transfer(c)'
<1>1. /\ snd[c].next \in Nat /\ snd'[c].phase = "waitEot"
      /\ snd'[c].next = snd[c].next /\ snd[c].next > Blocks[c]
      /\ TypeOK /\ file[c] \in FileState
      /\ UNCHANGED <<conn, backlog, toClient>>
      /\ Send(c, EotFrame)
  BY DEF FileInv, SyncInv, ListInv, TypeOK, SenderTypeOK, ServerTypeOK, Sender,
         SendEot
<1>2. EotFrame \in Frame /\ ~ IsBlock(EotFrame)
  BY FrameType DEF EotFrame, IsBlock, EOT, SOH, STX
<1>3. Flow(c) => Flow(c)'
  <2> SUFFICES ASSUME Flow(c) PROVE Flow(c)'
    OBVIOUS
  <2>1. Stored(c) \in Nat /\ Blocks[c] \in Nat
    BY <1>1, NetAssumption DEF Stored, FileState
  <2>2. Stored(c) = Blocks[c]
    BY <1>1, <2>1 DEF Flow, Numbers
  <2> QED BY <1>1, <1>2, <2>2, SendKeepsFlow
<1> QED BY <1>1, <1>3, ClientStepTransfer

\* A reply is read; an ACK moves the client on, to at most one past the stored.
LEMMA ReceiveTransfer ==
  ASSUME FileInv, UNCHANGED serverVars, NEW c \in Clients,
         ReceiveC(c) \/ ReceiveAck(c) \/ ReceiveNak(c) \/ ReceiveDone(c)
  PROVE  Transfer(c)'
<1>1. /\ TypeOK /\ toClient[c] \in Seq(Reply) /\ toClient[c] # << >>
      /\ toClient'[c] = Tail(toClient[c])
      /\ UNCHANGED <<backlog, toServer, cl, file>>
      /\ snd'[c].phase \in {"send", "done"}
      /\ conn[c] = "closed" => conn'[c] = "closed"
      /\ snd[c].next \in Nat
  BY DEF FileInv, SyncInv, ListInv, TypeOK, NetTypeOK, SenderTypeOK, Sender,
         ReceiveC, ReceiveAck, ReceiveNak, ReceiveDone, Receive, serverVars
<1>2. \/ snd'[c].next = snd[c].next
      \/ toClient[c][1].byte = "ACK" /\ snd'[c].next = snd[c].next + 1
  <2>1. Head(toClient[c]) = toClient[c][1]
    BY <1>1
  <2>2. snd \in [Clients -> Sender]
    BY <1>1 DEF TypeOK, SenderTypeOK
  <2> QED BY <2>1, <2>2 DEF ReceiveC, ReceiveAck, ReceiveNak, ReceiveDone, Sender
<1>3. Flow(c) => Flow(c)'
  <2> SUFFICES ASSUME Flow(c) PROVE Flow(c)'
    OBVIOUS
  <2>1. AcksOK(c)'
    BY <1>1, <1>2, AcksTail DEF Flow
  <2>2. Stored(c)' = Stored(c) /\ Stored(c) \in Nat
    BY <1>1 DEF Stored, TypeOK, ServerTypeOK, FileState
  <2>3. snd[c].next <= snd'[c].next /\ snd'[c].next <= Stored(c) + 1
    <3>1. CASE snd'[c].next = snd[c].next
      BY <1>1, <3>1 DEF Flow, Numbers
    <3>2. CASE toClient[c][1].byte = "ACK" /\ snd'[c].next = snd[c].next + 1
      <4>1. 1 \in 1 .. Len(toClient[c]) /\ toClient[c][1] \in Reply
        BY <1>1
      <4>2. /\ snd[c].next <= toClient[c][1].of
            /\ toClient[c][1].of <= Stored(c)
            /\ toClient[c][1].of \in Nat
        BY <3>2, <4>1 DEF Flow, AcksOK, Reply
      <4> QED BY <1>1, <2>2, <3>2, <4>2
    <3> QED BY <1>2, <3>1, <3>2
  <2>4. snd'[c].next \in Nat
    BY <1>1, <1>2
  <2>5. Numbers(c)'
    <3>1. Stored(c) <= snd'[c].next
      BY <1>1, <2>2, <2>3, <2>4 DEF Flow, Numbers
    <3> QED BY <1>1, <2>2, <2>3, <3>1 DEF Flow, Numbers
  <2>6. ASSUME NEW b \in Block, OnItsWay(c, b) PROVE OnItsWay(c, b)'
    <3>1. b.idx \in Nat
      BY DEF Block
    <3> QED BY <1>1, <2>2, <2>3, <2>4, <2>6, <3>1 DEF OnItsWay
  <2>7. QueueOK(c)'
    <3>1. \A j \in 1 .. Len(toServer[c]) : toServer[c][j].blk \in Block
      <4>1. \A j \in 1 .. Len(toServer[c]) : toServer[c][j] \in Frame
        BY <1>1 DEF TypeOK, NetTypeOK
      <4> QED BY <4>1 DEF Frame
    <3>2. \A j \in 1 .. Len(toServer[c]) : IsBlock(toServer[c][j]) =>
            OnItsWay(c, toServer[c][j].blk)'
      <4> SUFFICES ASSUME NEW j \in 1 .. Len(toServer[c]), IsBlock(toServer[c][j])
                   PROVE  OnItsWay(c, toServer[c][j].blk)'
        OBVIOUS
      <4>1. PICK b \in Block : b = toServer[c][j].blk
        BY <3>1
      <4>2. OnItsWay(c, b)
        BY <4>1 DEF Flow, QueueOK
      <4>3. OnItsWay(c, b)'
        BY <2>6, <4>2
      <4> QED BY <1>1, <4>1, <4>3 DEF OnItsWay
    <3> QED BY <1>1, <2>2, <3>2 DEF Flow, QueueOK, IsBlock
  <2>8. BufferOK(c)'
    <3> SUFFICES ASSUME cl[c].state = "check_block" PROVE BufferOK(c)'
      BY <1>1 DEF BufferOK
    <3>1. PICK b \in Block : b = cl[c].blk
      BY <1>1 DEF TypeOK, ServerTypeOK, Struct
    <3>2. OnItsWay(c, b)
      BY <3>1 DEF Flow, BufferOK
    <3>3. OnItsWay(c, b)'
      BY <2>6, <3>2
    <3>4. OnItsWay(c, cl[c].blk)'
      BY <1>1, <3>1, <3>3 DEF OnItsWay
    <3> QED BY <1>1, <3>4 DEF Flow, BufferOK, IsBlock
  <2> QED BY <2>1, <2>5, <2>7, <2>8 DEF Flow
<1> QED BY <1>1, <1>2, <1>3, ClientStepTransfer

\* A client that connects, or names its file, has transferred nothing.
LEMMA HelloTransfer ==
  ASSUME FileInv, TypeOK', UNCHANGED serverVars, NEW c \in Clients,
         Connect(c) \/ SendName(c)
  PROVE  Transfer(c)'
<1>1. /\ Transfer(c) /\ Framing(c) /\ TypeOK
      /\ UNCHANGED <<cl, file, finished>>
      /\ snd'[c].next = snd[c].next /\ snd'[c].phase # "idle"
  BY DEF FileInv, SyncInv, ListInv, TypeOK, SenderTypeOK, Sender, serverVars,
         Connect, SendName
<1>2. Untransferred(c)' <=> Untransferred(c)
  BY <1>1 DEF Untransferred, Stored
<1>3. cl[c].state \notin Opened
  <2>1. CASE Connect(c)
    BY <2>1 DEF FileInv, SyncInv, ListInv, BacklogFresh, Connect, Opened
  <2>2. CASE SendName(c)
    BY <1>1, <2>2 DEF SendName, Framing, Framed
  <2> QED BY <2>1, <2>2
<1>4. \A i \in 1 .. Len(backlog') : backlog'[i] = c => Untransferred(c)
  <2>1. \A i \in 1 .. Len(backlog') :
          \/ i \in 1 .. Len(backlog) /\ backlog'[i] = backlog[i]
          \/ backlog'[i] = c /\ Connect(c)
    BY <1>1, BacklogGrows DEF Progress
  <2>2. Connect(c) => Untransferred(c)
    BY <1>1 DEF Connect, Transfer
  <2> QED BY <1>1, <2>1, <2>2 DEF Transfer
<1>5. Stored(c)' = Stored(c)
  BY <1>1 DEF Stored
<1>6. c \in finished => cl[c].state \in {"free", "finished"} /\ AllStored(c)'
  <2>1. CASE Connect(c)
    BY <1>1, <2>1 DEF Connect, Transfer, Untransferred
  <2>2. CASE SendName(c)
    BY <1>1, <1>5, <2>2 DEF SendName, Transfer, AllStored
  <2> QED BY <2>1, <2>2
<1> QED BY <1>1, <1>2, <1>3, <1>4, <1>5, <1>6 DEF Transfer, Opened

\* A client that goes away: its frames stay, the last one perhaps cut.
LEMMA DisconnectTransfer ==
  ASSUME FileInv, UNCHANGED serverVars, NEW c \in Clients, Disconnect(c)
  PROVE  Transfer(c)'
<1>1. /\ TypeOK /\ toServer[c] \in Seq(Frame) /\ conn'[c] = "closed"
      /\ snd'[c].phase = "gone" /\ snd'[c].next = snd[c].next
      /\ UNCHANGED <<backlog, toClient, cl, file>>
  BY DEF FileInv, SyncInv, ListInv, TypeOK, NetTypeOK, SenderTypeOK, Sender,
         Disconnect, serverVars
<1>2. \A j \in 1 .. Len(toServer'[c]) :
        /\ j + 0 \in 1 .. Len(toServer[c])
        /\ toServer'[c][j].mark = toServer[c][j + 0].mark
        /\ toServer'[c][j].blk = toServer[c][j + 0].blk
  <2>1. CASE UNCHANGED toServer
    <3>1. \A j \in 1 .. Len(toServer[c]) : j + 0 = j
      BY <1>1
    <3> QED BY <2>1, <3>1
  <2>2. ASSUME NEW k \in 1 .. toServer[c][Len(toServer[c])].left - 1,
               toServer[c] # << >>,
               toServer' = [toServer EXCEPT ![c] = CutShort(@, k)]
        PROVE  \A j \in 1 .. Len(toServer'[c]) :
                 /\ j + 0 \in 1 .. Len(toServer[c])
                 /\ toServer'[c][j].mark = toServer[c][j + 0].mark
                 /\ toServer'[c][j].blk = toServer[c][j + 0].blk
    <3> DEFINE z == Len(toServer[c])
               f == [toServer[c][z] EXCEPT !.left = k]
    <3>1. z \in Nat \ {0} /\ z \in 1 .. z /\ toServer[c][z] \in Frame
      BY <1>1, <2>2, EmptySeq
    <3>2. f.mark = toServer[c][z].mark /\ f.blk = toServer[c][z].blk
      BY <3>1 DEF Frame
    <3>3. toServer'[c] = [toServer[c] EXCEPT ![z] = f]
      BY <1>1, <2>2 DEF CutShort, TypeOK, NetTypeOK
    <3> HIDE DEF f
    <3>4. /\ Len(toServer'[c]) = z /\ toServer'[c][z] = f
          /\ \A j \in 1 .. z : j # z => toServer'[c][j] = toServer[c][j]
      BY <1>1, <3>1, <3>3
    <3>5. \A j \in 1 .. z : j + 0 = j
      BY <3>1
    <3> QED BY <3>2, <3>4, <3>5
  <2> QED BY <2>1, <2>2 DEF Disconnect
<1>3. Flow(c) => Flow(c)'
  <2> SUFFICES ASSUME Flow(c) PROVE Flow(c)'
    OBVIOUS
  <2>1. QueueOK(c)'
    <3>1. file'[c].data = file[c].data /\ 0 \in {0, 1}
      BY <1>1
    <3> QED BY <1>1, <1>2, <3>1, ShiftQueue DEF Flow
  <2>2. BufferOK(c)'
    <3>1. \A j \in 1 .. Len(toServer'[c]) :
            /\ j \in 1 .. Len(toServer[c])
            /\ toServer'[c][j].mark = toServer[c][j].mark
            /\ toServer'[c][j].blk = toServer[c][j].blk
      <4>1. \A j \in 1 .. Len(toServer'[c]) : j + 0 = j
        BY <1>2
      <4> QED BY <1>2, <4>1
    <3> QED BY <1>1, <3>1 DEF Flow, BufferOK, OnItsWay, Stored, IsBlock
  <2>3. AcksOK(c)' /\ Numbers(c)'
    BY <1>1 DEF Flow, AcksOK, Numbers, Stored
  <2> QED BY <2>1, <2>2, <2>3 DEF Flow
<1> QED BY <1>1, <1>3, ClientStepTransfer

LEMMA ClientTransfer ==
  ASSUME FileInv, TypeOK', UNCHANGED serverVars, NEW c \in Clients,
         Progress(c) \/ NoticeEnd(c, server = "running") \/ Fault(c)
  PROVE  Transfer(c)'
<1>1. CASE Connect(c) \/ SendName(c)
  BY <1>1, HelloTransfer
<1>2. ASSUME NEW m \in Marks, NEW d \in Damage, SendBlock(c, m, d)
      PROVE  Transfer(c)'
  BY <1>2, SendBlockTransfer
<1>3. CASE SendEot(c)
  BY <1>3, SendEotTransfer
<1>4. CASE ReceiveC(c) \/ ReceiveAck(c) \/ ReceiveNak(c) \/ ReceiveDone(c)
  BY <1>4, ReceiveTransfer
<1>5. CASE Timeout(c) \/ NoticeEnd(c, server = "running")
  <2>1. /\ UNCHANGED <<netVars, cl, file>> /\ snd'[c].next = snd[c].next
        /\ snd'[c].phase # "idle"
    BY <1>5 DEF Timeout, NoticeEnd, FileInv, SyncInv, ListInv, TypeOK,
                SenderTypeOK, Sender, serverVars
  <2>2. Flow(c) => Flow(c)'
    BY <2>1 DEF Flow, Numbers, QueueOK, AcksOK, BufferOK, OnItsWay, Stored,
                netVars
  <2> QED BY <2>1, <2>2, ClientStepTransfer DEF netVars
<1>6. CASE Disconnect(c)
  BY <1>6, DisconnectTransfer
<1> QED BY <1>1, <1>2, <1>3, <1>4, <1>5, <1>6 DEF Progress, Fault

----------------------------------------------------------------------------

LEMMA InitFileInv == Init => FileInv
<1> SUFFICES ASSUME Init PROVE FileInv
  OBVIOUS
<1>1. ASSUME NEW c \in Clients PROVE Transfer(c)
  BY DEF Init, NetInit, ServerInit, SenderInit, FreeStruct, Transfer,
         Untransferred, Stored, Opened
<1> QED BY <1>1, InitSyncInv DEF FileInv

LEMMA FileInvPreserved == FileInv /\ [Next]_vars => FileInv'
<1> SUFFICES ASSUME FileInv, [Next]_vars PROVE FileInv'
  OBVIOUS
<1>0. /\ SyncInv /\ SyncInv' /\ TypeOK /\ TypeOK'
      /\ \A d \in Clients : Transfer(d)
  BY SyncInvPreserved DEF FileInv, SyncInv, ListInv
<1> SUFFICES ASSUME NEW d \in Clients PROVE Transfer(d)'
  BY <1>0 DEF FileInv
<1>1. ASSUME UNCHANGED <<cl, file, finished, snd, netVars>>
      PROVE  Transfer(d)'
  BY <1>0, <1>1, OtherTransfer DEF netVars, Transfer
<1>2. CASE ServerActs
  <2>1. CASE Accept
    BY <1>0, <1>2, <2>1, AcceptTransfer DEF ServerActs
  <2>2. CASE Poll \/ EndScan
    BY <1>1, <1>2, <2>2 DEF Poll, EndScan, ServerActs
  <2>3. ASSUME NEW c \in Clients, Serve(c)
        PROVE  Transfer(d)'
    <3>1. CASE c = d
      BY <1>0, <1>2, <2>3, <3>1, ServeTransfer DEF ServerActs
    <3>2. CASE c # d
      BY <1>0, <1>2, <2>3, <3>2, ServeLocal, OtherTransfer DEF ServerActs, Transfer
    <3> QED BY <3>1, <3>2
  <2> QED BY <1>2, <2>1, <2>2, <2>3 DEF ServerActs, ServerStep
<1>3. ASSUME NEW c \in Clients, ClientActs(c) \/ FaultHappens(c)
      PROVE  Transfer(d)'
  <2>1. /\ Progress(c) \/ NoticeEnd(c, server = "running") \/ Fault(c)
        /\ UNCHANGED serverVars
    BY <1>3 DEF ClientActs, FaultHappens
  <2>2. CASE c = d
    BY <1>0, <2>1, <2>2, ClientTransfer
  <2>3. CASE c # d
    <3>1. \A i \in 1 .. Len(backlog') : backlog'[i] = d => Untransferred(d)
      BY <1>0, <2>1, <2>3, BacklogGrows DEF Transfer
    <3>2. UNCHANGED <<cl, file, finished>>
      BY <2>1 DEF serverVars
    <3> QED BY <1>0, <2>1, <2>3, <3>1, <3>2, ClientLocal, OtherTransfer
  <2> QED BY <2>2, <2>3
<1>4. CASE UNCHANGED vars
  BY <1>1, <1>4 DEF vars, serverVars
<1> QED BY <1>2, <1>3, <1>4 DEF Next

LEMMA FileInvImplies == FileInv => FileIsPrefix /\ FinishedOrGone
<1> SUFFICES ASSUME FileInv PROVE FileIsPrefix /\ FinishedOrGone
  OBVIOUS
<1>1. /\ \A c \in Clients : Transfer(c)
      /\ file \in [Clients -> FileState] /\ finished \subseteq Clients
  BY DEF FileInv, SyncInv, ListInv, TypeOK, ServerTypeOK
<1>2. \A c \in Clients : DOMAIN file[c].data = 1 .. Stored(c)
  BY <1>1 DEF FileState, Stored
<1>3. FileIsPrefix
  BY <1>1, <1>2 DEF FileIsPrefix, Transfer
<1>4. FinishedOrGone
  BY <1>1 DEF FinishedOrGone, Transfer, AllStored, Stored
<1> QED BY <1>3, <1>4

\* However blocks are damaged, sent again or cut off, and however often their
\* numbers wrap, each file holds the blocks of its client once each and in their
\* order (xmodemserver.c:207-276).
THEOREM FileCorrect == Spec => []FileIsPrefix
BY InitFileInv, FileInvPreserved, FileInvImplies, PTL DEF Spec

\* "File Transfer Finished" means the whole file, of every client that did not
\* go away itself (xmodemserver.c:278-284).
THEOREM FinishedCorrect == Spec => []FinishedOrGone
BY InitFileInv, FileInvPreserved, FileInvImplies, PTL DEF Spec

-----------------------------------------------------------------------------
(* How transfers end, when nobody goes away before the server has answered: *)
(* the server implements Upload, whatever timers expire and however files   *)
(* open, and also when it goes down half way.                               *)

NobodyLeaves == "disconnect" \notin Faults

NoAck(c) == \A j \in 1 .. Len(toClient[c]) : toClient[c][j].byte # "ACK"

\* EOT is sent after the last block.
EotLast(c) ==
  /\ snd[c].phase = "waitEot" => snd[c].next > Blocks[c]
  /\ \A j \in 1 .. Len(toServer[c]) : toServer[c][j].mark = EOT => snd[c].next > Blocks[c]

\* The server and a client it serves: only the ACKs of a buffer that it answers
\* again and again can lead the client to the end of its transfer before that.
Connected(c) ==
  /\ c \notin finished
  /\ conn[c] = "open" \/ (conn[c] = "closed" /\ Wedged(c))
  /\ cl[c].state = "finished" => NoAck(c)

Ending(c) ==
  /\ snd[c].phase = "idle" => conn[c] = "none"
  /\ \A i \in 1 .. Len(backlog) : backlog[i] = c => conn[c] = "open"
  /\ EotLast(c)
  /\ server = "running" /\ cl[c].state # "free" => Connected(c)

EndInv == FileInv /\ \A c \in Clients : Ending(c)

LEMMA EndFacts ==
  ASSUME EndInv, NEW c \in Clients
  PROVE  /\ TypeOK /\ SyncInv /\ FileInv /\ Ending(c) /\ Framing(c) /\ Transfer(c)
         /\ cl \in [Clients -> Struct] /\ cl[c] \in Struct
         /\ snd \in [Clients -> Sender] /\ snd[c] \in Sender /\ snd[c].next \in Nat \ {0}
         /\ toServer \in [Clients -> Seq(Frame)] /\ toServer[c] \in Seq(Frame)
         /\ toClient \in [Clients -> Seq(Reply)] /\ toClient[c] \in Seq(Reply)
         /\ conn \in [Clients -> ConnStates]
         /\ file \in [Clients -> FileState] /\ file[c].data \in Seq(Nat)
         /\ Stored(c) \in Nat /\ Blocks[c] \in Nat
<1>1. TypeOK /\ SyncInv /\ FileInv /\ Ending(c) /\ Framing(c) /\ Transfer(c)
  BY DEF EndInv, FileInv, SyncInv, ListInv
<1>2. /\ cl \in [Clients -> Struct] /\ snd \in [Clients -> Sender]
      /\ toServer \in [Clients -> Seq(Frame)] /\ toClient \in [Clients -> Seq(Reply)]
      /\ conn \in [Clients -> ConnStates] /\ file \in [Clients -> FileState]
  BY <1>1 DEF TypeOK, ServerTypeOK, NetTypeOK, SenderTypeOK
<1>3. snd[c].next \in Nat \ {0} /\ file[c].data \in Seq(Nat) /\ Stored(c) \in Nat
  BY <1>2 DEF Sender, FileState, Stored
<1> QED BY <1>1, <1>2, <1>3, NetAssumption

LEMMA ServedRunning ==
  ASSUME NEW c \in Clients, Serve(c)
  PROVE  server = "running"
BY DEF Serve, SkipClient, VisitClient, ReadPartOfName, OpenFile, NoDirectory, StartBlock,
       EndOfTransmission, NakMark, GetBlock, DropClient, AcceptBlock, NakBlock,
       RepeatBlock, StoreFails, NullFile, Finish, ReadError, At

\* Nothing of what Ending says of d has changed.
LEMMA OtherEnding ==
  ASSUME NEW d \in Clients, Ending(d), server' = "running" => server = "running",
         cl'[d] = cl[d], snd'[d] = snd[d], conn'[d] = conn[d],
         toServer'[d] = toServer[d], toClient'[d] = toClient[d],
         d \in finished' <=> d \in finished,
         \A i \in 1 .. Len(backlog') : backlog'[i] = d => conn[d] = "open"
  PROVE  Ending(d)'
BY DEF Ending, EotLast, Connected, NoAck, Wedged, BadNumber

\* What a step that serves c has to show of it.
LEMMA ServedEnding ==
  ASSUME EndInv, NEW c \in Allocated, UNCHANGED <<snd, backlog>>, NEW o \in {0, 1},
         \A j \in 1 .. Len(toServer'[c]) :
             /\ j + o \in 1 .. Len(toServer[c])
             /\ toServer'[c][j].mark = toServer[c][j + o].mark,
         server' = "running" /\ cl'[c].state # "free" => Connected(c)'
  PROVE  Ending(c)'
<1>1. snd[c].phase # "idle" /\ \A i \in 1 .. Len(backlog) : backlog[i] # c
  BY AllocatedNotFresh DEF EndInv, FileInv, SyncInv
<1>2. Ending(c)
  BY DEF EndInv, Allocated
<1>3. EotLast(c)'
  BY <1>2 DEF Ending, EotLast
<1> QED BY <1>1, <1>3 DEF Ending

\* A read, with or without an answer, before a block is complete.
LEMMA ReadEnding ==
  ASSUME EndInv, UNCHANGED snd, NEW c \in Allocated, server = "running", pc = cl[c].state,
         \/ ReadPartOfName(c) \/ OpenFile(c) \/ StartBlock(c) \/ NakMark(c) \/ GetBlock(c)
  PROVE  Ending(c)'
<1>1. /\ TypeOK /\ Ending(c) /\ Transfer(c) /\ c \in Clients
      /\ cl \in [Clients -> Struct] /\ cl[c] \in Struct
      /\ toServer \in [Clients -> Seq(Frame)]
  BY EndFacts DEF Allocated
<1>2. /\ UNCHANGED <<conn, finished, backlog>>
      /\ cl[c].state \in {"initial", "pre_block", "get_block"}
      /\ Connected(c)
  BY <1>1 DEF ReadPartOfName, OpenFile, StartBlock, NakMark, GetBlock, At, Ending, Allocated
<1>3. conn[c] = "open" /\ c \notin finished
  BY <1>2 DEF Connected, Wedged
<1>4. \E size \in Int : \E n \in ReadCounts(c, size) : toServer'[c] = AfterRead(toServer[c], n)
  <2>1. NameCap - cl[c].inbuf \in Int /\ cl[c].blocksize - cl[c].inbuf \in Int /\ 1 \in Int
    BY <1>1, NetAssumption DEF Struct
  <2> QED BY <1>1, <2>1 DEF ReadPartOfName, OpenFile, StartBlock, NakMark, GetBlock
<1>5. \E o \in {0, 1} :
        \A j \in 1 .. Len(toServer'[c]) :
          /\ j + o \in 1 .. Len(toServer[c])
          /\ toServer'[c][j].mark = toServer[c][j + o].mark
  <2>1. PICK size \in Int : \E n \in ReadCounts(c, size) :
          toServer'[c] = AfterRead(toServer[c], n)
    BY <1>4
  <2> QED BY <1>1, <2>1, ReadShifts
<1>6. cl'[c].state # "finished"
  <2>1. CASE ReadPartOfName(c) \/ NakMark(c)
    BY ZenonT(40), <1>1, <1>2, <2>1 DEF ReadPartOfName, NakMark, Struct
  <2>2. CASE OpenFile(c)
    <3>1. PICK r : cl' = [cl EXCEPT ![c].state = "pre_block", ![c].inbuf = 0,
                                    ![c].current_block = 1, ![c].fp = r]
      BY <2>2 DEF OpenFile
    <3> QED BY <1>1, <3>1 DEF Struct
  <2>3. CASE StartBlock(c)
    <3>1. PICK x, y : cl' = [cl EXCEPT ![c].state = "get_block", ![c].buf0 = x,
                                       ![c].blocksize = y]
      BY <2>3 DEF StartBlock
    <3> QED BY <1>1, <3>1 DEF Struct
  <2>4. CASE GetBlock(c)
    <3>1. PICK n \in ReadCounts(c, cl[c].blocksize - cl[c].inbuf) :
            LET full == cl[c].inbuf + n = cl[c].blocksize
                blk  == IF n = 0 THEN cl[c].blk ELSE Head(toServer[c]).blk IN
            cl' = [cl EXCEPT ![c].inbuf = @ + n,
                             ![c].blk = blk,
                             ![c].buf0 = IF n = 0 THEN @ ELSE blk.num,
                             ![c].state = IF full THEN "check_block" ELSE @]
      BY <2>4 DEF GetBlock
    <3> DEFINE full == cl[c].inbuf + n = cl[c].blocksize
               blk == IF n = 0 THEN cl[c].blk ELSE Head(toServer[c]).blk
    <3>2. cl'[c] = [cl[c] EXCEPT !.inbuf = @ + n, !.blk = blk,
                                 !.buf0 = IF n = 0 THEN @ ELSE blk.num,
                                 !.state = IF full THEN "check_block" ELSE @]
      BY <1>1, <3>1
    <3> HIDE DEF full, blk
    <3> QED BY <1>1, <1>2, <3>2 DEF Struct
  <2> QED BY <2>1, <2>2, <2>3, <2>4
<1>7. Connected(c)'
  BY <1>2, <1>3, <1>6 DEF Connected
<1> QED BY <1>2, <1>5, <1>7, ServedEnding

\* EOT: no ACK of a block is left to read.
LEMMA EotEnding ==
  ASSUME EndInv, UNCHANGED snd, NEW c \in Allocated, server = "running",
         cl[c].state = "pre_block", EndOfTransmission(c)
  PROVE  Ending(c)'
<1>1. /\ TypeOK /\ Ending(c) /\ Transfer(c) /\ Framing(c) /\ c \in Clients
      /\ cl \in [Clients -> Struct] /\ cl[c] \in Struct
      /\ toServer \in [Clients -> Seq(Frame)] /\ toServer[c] \in Seq(Frame)
      /\ toClient[c] \in Seq(Reply) /\ snd[c].next \in Nat \ {0}
      /\ Stored(c) \in Nat /\ Blocks[c] \in Nat
  BY EndFacts DEF Allocated
<1>2. PICK n \in ReadCounts(c, 1) :
        /\ ReadMark(c, n) = EOT
        /\ toServer' = [toServer EXCEPT ![c] = AfterRead(@, n)]
  BY DEF EndOfTransmission
<1>3. UNCHANGED <<conn, finished, backlog, toClient>> /\ toServer'[c] = AfterRead(toServer[c], n)
  BY <1>1, <1>2 DEF EndOfTransmission
<1>4. Connected(c) /\ conn[c] = "open" /\ Flow(c)
  BY <1>1 DEF Ending, Connected, Wedged, Transfer, Opened
<1>5. toServer[c] # << >> /\ toServer[c][1].mark = EOT
  <2>1. 1 \in Int
    OBVIOUS
  <2>2. n # 0
    BY <1>1, <1>4, <2>1, ReadResult
  <2>3. toServer[c] # << >> /\ Head(toServer[c]) = toServer[c][1]
    BY <1>1, <2>1, <2>2, ReadResult
  <2> QED BY <1>2, <2>2, <2>3 DEF ReadMark
<1>6. snd[c].next > Blocks[c]
  <2>1. 1 \in 1 .. Len(toServer[c])
    BY <1>1, <1>5
  <2> QED BY <1>1, <1>5, <2>1 DEF Ending, EotLast
<1>7. NoAck(c)
  <2> SUFFICES ASSUME NEW j \in 1 .. Len(toClient[c]), toClient[c][j].byte = "ACK"
               PROVE  FALSE
    BY DEF NoAck
  <2>1. /\ snd[c].next <= toClient[c][j].of /\ toClient[c][j].of <= Stored(c)
        /\ Stored(c) <= Blocks[c]
    BY <1>4 DEF Flow, AcksOK, Numbers
  <2>2. toClient[c][j] \in Reply
    BY <1>1
  <2>3. toClient[c][j].of \in Nat
    BY <2>2 DEF Reply
  <2> QED BY <1>1, <1>6, <2>1, <2>3
<1>8. Connected(c)'
  BY <1>3, <1>4, <1>7 DEF Connected, NoAck
<1>9. \E o \in {0, 1} :
        \A j \in 1 .. Len(toServer'[c]) :
          /\ j + o \in 1 .. Len(toServer[c])
          /\ toServer'[c][j].mark = toServer[c][j + o].mark
  <2>1. 1 \in Int
    OBVIOUS
  <2> QED BY <1>1, <1>3, <2>1, ReadShifts
<1> QED BY <1>3, <1>8, <1>9, ServedEnding

\* The answers to a complete block, and to EOT.
LEMMA AnswerEnding ==
  ASSUME EndInv, UNCHANGED snd, NEW c \in Allocated, server = "running", pc = cl[c].state,
         \/ DropClient(c) \/ AcceptBlock(c) \/ NakBlock(c) \/ RepeatBlock(c) \/ Finish(c)
  PROVE  Ending(c)'
<1>1. /\ TypeOK /\ Ending(c) /\ c \in Clients /\ Connected(c)
      /\ cl \in [Clients -> Struct] /\ cl[c] \in Struct
      /\ toServer \in [Clients -> Seq(Frame)] /\ toServer[c] \in Seq(Frame)
  BY EndFacts DEF Allocated, Ending
<1>2. backlog' = backlog
  BY DEF DropClient, AcceptBlock, NakBlock, RepeatBlock, Finish
<1>3. \A j \in 1 .. Len(toServer'[c]) :
        /\ j + 0 \in 1 .. Len(toServer[c])
        /\ toServer'[c][j].mark = toServer[c][j + 0].mark
  <2>1. toServer'[c] = toServer[c] \/ toServer'[c] = << >>
    BY <1>1 DEF DropClient, AcceptBlock, NakBlock, RepeatBlock, Finish, Drop
  <2>2. \A j \in 1 .. Len(toServer[c]) : j + 0 = j
    BY <1>1
  <2>3. toServer'[c] = << >> => \A j \in 1 .. Len(toServer'[c]) : FALSE
    OBVIOUS
  <2> QED BY <2>1, <2>2, <2>3
<1>4. server' = "running" /\ cl'[c].state # "free" => Connected(c)'
  <2>1. CASE DropClient(c) \/ Finish(c)
    <3>1. cl'[c] = FreeStruct \/ server' # "running"
      BY <1>1, <2>1 DEF DropClient, Finish, Drop
    <3> QED BY <3>1 DEF FreeStruct
  <2>2. CASE AcceptBlock(c) \/ NakBlock(c)
    <3>1. /\ cl'[c].state = "pre_block" /\ UNCHANGED <<conn, finished>>
          /\ ~ Wedged(c)
      <4>1. cl'[c].state = "pre_block"
        BY <1>1, <2>2 DEF AcceptBlock, NakBlock, Struct
      <4>2. cl[c].current_block \in Int
        BY <1>1 DEF Struct, Bytes
      <4> QED BY <2>2, <4>1, <4>2 DEF AcceptBlock, NakBlock, IsExpected, Wedged
    <3> QED BY <1>1, <3>1 DEF Connected
  <2>3. CASE RepeatBlock(c)
    <3>1. UNCHANGED <<cl, conn, finished>> /\ cl[c].state = "check_block"
      BY <2>3 DEF RepeatBlock, At
    <3> QED BY <1>1, <3>1 DEF Connected, Wedged, BadNumber
  <2> QED BY <2>1, <2>2, <2>3
<1>5. 0 \in {0, 1}
  OBVIOUS
<1> QED BY <1>2, <1>3, <1>4, <1>5, ServedEnding

\* The server serves c.
LEMMA ServeEnding ==
  ASSUME EndInv, UNCHANGED snd, NEW c \in Clients, Serve(c)
  PROVE  Ending(c)'
<1>0. /\ Ending(c) /\ TypeOK /\ backlog' = backlog /\ server = "running"
      /\ pc \notin {"select", "scan"} /\ cursor = c => c \in Allocated /\ cl[c].state = pc
  <2>1. server = "running"
    BY ServedRunning
  <2>2. TypeOK /\ Ending(c) /\ ListInv
    BY EndFacts DEF SyncInv
  <2>3. backlog' = backlog
    BY <2>2, ServeLocal
  <2> QED BY <2>1, <2>2, <2>3 DEF ListInv, CursorLive
<1>1. CASE \/ SkipClient(c) \/ VisitClient(c) \/ NoDirectory(c) \/ StoreFails(c)
           \/ NullFile(c) \/ ReadError(c)
  <2>1. UNCHANGED <<cl, conn, toServer, toClient, backlog, finished>>
    BY <1>1 DEF SkipClient, VisitClient, NoDirectory, StoreFails, NullFile, ReadError, netVars
  <2>2. \A i \in 1 .. Len(backlog) : backlog[i] = c => conn[c] = "open"
    BY <1>0 DEF Ending
  <2> QED BY <1>0, <2>1, <2>2, OtherEnding
<1>2. CASE ReadPartOfName(c) \/ OpenFile(c) \/ StartBlock(c) \/ NakMark(c) \/ GetBlock(c)
  <2>1. cursor = c /\ pc \notin {"select", "scan"}
    BY <1>2 DEF ReadPartOfName, OpenFile, StartBlock, NakMark, GetBlock, At
  <2> QED BY <1>0, <1>2, <2>1, ReadEnding
<1>3. CASE EndOfTransmission(c)
  <2>1. cursor = c /\ pc = "pre_block"
    BY <1>3 DEF EndOfTransmission, At
  <2> QED BY <1>0, <1>3, <2>1, EotEnding
<1>4. CASE DropClient(c) \/ AcceptBlock(c) \/ NakBlock(c) \/ RepeatBlock(c) \/ Finish(c)
  <2>1. cursor = c /\ pc \notin {"select", "scan"}
    BY <1>4 DEF DropClient, AcceptBlock, NakBlock, RepeatBlock, Finish, At
  <2> QED BY <1>0, <1>4, <2>1, AnswerEnding
<1> QED BY <1>1, <1>2, <1>3, <1>4 DEF Serve

\* Accept: the client is there, and has been promised nothing.
LEMMA AcceptEnding ==
  ASSUME EndInv, UNCHANGED snd, Accept, NEW d \in Clients
  PROVE  Ending(d)'
<1> DEFINE c == Head(backlog)
<1>1. /\ backlog \in Seq(Clients) /\ backlog # << >> /\ c = backlog[1]
      /\ 1 \in 1 .. Len(backlog) /\ c \in Clients /\ cl \in [Clients -> Struct]
  BY HeadTailProperties DEF Accept, EndInv, FileInv, SyncInv, ListInv, TypeOK, NetTypeOK,
     ServerTypeOK
<1>2. /\ UNCHANGED <<conn, toServer, toClient, finished, server>>
      /\ cl'[c].state = "initial"
      /\ \A e \in Clients \ {c} : cl'[e] = cl[e]
  BY <1>1 DEF Accept, FreeStruct
<1>3. \A i \in 1 .. Len(backlog') : /\ backlog'[i] = backlog[i + 1]
                                   /\ i + 1 \in 1 .. Len(backlog)
  BY <1>1, HeadTailProperties DEF Accept
<1>4. Ending(d) /\ Transfer(d)
  BY EndFacts
<1>5. \A i \in 1 .. Len(backlog') : backlog'[i] = d => conn[d] = "open"
  BY <1>3, <1>4 DEF Ending
<1> HIDE DEF c
<1>6. CASE d # c
  BY <1>2, <1>4, <1>5, <1>6, OtherEnding
<1>7. CASE d = c
  <2>1. conn[d] = "open" /\ d \notin finished
    BY <1>1, <1>4, <1>7 DEF Ending, Transfer, Untransferred
  <2>2. Connected(d)'
    BY <1>2, <1>7, <2>1 DEF Connected
  <2> QED BY <1>2, <1>4, <1>5, <2>2 DEF Ending, EotLast
<1> QED BY <1>6, <1>7

-----------------------------------------------------------------------------
(* The clients' steps.                                                     *)

\* What is left to show when a client that has connected takes a step.
LEMMA ClientStepEnding ==
  ASSUME EndInv, UNCHANGED <<serverVars, backlog, conn>>, NEW c \in Clients,
         snd'[c].phase # "idle", EotLast(c)',
         NoAck(c) => NoAck(c)'
  PROVE  Ending(c)'
<1>1. Ending(c) /\ UNCHANGED <<server, cl, finished>>
  BY EndFacts DEF serverVars
<1>2. Connected(c) => Connected(c)'
  BY <1>1 DEF Connected, Wedged, BadNumber
<1> QED BY <1>1, <1>2 DEF Ending

\* A frame is sent, EOT only after the last block.
LEMMA SendEnding ==
  ASSUME EndInv, UNCHANGED serverVars, NEW c \in Clients, NEW f,
         Send(c, f), f.mark = EOT => snd[c].next > Blocks[c],
         UNCHANGED <<conn, backlog, toClient>>,
         snd'[c].next = snd[c].next, snd'[c].phase # "idle",
         snd'[c].phase = "waitEot" => snd[c].next > Blocks[c]
  PROVE  Ending(c)'
<1>1. Ending(c) /\ toServer \in [Clients -> Seq(Frame)] /\ toServer[c] \in Seq(Frame)
  BY EndFacts
<1>2. \A j \in 1 .. Len(toServer'[c]) :
        \/ j \in 1 .. Len(toServer[c]) /\ toServer'[c][j] = toServer[c][j]
        \/ toServer'[c][j] = f
  BY <1>1 DEF Send
<1>3. EotLast(c)'
  BY <1>1, <1>2 DEF Ending, EotLast
<1> QED BY <1>3, ClientStepEnding DEF NoAck

\* A reply is read; the ACK of EOT is there only if the server is done with c, or
\* answers its buffer again and again.
LEMMA ReceiveEnding ==
  ASSUME EndInv, UNCHANGED serverVars, NEW c \in Clients,
         ReceiveC(c) \/ ReceiveAck(c) \/ ReceiveNak(c) \/ ReceiveDone(c)
  PROVE  Ending(c)'
<1>1. /\ Ending(c) /\ Framing(c) /\ Transfer(c)
      /\ snd \in [Clients -> Sender] /\ snd[c].next \in Nat \ {0} /\ Blocks[c] \in Nat
      /\ toClient \in [Clients -> Seq(Reply)] /\ toClient[c] \in Seq(Reply)
      /\ conn \in [Clients -> ConnStates] /\ Stored(c) \in Nat
  BY EndFacts
<1>2. /\ UNCHANGED <<backlog, toServer>> /\ toClient[c] # << >>
      /\ toClient'[c] = Tail(toClient[c])
  BY <1>1 DEF ReceiveC, ReceiveAck, ReceiveNak, ReceiveDone, Receive
<1>3. /\ snd'[c].phase \in {"send", "done"}
      /\ snd'[c].next = snd[c].next \/ snd'[c].next = snd[c].next + 1
  BY <1>1 DEF ReceiveC, ReceiveAck, ReceiveNak, ReceiveDone, Sender
<1>4. EotLast(c)'
  <2>1. snd[c].next > Blocks[c] => snd'[c].next > Blocks[c]
    BY <1>1, <1>3
  <2> QED BY <1>1, <1>2, <1>3, <2>1 DEF Ending, EotLast
<1>5. NoAck(c) => NoAck(c)'
  <2>1. \A j \in 1 .. Len(toClient'[c]) :
          toClient'[c][j] = toClient[c][j + 1] /\ j + 1 \in 1 .. Len(toClient[c])
    BY <1>1, <1>2, HeadTailProperties
  <2> QED BY <2>1 DEF NoAck
<1>6. CASE ReceiveC(c) \/ ReceiveAck(c) \/ ReceiveNak(c)
  <2>1. conn' = conn
    BY <1>6 DEF ReceiveC, ReceiveAck, ReceiveNak
  <2> QED BY <1>2, <1>3, <1>4, <1>5, <2>1, ClientStepEnding
<1>7. CASE ReceiveDone(c)
  <2>1. /\ snd[c].phase = "waitEot" /\ toClient[c][1].byte = "ACK"
        /\ conn'[c] = IF conn[c] = "open" THEN "closed" ELSE conn[c]
    BY <1>1, <1>2, <1>7 DEF ReceiveDone
  <2>2. 1 \in 1 .. Len(toClient[c]) /\ snd[c].next > Blocks[c]
    BY <1>1, <1>2, <2>1 DEF Ending, EotLast
  <2>3. ~ NoAck(c)
    BY <2>1, <2>2 DEF NoAck
  <2>4. ~ Flow(c)
    <3> SUFFICES ASSUME Flow(c) PROVE FALSE
      OBVIOUS
    <3>1. /\ snd[c].next <= toClient[c][1].of /\ toClient[c][1].of <= Stored(c)
          /\ Stored(c) <= Blocks[c]
      BY <2>1, <2>2 DEF Flow, AcksOK, Numbers
    <3>2. toClient[c][1] \in Reply
      BY <1>1, <2>2
    <3>3. toClient[c][1].of \in Nat
      BY <3>2 DEF Reply
    <3> QED BY <1>1, <2>2, <3>1, <3>3
  <2>5. cl[c].state # "initial" /\ \A i \in 1 .. Len(backlog) : backlog[i] # c
    BY <1>1, <1>2 DEF Framing, NameOnly
  <2>6. server = "running" /\ cl[c].state # "free" => Wedged(c) /\ Connected(c)
    <3> SUFFICES ASSUME server = "running", cl[c].state # "free"
                 PROVE  Wedged(c) /\ Connected(c)
      OBVIOUS
    <3>1. Connected(c) /\ cl[c].state # "finished"
      BY <1>1, <2>3 DEF Ending, Connected
    <3>2. cl[c].state \in Opened \ {"finished"}
      <4>1. cl[c] \in Struct
        BY EndFacts
      <4>2. cl[c].state \in RecStates
        BY <4>1 DEF Struct
      <4> QED BY <2>5, <3>1, <4>2 DEF RecStates, Opened
    <3> QED BY <1>1, <2>4, <3>1, <3>2 DEF Transfer
  <2>7. UNCHANGED <<server, cl, finished>>
    BY DEF serverVars
  <2>8. server' = "running" /\ cl'[c].state # "free" => Connected(c)'
    <3> SUFFICES ASSUME server = "running", cl[c].state # "free"
                 PROVE  Connected(c)'
      BY <2>7
    <3>1. Wedged(c) /\ Connected(c)
      BY <2>6
    <3>2. Wedged(c)' /\ cl'[c].state = "check_block"
      BY <2>7, <3>1 DEF Wedged, BadNumber
    <3> QED BY <2>1, <2>7, <3>1, <3>2 DEF Connected
  <2> QED BY <1>2, <1>3, <1>4, <2>5, <2>8 DEF Ending
<1> QED BY <1>6, <1>7

LEMMA ClientEnding ==
  ASSUME EndInv, NobodyLeaves, UNCHANGED serverVars, NEW c \in Clients,
         Progress(c) \/ NoticeEnd(c, server = "running") \/ Fault(c)
  PROVE  Ending(c)'
<1>1. /\ Ending(c) /\ Framing(c) /\ TypeOK /\ snd \in [Clients -> Sender]
      /\ conn \in [Clients -> ConnStates]
  BY EndFacts
<1>2. CASE Connect(c)
  <2>1. /\ snd'[c].phase = "hello" /\ conn'[c] = "open" /\ UNCHANGED <<toServer, toClient>>
    BY <1>1, <1>2 DEF Connect, Sender
  <2>2. toServer[c] = << >> /\ cl[c].state = "free"
    BY <1>1, <1>2 DEF Connect, Framing, NameOnly, EndInv, FileInv, SyncInv, ListInv, BacklogFresh
  <2>3. EotLast(c)'
    BY <2>1, <2>2 DEF EotLast
  <2>4. cl' = cl
    BY DEF serverVars
  <2> QED BY <2>1, <2>2, <2>3, <2>4 DEF Ending
<1>3. CASE SendName(c)
  <2>1. Send(c, NameFrame(c)) /\ NameFrame(c).mark # EOT
    BY <1>3 DEF SendName, NameFrame, LF, EOT
  <2>2. /\ snd'[c].phase = "waitC" /\ snd'[c].next = snd[c].next
        /\ UNCHANGED <<conn, backlog, toClient>>
    BY <1>1, <1>3 DEF SendName, Sender
  <2> QED BY <2>1, <2>2, SendEnding
<1>4. ASSUME NEW m \in Marks, NEW d \in Damage, SendBlock(c, m, d)
      PROVE  Ending(c)'
  <2> DEFINE f == BlockFrame(m, FileBlock(snd[c].next, d))
  <2>1. Send(c, f) /\ f.mark # EOT
    <3>1. f.mark = m
      BY DEF BlockFrame
    <3> QED BY <1>4, <3>1, SenderAssumption DEF SendBlock, SOH, STX, EOT
  <2>2. /\ snd'[c].phase = "waitAck" /\ snd'[c].next = snd[c].next
        /\ UNCHANGED <<conn, backlog, toClient>>
    <3>1. PICK k : snd' = [snd EXCEPT ![c].phase = "waitAck", ![c].faults = k]
      BY <1>4 DEF SendBlock
    <3> QED BY <1>1, <1>4, <3>1 DEF SendBlock, Sender
  <2> HIDE DEF f
  <2> QED BY <2>1, <2>2, SendEnding
<1>5. CASE SendEot(c)
  <2>1. Send(c, EotFrame) /\ snd[c].next > Blocks[c]
    BY <1>5 DEF SendEot
  <2>2. /\ snd'[c].phase = "waitEot" /\ snd'[c].next = snd[c].next
        /\ UNCHANGED <<conn, backlog, toClient>>
    BY <1>1, <1>5 DEF SendEot, Sender
  <2> QED BY <2>1, <2>2, SendEnding
<1>6. CASE ReceiveC(c) \/ ReceiveAck(c) \/ ReceiveNak(c) \/ ReceiveDone(c)
  BY <1>6, ReceiveEnding
<1>7. CASE Timeout(c) \/ NoticeEnd(c, server = "running")
  <2>1. /\ UNCHANGED <<netVars>> /\ snd'[c].next = snd[c].next
        /\ snd'[c].phase \in {"send", "gone"}
    BY <1>1, <1>7 DEF Timeout, NoticeEnd, Sender
  <2>2. EotLast(c)'
    BY <1>1, <2>1 DEF Ending, EotLast, netVars
  <2> QED BY <2>1, <2>2, ClientStepEnding DEF netVars, NoAck
<1>8. ~ Disconnect(c)
  BY DEF Disconnect, MayFail, NobodyLeaves
<1> QED BY <1>2, <1>3, <1>4, <1>5, <1>6, <1>7, <1>8 DEF Progress, Fault

LEMMA InitEndInv == Init => EndInv
<1> SUFFICES ASSUME Init PROVE EndInv
  OBVIOUS
<1>1. ASSUME NEW c \in Clients PROVE Ending(c)
  BY DEF Init, NetInit, ServerInit, SenderInit, FreeStruct, Ending, EotLast
<1> QED BY <1>1, InitFileInv DEF EndInv

LEMMA EndInvPreserved ==
  ASSUME NobodyLeaves
  PROVE  EndInv /\ [Next]_vars => EndInv'
<1> SUFFICES ASSUME EndInv, [Next]_vars PROVE EndInv'
  OBVIOUS
<1>1. FileInv' /\ TypeOK /\ \A d \in Clients : Ending(d)
  BY FileInvPreserved, EndFacts DEF EndInv, FileInv, SyncInv, ListInv
<1> SUFFICES ASSUME NEW d \in Clients PROVE Ending(d)'
  BY <1>1 DEF EndInv
<1>2. ASSUME UNCHANGED <<server, cl, finished, snd, netVars>>
      PROVE  Ending(d)'
  <2>1. \A i \in 1 .. Len(backlog') : backlog'[i] = d => conn[d] = "open"
    BY <1>1, <1>2 DEF Ending, netVars
  <2> QED BY <1>1, <1>2, <2>1, OtherEnding DEF netVars
<1>3. CASE Accept /\ UNCHANGED snd
  BY <1>3, AcceptEnding
<1>4. CASE (Poll \/ EndScan \/ UNCHANGED vars) /\ UNCHANGED snd
  BY <1>2, <1>4 DEF Poll, EndScan, vars, serverVars
<1>5. ASSUME NEW c \in Clients, Serve(c), UNCHANGED snd
      PROVE  Ending(d)'
  <2>1. CASE d = c
    BY <1>5, <2>1, ServeEnding
  <2>2. CASE d # c
    <3>1. \A i \in 1 .. Len(backlog') : backlog'[i] = d => conn[d] = "open"
      BY <1>1, <1>5, ServeLocal DEF Ending
    <3>2. server = "running"
      BY <1>5, ServedRunning
    <3> QED BY <1>1, <1>5, <2>2, <3>1, <3>2, ServeLocal, OtherEnding
  <2> QED BY <2>1, <2>2
<1>6. ASSUME NEW c \in Clients, ClientActs(c) \/ FaultHappens(c)
      PROVE  Ending(d)'
  <2>1. /\ Progress(c) \/ NoticeEnd(c, server = "running") \/ Fault(c)
        /\ UNCHANGED serverVars /\ UNCHANGED <<server, cl, finished>>
    BY <1>6 DEF ClientActs, FaultHappens, serverVars
  <2>2. CASE d = c
    BY <2>1, <2>2, ClientEnding
  <2>3. CASE d # c
    <3>1. \A i \in 1 .. Len(backlog') : backlog'[i] = d => conn[d] = "open"
      BY <1>1, <2>1, <2>3, BacklogGrows DEF Ending
    <3> QED BY <1>1, <2>1, <2>3, <3>1, ClientLocal, OtherEnding
  <2> QED BY <2>2, <2>3
<1>7. UNCHANGED vars => UNCHANGED snd
  BY DEF vars
<1> QED BY <1>3, <1>4, <1>5, <1>6, <1>7 DEF Next, ServerActs, ServerStep

----------------------------------------------------------------------------
(* The server implements Upload: a step stores a block, completes a transfer*)
(* or gives it up, or is none of Upload's business.                        *)

AbsContents == [c \in Clients |-> file[c].data]
AbsStatus == [c \in Clients |-> Status(c)]

LEMMA UploadStutters ==
  ASSUME \A c \in Clients : /\ file'[c].data = file[c].data
                            /\ conn'[c] = "dropped" <=> conn[c] = "dropped"
                            /\ c \in finished' <=> c \in finished
  PROVE  UNCHANGED Abs!uploadVars
<1>1. AbsContents' = AbsContents
  BY DEF AbsContents
<1>2. \A c \in Clients : Status(c)' = Status(c)
  BY DEF Status
<1>3. AbsStatus' = AbsStatus
  BY <1>2 DEF AbsStatus
<1> QED BY <1>1, <1>3 DEF Abs!uploadVars, AbsContents, AbsStatus

\* The server serves c.
LEMMA ServeRefines ==
  ASSUME EndInv, UNCHANGED snd, NEW c \in Clients, Serve(c)
  PROVE  Abs!UploadNext \/ UNCHANGED Abs!uploadVars
<1>1. /\ TypeOK /\ Ending(c) /\ Transfer(c) /\ FileInv /\ Stored(c) \in Nat /\ Blocks[c] \in Nat
      /\ server = "running"
      /\ pc \notin {"select", "scan"} /\ cursor = c => c \in Allocated /\ cl[c].state = pc
      /\ file \in [Clients -> FileState] /\ conn \in [Clients -> ConnStates]
      /\ cl[c] \in Struct
  <2>1. server = "running"
    BY ServedRunning
  <2> QED BY <2>1, EndFacts DEF FileInv, SyncInv, ListInv, CursorLive
<1>2. \A d \in Clients \ {c} :
        conn'[d] = conn[d] /\ file'[d] = file[d] /\ (d \in finished' <=> d \in finished)
  BY <1>1, ServeLocal
<1>3. ASSUME file'[c].data = file[c].data, conn'[c] = conn[c],
             c \in finished' <=> c \in finished
      PROVE  UNCHANGED Abs!uploadVars
  <2>1. ASSUME NEW d \in Clients
        PROVE  /\ file'[d].data = file[d].data
               /\ conn'[d] = "dropped" <=> conn[d] = "dropped"
               /\ d \in finished' <=> d \in finished
    <3>1. CASE d = c
      BY <1>3, <3>1
    <3>2. CASE d # c
      <4>1. d \in Clients \ {c}
        BY <3>2
      <4>2. conn'[d] = conn[d] /\ file'[d] = file[d] /\ (d \in finished' <=> d \in finished)
        BY <1>2, <4>1
      <4> QED BY <4>2
    <3> QED BY <3>1, <3>2
  <2> QED BY <2>1, UploadStutters
<1>4. ASSUME NEW d \in Clients \ {c} PROVE Status(d)' = Status(d)
  <2>1. conn'[d] = conn[d] /\ (d \in finished' <=> d \in finished)
    BY <1>2
  <2> QED BY <2>1 DEF Status
<1>5. ASSUME c \notin finished, conn[c] # "dropped" PROVE AbsStatus[c] = "open"
  BY <1>5 DEF AbsStatus, Status
<1>6. ASSUME AcceptBlock(c) PROVE Abs!UploadNext
  <2>1. /\ file' = [file EXCEPT ![c].data = Append(@, Stored(c) + 1)]
        /\ Stored(c) < Blocks[c] /\ UNCHANGED <<conn, finished>>
        /\ conn[c] # "dropped" /\ c \notin finished
    <3>1. cl[c].state = "check_block" /\ c \in Allocated /\ IsExpected(c)
      BY <1>1, <1>6 DEF AcceptBlock, At
    <3>2. Payload(cl[c].blk) = Stored(c) + 1 /\ Stored(c) + 1 <= Blocks[c]
      BY <1>1, <3>1, ExpectedIsNext
    <3>3. Connected(c)
      BY <1>1, <3>1 DEF Ending
    <3> QED BY <1>1, <1>6, <3>2, <3>3 DEF AcceptBlock, Connected
  <2>2. AbsContents' = [AbsContents EXCEPT ![c] = Append(@, Len(@) + 1)]
    <3>1. file'[c].data = Append(file[c].data, Len(file[c].data) + 1)
      BY <1>1, <2>1 DEF FileState, Stored
    <3>2. \A d \in Clients \ {c} : file'[d].data = file[d].data
      BY <1>2
    <3> QED BY <3>1, <3>2 DEF AbsContents
  <2>3. AbsStatus' = AbsStatus
    <3>1. \A d \in Clients : Status(d)' = Status(d)
      BY <2>1 DEF Status
    <3> QED BY <3>1 DEF AbsStatus
  <2>4. AbsStatus[c] = "open" /\ Len(AbsContents[c]) < Blocks[c]
    BY <1>5, <2>1 DEF AbsContents, Stored
  <2>5. Abs!Store(c)
    BY <2>2, <2>3, <2>4 DEF Abs!Store, AbsContents, AbsStatus
  <2> QED BY <2>5 DEF Abs!UploadNext
<1>7. ASSUME Finish(c) PROVE Abs!UploadNext
  <2>1. /\ conn[c] = "open" /\ Stored(c) = Blocks[c] /\ c \notin finished
        /\ finished' = finished \cup {c} /\ UNCHANGED file
    <3>1. cl[c].state = "finished"
      BY <1>1, <1>7 DEF Finish, At
    <3>2. Connected(c) /\ AllStored(c) /\ ~ Wedged(c)
      BY <1>1, <3>1 DEF Ending, Transfer, Wedged
    <3> QED BY <1>7, <3>2 DEF Connected, AllStored, Finish
  <2>2. AbsStatus' = [AbsStatus EXCEPT ![c] = "complete"]
    <3>1. Status(c)' = "complete"
      BY <2>1 DEF Status
    <3>2. \A d \in Clients \ {c} : Status(d)' = Status(d)
      BY <1>4
    <3> QED BY <3>1, <3>2 DEF AbsStatus
  <2>3. AbsContents' = AbsContents
    BY <2>1 DEF AbsContents
  <2>4. AbsStatus[c] = "open" /\ Len(AbsContents[c]) = Blocks[c]
    BY <1>5, <2>1 DEF AbsContents, Stored
  <2>5. Abs!Complete(c)
    BY <2>2, <2>3, <2>4 DEF Abs!Complete, AbsContents, AbsStatus
  <2> QED BY <2>5 DEF Abs!UploadNext
<1>8. ASSUME DropClient(c) PROVE Abs!UploadNext
  <2>1. /\ conn[c] = "open" /\ conn'[c] = "dropped" /\ c \notin finished
        /\ UNCHANGED <<file, finished>>
    <3>1. cl[c].state = "check_block" /\ BadNumber(c)
      BY <1>1, <1>8 DEF DropClient, At
    <3>2. Connected(c) /\ ~ Wedged(c)
      BY <1>1, <3>1 DEF Ending, Wedged
    <3> QED BY <1>1, <1>8, <3>2 DEF DropClient, Drop, Connected
  <2>2. AbsStatus' = [AbsStatus EXCEPT ![c] = "given_up"]
    <3>1. Status(c)' = "given_up"
      BY <2>1 DEF Status
    <3>2. \A d \in Clients \ {c} : Status(d)' = Status(d)
      BY <1>4
    <3> QED BY <3>1, <3>2 DEF AbsStatus
  <2>3. AbsContents' = AbsContents
    BY <2>1 DEF AbsContents
  <2>4. AbsStatus[c] = "open"
    BY <1>5, <2>1
  <2>5. Abs!GiveUp(c)
    BY <2>2, <2>3, <2>4 DEF Abs!GiveUp, AbsContents, AbsStatus
  <2> QED BY <2>5 DEF Abs!UploadNext
<1>9. CASE OpenFile(c)
  <2>1. PICK k : file' = [file EXCEPT ![c].name = k]
    BY <1>9 DEF OpenFile
  <2>2. file'[c].data = file[c].data
    BY <1>1, <2>1 DEF FileState
  <2> QED BY <1>3, <1>9, <2>2 DEF OpenFile
<1>10. CASE \/ SkipClient(c) \/ VisitClient(c) \/ ReadPartOfName(c) \/ NoDirectory(c)
           \/ StoreFails(c) \/ NullFile(c) \/ ReadError(c)
  <2>1. UNCHANGED <<file, conn, finished>>
    BY <1>10 DEF SkipClient, VisitClient, ReadPartOfName, NoDirectory, StoreFails,
              NullFile, ReadError, netVars
  <2> QED BY <1>3, <2>1
<1>11. CASE \/ StartBlock(c) \/ EndOfTransmission(c) \/ NakMark(c) \/ GetBlock(c)
            \/ NakBlock(c) \/ RepeatBlock(c)
  <2>1. UNCHANGED <<file, conn, finished>>
    BY <1>11 DEF StartBlock, EndOfTransmission, NakMark, GetBlock, NakBlock, RepeatBlock
  <2> QED BY <1>3, <2>1
<1> QED BY <1>6, <1>7, <1>8, <1>9, <1>10, <1>11 DEF Serve

LEMMA StepRefines ==
  EndInv /\ [Next]_vars => [Abs!UploadNext]_Abs!uploadVars
<1> SUFFICES ASSUME EndInv, [Next]_vars
             PROVE  Abs!UploadNext \/ UNCHANGED Abs!uploadVars
  OBVIOUS
<1>0. TypeOK /\ conn \in [Clients -> ConnStates]
  BY DEF EndInv, FileInv, SyncInv, ListInv, TypeOK, NetTypeOK
<1>1. CASE Accept \/ Poll \/ EndScan \/ UNCHANGED vars
  <2>1. UNCHANGED <<file, conn, finished>>
    BY <1>1 DEF Accept, Poll, EndScan, vars, netVars, serverVars
  <2> QED BY <2>1, UploadStutters
<1>2. ASSUME NEW c \in Clients, Serve(c), UNCHANGED snd
      PROVE  Abs!UploadNext \/ UNCHANGED Abs!uploadVars
  BY <1>2, ServeRefines
<1>3. ASSUME NEW c \in Clients, ClientActs(c) \/ FaultHappens(c)
      PROVE  UNCHANGED Abs!uploadVars
  <2>1. /\ Progress(c) \/ NoticeEnd(c, server = "running") \/ Fault(c)
        /\ UNCHANGED <<file, finished>>
    BY <1>3 DEF ClientActs, FaultHappens, serverVars
  <2>2. \A d \in Clients \ {c} : conn'[d] = conn[d]
    BY <1>0, <2>1, ClientLocal
  <2>3. conn'[c] = "dropped" <=> conn[c] = "dropped"
    <3>1. CASE Connect(c)
      <4>1. conn[c] = "none"
        BY <3>1, EndFacts DEF Connect, Ending
      <4> QED BY <1>0, <3>1, <4>1 DEF Connect
    <3>2. CASE \/ SendName(c) \/ SendEot(c) \/ ReceiveC(c) \/ ReceiveAck(c) \/ ReceiveNak(c)
               \/ NoticeEnd(c, server = "running") \/ Timeout(c)
      BY <3>2 DEF SendName, SendEot, ReceiveC, ReceiveAck, ReceiveNak, NoticeEnd, Timeout, netVars
    <3>3. ASSUME NEW mark \in Marks, NEW damage \in Damage, SendBlock(c, mark, damage)
          PROVE  conn' = conn
      BY <3>3 DEF SendBlock
    <3>4. CASE ReceiveDone(c) \/ Disconnect(c)
      BY <1>0, <3>4 DEF ReceiveDone, Disconnect
    <3> QED BY <2>1, <3>1, <3>2, <3>3, <3>4 DEF Progress, Fault
  <2> QED BY <2>1, <2>2, <2>3, UploadStutters
<1>4. UNCHANGED vars => UNCHANGED snd
  BY DEF vars
<1> QED BY <1>1, <1>2, <1>3, <1>4 DEF Next, ServerActs, ServerStep

LEMMA InitRefines == Init => Abs!UploadInit
BY DEF Init, NetInit, ServerInit, Abs!UploadInit, Status

\* The loop over any number of clients, none of which goes away before the server
\* has answered, implements Upload: every step writes the next block of one file,
\* reports it complete when it is, gives it up, or leaves the files alone, also
\* when timers expire or the server goes down (xmodemserver.c:207-291).
THEOREM UploadRefined ==
  ASSUME NobodyLeaves
  PROVE  Spec => ImplementsUpload
<1>1. Init => EndInv
  BY InitEndInv
<1>2. EndInv /\ [Next]_vars => EndInv'
  BY EndInvPreserved
<1> QED BY <1>1, <1>2, InitRefines, StepRefines, PTL DEF Spec, ImplementsUpload, Abs!UploadSpec

-----------------------------------------------------------------------------
(* Clients that wait for their answers.  When no timer expires and fresh    *)
(* memory holds no '\n', client and server speak in turn, until the client  *)
(* goes away: it has one frame or one reply under way, never both.          *)

ClientsWait == "timeout" \notin Faults /\ JunkLFs = {FALSE}

Quiet(c) == toServer[c] = << >> /\ toClient[c] = << >>

\* One reply is under way to c.
Answered(c, bytes) ==
  toServer[c] = << >> /\ Len(toClient[c]) = 1 /\ toClient[c][1].byte \in bytes

\* The block that c waits for is under way, or in the buffer.
BlockSent(c) ==
  /\ toClient[c] = << >>
  /\ cl[c].state = "check_block" => /\ toServer[c] = << >>
                                    /\ cl[c].blk.idx = snd[c].next
                                    /\ cl[c].blk.num = cl[c].current_block
  /\ cl[c].state # "check_block" => /\ cl[c].state \in {"pre_block", "get_block"}
                                    /\ Len(toServer[c]) = 1 /\ IsBlock(toServer[c][1])
                                    /\ toServer[c][1].blk.idx = snd[c].next

EotSent(c) ==
  /\ toClient[c] = << >>
  /\ \/ cl[c].state = "finished" /\ toServer[c] = << >>
     \/ cl[c].state = "pre_block" /\ Len(toServer[c]) = 1 /\ toServer[c][1].mark = EOT

\* What is under way between the server and a client it is connected to; the
\* last case is that of a server that went down between the last ACK and the
\* close of the file.
OpenTurn(c) ==
  LET state == cl[c].state
      phase == snd[c].phase IN
  \/ phase = "hello" /\ state \in {"free", "initial"} /\ Quiet(c)
  \/ phase = "waitC" /\ state \in {"free", "initial"} /\ toClient[c] = << >>
  \/ phase = "waitC" /\ state = "pre_block" /\ Answered(c, {"C"})
  \/ phase = "send" /\ state = "pre_block" /\ Quiet(c)
  \/ phase = "waitAck" /\ snd[c].next <= Blocks[c] /\ BlockSent(c)
  \/ /\ phase = "waitAck" /\ snd[c].next <= Blocks[c]
     /\ state = "pre_block" /\ Answered(c, {"ACK", "NAK"})
  \/ phase = "waitEot" /\ snd[c].next > Blocks[c] /\ EotSent(c)
  \/ phase = "waitEot" /\ server # "running" /\ c \in finished /\ Answered(c, {"ACK"})

\* The same for one that it dropped.
DroppedTurn(c) ==
  /\ toServer[c] = << >>
  /\ \/ snd[c].phase = "waitAck" /\ toClient[c] = << >>
     \/ snd[c].phase = "waitEot" /\ Answered(c, {"ACK"}) /\ c \in finished

\* c has not read yet that its block was stored.
AckUnderWay(c) ==
  /\ conn[c] = "open" /\ snd[c].phase = "waitAck"
  /\ toClient[c] # << >> /\ toClient[c][1].byte = "ACK"

Turn(c) ==
  /\ conn[c] # "closed"
  /\ conn[c] = "none" <=> snd[c].phase = "idle"
  /\ cl[c].state # "free" => conn[c] = "open"
  /\ \A i \in 1 .. Len(backlog) : backlog[i] = c => conn[c] = "open"
  /\ conn[c] = "open" => OpenTurn(c)
  /\ conn[c] = "dropped" => DroppedTurn(c)
  /\ snd[c].next = IF AckUnderWay(c) THEN Stored(c) ELSE Stored(c) + 1
  /\ snd[c].next <= Blocks[c] + 1

\* A client that has ended, either way, hears nothing more.
Ended(c) == snd[c].phase \in {"done", "gone"}

Over(c) ==
  /\ snd[c].next <= Stored(c) + 1
  /\ snd[c].phase = "done" => c \in finished

InTurn(c) == IF Ended(c) THEN Over(c) ELSE Turn(c)

\* The name read is the name sent: no '\n' stands behind a '\r' by chance.
NameRead(c) ==
  /\ ~ cl[c].junkLF
  /\ cl[c].fp # "unset" => file[c].name = NameLen[c]

NameInv == TypeOK /\ \A c \in Clients : NameRead(c)

TurnInv == FileInv /\ NameInv /\ \A c \in Clients : InTurn(c)

\* The steps that keep a client's struct leave its name and FILE pointer alone.
LEMMA FieldsKept ==
  ASSUME NEW c \in Clients, cl \in [Clients -> Struct], cl[c] \in Struct,
         \/ ReadPartOfName(c) \/ StartBlock(c) \/ EndOfTransmission(c) \/ NakMark(c)
         \/ GetBlock(c) \/ NakBlock(c) \/ AcceptBlock(c)
  PROVE  cl'[c].junkLF = cl[c].junkLF /\ cl'[c].fp = cl[c].fp
<1>1. CASE ReadPartOfName(c)
  BY <1>1 DEF ReadPartOfName, Struct
<1>2. CASE StartBlock(c) \/ EndOfTransmission(c)
  <2>1. CASE StartBlock(c)
    <3>1. PICK n \in ReadCounts(c, 1) :
            cl' = [cl EXCEPT ![c].state = "get_block",
                             ![c].buf0 = ReadMark(c, n),
                             ![c].blocksize = BlockSize(ReadMark(c, n))]
      BY <2>1 DEF StartBlock
    <3> QED BY <3>1 DEF Struct
  <2>2. CASE EndOfTransmission(c)
    BY <2>2 DEF EndOfTransmission, Struct
  <2> QED BY <1>2, <2>1, <2>2
<1>3. CASE NakMark(c)
  BY <1>3 DEF NakMark, Struct
<1>4. CASE GetBlock(c)
  <2>1. PICK n \in ReadCounts(c, cl[c].blocksize - cl[c].inbuf) :
          LET full == cl[c].inbuf + n = cl[c].blocksize
              blk  == IF n = 0 THEN cl[c].blk ELSE Head(toServer[c]).blk IN
          cl' = [cl EXCEPT ![c].inbuf = @ + n,
                           ![c].blk = blk,
                           ![c].buf0 = IF n = 0 THEN @ ELSE blk.num,
                           ![c].state = IF full THEN "check_block" ELSE @]
    BY <1>4 DEF GetBlock
  <2> DEFINE full == cl[c].inbuf + n = cl[c].blocksize
             blk == IF n = 0 THEN cl[c].blk ELSE Head(toServer[c]).blk
  <2>2. cl'[c] = [cl[c] EXCEPT !.inbuf = @ + n, !.blk = blk,
                               !.buf0 = IF n = 0 THEN @ ELSE blk.num,
                               !.state = IF full THEN "check_block" ELSE @]
    BY <2>1
  <2> HIDE DEF full, blk
  <2> QED BY <2>2 DEF Struct
<1>5. CASE NakBlock(c) \/ AcceptBlock(c)
  BY <1>5 DEF NakBlock, AcceptBlock, Struct
<1> QED BY <1>1, <1>2, <1>3, <1>4, <1>5

\* The name that is read to its newline is the name that was sent.
LEMMA NameStep ==
  ASSUME JunkLFs = {FALSE}, NameInv, TypeOK', [Next]_vars, NEW c \in Clients
  PROVE  NameRead(c)'
<1>1. /\ NameRead(c) /\ cl \in [Clients -> Struct] /\ cl' \in [Clients -> Struct]
      /\ file \in [Clients -> FileState] /\ NameLen[c] \in Nat
      /\ backlog \in Seq(Clients) /\ cl[c] \in Struct /\ file[c] \in FileState
  BY NetAssumption DEF NameInv, TypeOK, ServerTypeOK, NetTypeOK
<1>2. ASSUME UNCHANGED <<cl, file>> PROVE NameRead(c)'
  BY <1>1, <1>2 DEF NameRead
<1>3. CASE Accept
  <2>1. PICK d \in Clients, byte \in JunkBytes, lf \in JunkLFs :
          /\ cl' = [cl EXCEPT ![d] = [FreeStruct EXCEPT !.state = "initial",
                                        !.buf0 = byte, !.junkLF = lf]]
          /\ file' = file
    BY <1>1, <1>3, HeadTailProperties DEF Accept
  <2>2. /\ [FreeStruct EXCEPT !.state = "initial", !.buf0 = byte, !.junkLF = lf].junkLF = FALSE
        /\ [FreeStruct EXCEPT !.state = "initial", !.buf0 = byte, !.junkLF = lf].fp = "unset"
    BY <2>1 DEF FreeStruct
  <2>3. CASE d = c
    BY <1>1, <2>1, <2>2, <2>3 DEF NameRead
  <2>4. CASE d # c
    BY <1>1, <2>1, <2>4 DEF NameRead
  <2> QED BY <2>3, <2>4
<1>4. ASSUME NEW d \in Clients, Serve(d) PROVE NameRead(c)'
  <2>1. CASE d # c
    <3>1. cl'[c] = cl[c] /\ file'[c] = file[c]
      BY <1>4, <2>1, ServeLocal DEF NameInv
    <3> QED BY <1>1, <3>1 DEF NameRead
  <2>2. CASE d = c
    <3>1. CASE SkipClient(c) \/ VisitClient(c) \/ NoDirectory(c) \/ StoreFails(c) \/ NullFile(c)
               \/ ReadError(c) \/ RepeatBlock(c)
      BY <1>2, <3>1 DEF SkipClient, VisitClient, NoDirectory, StoreFails, NullFile, ReadError, RepeatBlock
    <3>2. CASE ReadPartOfName(c) \/ StartBlock(c) \/ EndOfTransmission(c) \/ NakMark(c)
               \/ GetBlock(c) \/ NakBlock(c) \/ AcceptBlock(c)
      <4>1. cl'[c].junkLF = cl[c].junkLF /\ cl'[c].fp = cl[c].fp
        BY <1>1, <3>2, FieldsKept
      <4>2. file'[c].name = file[c].name
        <5>1. CASE AcceptBlock(c)
          BY <1>1, <5>1 DEF AcceptBlock, FileState
        <5>2. CASE ~ AcceptBlock(c)
          BY <3>2, <5>2 DEF ReadPartOfName, StartBlock, EndOfTransmission, NakMark, GetBlock,
                            NakBlock
        <5> QED BY <5>1, <5>2
      <4> QED BY <1>1, <4>1, <4>2 DEF NameRead
    <3>3. CASE OpenFile(c)
      <4>1. PICK n \in ReadCounts(c, NameCap - cl[c].inbuf), r \in OpenResults \ {"no_dir"} :
              /\ NewlineFound(c, cl[c].inbuf + n)
              /\ file' = [file EXCEPT ![c].name = cl[c].inbuf + n - 2]
              /\ cl' = [cl EXCEPT ![c].state = "pre_block", ![c].inbuf = 0,
                                  ![c].current_block = 1, ![c].fp = r]
        BY <3>3 DEF OpenFile
      <4>2. cl[c].inbuf + n = NameLen[c] + 2
        BY <1>1, <4>1 DEF NameRead, NewlineFound
      <4>3. file'[c].name = NameLen[c]
        <5>1. file'[c].name = cl[c].inbuf + n - 2
          BY <1>1, <4>1 DEF FileState
        <5>2. cl[c].inbuf \in Nat
          BY <1>1 DEF Struct
        <5>3. n \in Nat
          <6>1. TypeOK /\ NameCap - cl[c].inbuf \in Int
            BY <5>2, NetAssumption DEF NameInv
          <6> QED BY <6>1, ReadResult
        <5> QED BY <1>1, <4>2, <5>1, <5>2, <5>3
      <4>4. cl'[c].junkLF = cl[c].junkLF
        BY <1>1, <4>1 DEF Struct
      <4> QED BY <1>1, <4>3, <4>4 DEF NameRead
    <3>4. CASE DropClient(c) \/ Finish(c)
      <4>1. file' = file /\ (cl'[c] = FreeStruct \/ cl' = cl)
        BY <1>1, <3>4 DEF DropClient, Finish, Drop
      <4> QED BY <1>1, <4>1 DEF NameRead, FreeStruct
    <3> QED BY <1>4, <2>2, <3>1, <3>2, <3>3, <3>4 DEF Serve
  <2> QED BY <2>1, <2>2
<1>5. CASE Poll \/ EndScan \/ UNCHANGED vars
  BY <1>2, <1>5 DEF Poll, EndScan, vars, serverVars
<1>6. ASSUME NEW d \in Clients, ClientActs(d) \/ FaultHappens(d) PROVE NameRead(c)'
  BY <1>2, <1>6 DEF ClientActs, FaultHappens, serverVars
<1> QED BY <1>3, <1>4, <1>5, <1>6 DEF Next, ServerActs, ServerStep

LEMMA InitNameInv == Init => NameInv
BY InitTypeOK DEF Init, ServerInit, NameInv, NameRead, FreeStruct

LEMMA NameInvPreserved ==
  ASSUME JunkLFs = {FALSE}
  PROVE  NameInv /\ [Next]_vars => NameInv'
<1>1. NameInv /\ [Next]_vars => TypeOK'
  BY TypePreserved DEF NameInv
<1> QED BY <1>1, NameStep DEF NameInv

-----------------------------------------------------------------------------
(* In turn: the server's steps.                                            *)

\* What the types and the other invariants say of one client.
LEMMA TurnFacts ==
  ASSUME TurnInv, NEW c \in Clients
  PROVE  /\ TypeOK /\ SyncInv /\ FileInv /\ InTurn(c) /\ NameRead(c) /\ Framing(c) /\ Transfer(c)
         /\ cl \in [Clients -> Struct] /\ cl[c] \in Struct
         /\ snd \in [Clients -> Sender] /\ snd[c] \in Sender /\ snd[c].next \in Nat \ {0}
         /\ toServer \in [Clients -> Seq(Frame)] /\ toServer[c] \in Seq(Frame)
         /\ toClient \in [Clients -> Seq(Reply)] /\ toClient[c] \in Seq(Reply)
         /\ conn \in [Clients -> ConnStates]
         /\ file \in [Clients -> FileState] /\ file[c].data \in Seq(Nat)
         /\ Stored(c) \in Nat /\ Blocks[c] \in Nat
<1>1. TypeOK /\ SyncInv /\ FileInv /\ InTurn(c) /\ NameRead(c) /\ Framing(c) /\ Transfer(c)
  BY DEF TurnInv, FileInv, SyncInv, ListInv, NameInv
<1>2. /\ cl \in [Clients -> Struct] /\ snd \in [Clients -> Sender]
      /\ toServer \in [Clients -> Seq(Frame)] /\ toClient \in [Clients -> Seq(Reply)]
      /\ conn \in [Clients -> ConnStates] /\ file \in [Clients -> FileState]
  BY <1>1 DEF TypeOK, ServerTypeOK, NetTypeOK, SenderTypeOK
<1>3. snd[c].next \in Nat \ {0} /\ file[c].data \in Seq(Nat) /\ Stored(c) \in Nat
  BY <1>2 DEF Sender, FileState, Stored
<1> QED BY <1>1, <1>2, <1>3, NetAssumption

\* What a served client's turn may be: it is connected, and not finished.
LEMMA ServedFacts ==
  ASSUME TurnInv, NEW c \in Clients, cl[c].state # "free", server = "running", ~ Ended(c)
  PROVE  /\ c \in Allocated /\ conn[c] = "open" /\ Turn(c) /\ OpenTurn(c)
         /\ cl[c].state \in Opened => Framed(c)
         /\ cl[c].state = "initial" => NameOnly(c, cl[c].inbuf)
BY TurnFacts DEF InTurn, Turn, Allocated, Framing

\* A reply to a client that is connected and has no other one to read.
LEMMA ReplyToOpen ==
  ASSUME TypeOK, NEW c \in Clients, conn[c] = "open", toClient[c] = << >>,
         NEW byte \in {"C", "ACK", "NAK"}, NEW of \in Nat,
         toClient' = AfterWrite(c, byte, of)
  PROVE  Len(toClient'[c]) = 1 /\ toClient'[c] # << >> /\ toClient'[c][1].byte = byte
<1> DEFINE r == [byte |-> byte, of |-> of]
<1>1. r.byte = byte
  OBVIOUS
<1> HIDE DEF r
<1>2. toClient'[c] = Append(<< >>, r)
  BY DEF AfterWrite, TypeOK, NetTypeOK, r
<1>3. toClient'[c] = << r >>
  BY <1>2
<1> QED BY <1>1, <1>3

\* Nothing of what InTurn says of d has changed.
LEMMA OtherTurn ==
  ASSUME NEW d \in Clients, InTurn(d), server' = "running" => server = "running",
         cl'[d] = cl[d], snd'[d] = snd[d], conn'[d] = conn[d],
         toServer'[d] = toServer[d], toClient'[d] = toClient[d],
         file'[d].data = file[d].data, d \in finished' <=> d \in finished,
         ~ Ended(d) => \A i \in 1 .. Len(backlog') : backlog'[i] = d => conn[d] = "open"
  PROVE  InTurn(d)'
BY DEF InTurn, Ended, Over, Turn, OpenTurn, DroppedTurn, AckUnderWay, Quiet, Answered, BlockSent, EotSent,
       Stored, IsBlock

\* What a step that serves a connected client has to show of it.
LEMMA ServedTurn ==
  ASSUME NEW c \in Clients, InTurn(c), ~ Ended(c), conn[c] = "open",
         UNCHANGED <<snd, backlog>>, conn'[c] = conn[c], OpenTurn(c)',
         snd[c].next = IF AckUnderWay(c)' THEN Stored(c)' ELSE Stored(c)' + 1
  PROVE  InTurn(c)'
BY DEF InTurn, Turn, Ended

\* A part of the name, or all of it.
LEMMA ReadNameTurn ==
  ASSUME TurnInv, UNCHANGED snd, NEW c \in Clients, server = "running", ~ Ended(c),
         cl[c].state = "initial", ReadPartOfName(c)
  PROVE  InTurn(c)'
<1>1. /\ InTurn(c) /\ Turn(c) /\ conn[c] = "open" /\ OpenTurn(c) /\ NameOnly(c, cl[c].inbuf) /\ TypeOK
      /\ cl \in [Clients -> Struct] /\ cl[c] \in Struct
      /\ toServer \in [Clients -> Seq(Frame)]
  BY TurnFacts, ServedFacts
<1>2. PICK n \in ReadCounts(c, NameCap - cl[c].inbuf) :
        /\ cl' = [cl EXCEPT ![c].inbuf = @ + n]
        /\ toServer' = [toServer EXCEPT ![c] = AfterRead(@, n)]
  BY DEF ReadPartOfName
<1>3. /\ UNCHANGED <<conn, backlog, toClient, finished, file>>
      /\ cl'[c].state = "initial"
      /\ toServer'[c] = AfterRead(toServer[c], n)
  BY <1>1, <1>2 DEF ReadPartOfName, Struct
<1>4. toServer[c] = << >> => toServer'[c] = << >>
  <2>1. cl[c].inbuf \in Nat
    BY <1>1 DEF Struct
  <2>2. NameCap - cl[c].inbuf \in Int
    BY <2>1, NetAssumption
  <2>3. toServer[c] = << >> => AfterRead(toServer[c], n) = toServer[c]
    BY <1>1, <2>2, ReadResult
  <2> QED BY <1>3, <2>3
<1>5. OpenTurn(c)'
  <2>1. \/ snd[c].phase = "hello" /\ Quiet(c)
        \/ snd[c].phase = "waitC" /\ toClient[c] = << >>
    BY <1>1 DEF OpenTurn, BlockSent, EotSent
  <2> QED BY <1>3, <1>4, <2>1 DEF OpenTurn, Quiet
<1>6. AckUnderWay(c)' <=> AckUnderWay(c)
  BY <1>3 DEF AckUnderWay
<1>7. Stored(c)' = Stored(c)
  BY <1>3 DEF Stored
<1> QED BY <1>1, <1>3, <1>5, <1>6, <1>7, ServedTurn DEF Turn

\* The name ends: the client gets its 'C', and has nothing else under way.
LEMMA OpenFileTurn ==
  ASSUME TurnInv, UNCHANGED snd, NEW c \in Clients, server = "running", ~ Ended(c),
         cl[c].state = "initial", OpenFile(c)
  PROVE  InTurn(c)'
<1>1. /\ InTurn(c) /\ Turn(c) /\ conn[c] = "open" /\ OpenTurn(c) /\ NameOnly(c, cl[c].inbuf) /\ TypeOK
      /\ cl \in [Clients -> Struct] /\ cl[c] \in Struct /\ NameRead(c)
      /\ toServer \in [Clients -> Seq(Frame)] /\ toServer[c] \in Seq(Frame)
      /\ file \in [Clients -> FileState] /\ file[c] \in FileState
  BY TurnFacts, ServedFacts
<1>2. PICK n \in ReadCounts(c, NameCap - cl[c].inbuf), r \in OpenResults \ {"no_dir"} :
        /\ NewlineFound(c, cl[c].inbuf + n)
        /\ toServer' = [toServer EXCEPT ![c] = AfterRead(@, n)]
        /\ file' = [file EXCEPT ![c].name = cl[c].inbuf + n - 2]
        /\ cl' = [cl EXCEPT ![c].state = "pre_block", ![c].inbuf = 0,
                            ![c].current_block = 1, ![c].fp = r]
  BY DEF OpenFile
<1>3. /\ UNCHANGED <<conn, backlog, finished>>
      /\ cl'[c].state = "pre_block"
      /\ toServer'[c] = AfterRead(toServer[c], n)
      /\ Stored(c)' = Stored(c)
  <2>1. cl'[c].state = "pre_block"
    BY <1>1, <1>2 DEF Struct
  <2>2. file'[c].data = file[c].data
    BY <1>1, <1>2 DEF FileState
  <2> QED BY <1>1, <1>2, <2>1, <2>2 DEF OpenFile, Stored
<1>4. /\ cl[c].inbuf \in Nat /\ n \in Nat /\ NameLen[c] \in Nat
      /\ cl[c].inbuf + n = NameLen[c] + 2
      /\ n = 0 => AfterRead(toServer[c], n) = toServer[c]
      /\ n # 0 => toServer[c] # << >>
  <2>1. cl[c].inbuf \in Nat /\ NameLen[c] \in Nat
    BY <1>1, NetAssumption DEF Struct
  <2>2. NameCap - cl[c].inbuf \in Int
    BY <2>1, NetAssumption
  <2> QED BY <1>1, <1>2, <2>1, <2>2, ReadResult DEF NameRead, NewlineFound
<1>5. toClient[c] = << >> /\ toServer'[c] = << >>
  <2>1. CASE toServer[c] = << >>
    BY <1>1, <1>3, <1>4, <2>1 DEF NameOnly
  <2>2. CASE toServer[c] # << >>
    <3>1. /\ Len(toServer[c]) = 1 /\ toServer[c][1].left \in Nat \ {0}
          /\ toServer[c][1].left = NameLen[c] + 2 - cl[c].inbuf
      BY <1>1, <2>2 DEF NameOnly, Remains
    <3>2. n \in Nat \ {0} /\ n = toServer[c][1].left
      BY SMTT(30), <1>4, <3>1
    <3>3. Len(AfterRead(toServer[c], n)) = Len(toServer[c]) - 1
      <4>1. toServer[c] \in Seq(Frame) /\ n <= toServer[c][1].left
        BY <1>1, <3>1, <3>2
      <4> QED BY <2>2, <3>2, <4>1, ReadQueue
    <3>4. AfterRead(toServer[c], n) \in Seq(Frame)
      BY <1>1, <2>2, <3>2, AfterReadType
    <3>5. Len(AfterRead(toServer[c], n)) = 0
      BY <3>1, <3>3
    <3> QED BY <1>1, <1>3, <3>4, <3>5, EmptySeq DEF NameOnly
  <2> QED BY <2>1, <2>2
<1>6. Len(toClient'[c]) = 1 /\ toClient'[c] # << >> /\ toClient'[c][1].byte = "C"
  <2>1. toClient' = AfterWrite(c, "C", 0)
    BY DEF OpenFile
  <2> QED BY <1>1, <1>5, <2>1, ReplyToOpen
<1>7. snd[c].phase = "waitC"
  <2>1. snd[c].phase = "hello" => toServer[c] = << >> /\ cl[c].inbuf = 0
    BY <1>1 DEF NameOnly
  <2>2. snd[c].phase \in {"hello", "waitC"}
    BY <1>1 DEF OpenTurn, BlockSent, EotSent
  <2> QED BY <1>4, <2>1, <2>2
<1>8. OpenTurn(c)'
  BY <1>3, <1>5, <1>6, <1>7 DEF OpenTurn, Answered
<1>9. ~ AckUnderWay(c) /\ ~ AckUnderWay(c)'
  BY <1>7 DEF AckUnderWay
<1>10. snd[c].next = IF AckUnderWay(c)' THEN Stored(c)' ELSE Stored(c)' + 1
  BY <1>1, <1>3, <1>9 DEF Turn
<1> QED BY <1>1, <1>3, <1>8, <1>10, ServedTurn

\* In pre_block the byte read announces the block, or is the EOT.
LEMMA MarkTurn ==
  ASSUME TurnInv, UNCHANGED snd, NEW c \in Clients, server = "running", ~ Ended(c),
         cl[c].state = "pre_block", StartBlock(c) \/ EndOfTransmission(c) \/ NakMark(c)
  PROVE  InTurn(c)'
<1>1. /\ InTurn(c) /\ Turn(c) /\ conn[c] = "open" /\ OpenTurn(c) /\ TypeOK /\ SyncInv
      /\ c \in Allocated /\ cl \in [Clients -> Struct] /\ cl[c] \in Struct
      /\ toServer \in [Clients -> Seq(Frame)] /\ toServer[c] \in Seq(Frame)
  BY TurnFacts, ServedFacts
<1>2. PICK n \in ReadCounts(c, 1) :
        /\ toServer' = [toServer EXCEPT ![c] = AfterRead(@, n)]
        /\ \/ /\ ReadMark(c, n) \in {SOH, STX}
              /\ cl' = [cl EXCEPT ![c].state = "get_block",
                                  ![c].buf0 = ReadMark(c, n),
                                  ![c].blocksize = BlockSize(ReadMark(c, n))]
              /\ StartBlock(c)
           \/ /\ ReadMark(c, n) = EOT
              /\ cl' = [cl EXCEPT ![c].state = "finished", ![c].buf0 = EOT]
              /\ EndOfTransmission(c)
           \/ /\ ReadMark(c, n) \notin {SOH, STX, EOT}
              /\ NakMark(c)
  <2>1. CASE StartBlock(c)
    BY <2>1 DEF StartBlock
  <2>2. CASE EndOfTransmission(c)
    BY <2>2 DEF EndOfTransmission
  <2>3. CASE NakMark(c)
    BY <2>3 DEF NakMark
  <2> QED BY <2>1, <2>2, <2>3
<1>3. /\ n = 1 /\ toServer[c] # << >> /\ ReadMark(c, n) = toServer[c][1].mark
      /\ toServer[c][1].mark \in {SOH, STX, EOT, LF}
      /\ toServer[c][1].left \in Nat \ {0}
      /\ toServer[c][1].mark = EOT => toServer[c][1].left = 1
      /\ toServer[c][1].mark \in {SOH, STX} =>
           toServer[c][1].left = 1 + BlockSize(toServer[c][1].mark)
  BY <1>1, MarkRead DEF Remains
<1>4. /\ toClient[c] = << >> /\ Len(toServer[c]) = 1
      /\ \/ /\ snd[c].phase = "waitAck" /\ snd[c].next <= Blocks[c]
            /\ IsBlock(toServer[c][1]) /\ toServer[c][1].blk.idx = snd[c].next
         \/ /\ snd[c].phase = "waitEot" /\ snd[c].next > Blocks[c]
            /\ toServer[c][1].mark = EOT
  BY <1>1, <1>3 DEF OpenTurn, Quiet, Answered, BlockSent, EotSent
<1>5. toServer'[c] = AfterRead(toServer[c], n) /\ n \in Nat \ {0} /\ n <= toServer[c][1].left
  BY <1>1, <1>2, <1>3
<1>6. CASE IsBlock(toServer[c][1])
  <2>1. /\ cl' = [cl EXCEPT ![c].state = "get_block", ![c].buf0 = ReadMark(c, n),
                            ![c].blocksize = BlockSize(ReadMark(c, n))]
        /\ StartBlock(c)
    BY <1>2, <1>3, <1>6 DEF IsBlock, SOH, STX, EOT
  <2>2. /\ UNCHANGED <<server, conn, backlog, toClient, file, finished>>
    BY <2>1 DEF StartBlock
  <2>3. cl'[c].state = "get_block"
    BY <1>1, <2>1 DEF Struct
  <2>4. toServer[c][1].left # 1
    <3>1. BlockSize(toServer[c][1].mark) \in Nat \ {0}
      BY NetAssumption DEF BlockSize
    <3> QED BY <1>3, <1>6, <3>1 DEF IsBlock
  <2>5. /\ Len(toServer'[c]) = 1 /\ toServer'[c][1].mark = toServer[c][1].mark
        /\ toServer'[c][1].blk = toServer[c][1].blk
    BY <1>1, <1>3, <1>4, <1>5, <2>4, ReadQueue
  <2>6. snd[c].phase = "waitAck"
    BY <1>4, <1>6 DEF IsBlock, SOH, STX, EOT
  <2>7. OpenTurn(c)'
    BY <1>4, <1>6, <2>2, <2>3, <2>5, <2>6 DEF OpenTurn, BlockSent, IsBlock
  <2>8. AckUnderWay(c)' = AckUnderWay(c) /\ Stored(c)' = Stored(c)
    BY <2>2 DEF AckUnderWay, Stored
  <2> QED BY <1>1, <2>2, <2>7, <2>8, ServedTurn DEF Turn
<1>7. CASE toServer[c][1].mark = EOT
  <2>1. /\ cl' = [cl EXCEPT ![c].state = "finished", ![c].buf0 = EOT]
        /\ EndOfTransmission(c)
    BY <1>2, <1>3, <1>7 DEF SOH, STX, EOT
  <2>2. /\ UNCHANGED <<server, conn, backlog, toClient, file, finished>>
    BY <2>1 DEF EndOfTransmission
  <2>3. cl'[c].state = "finished"
    BY <1>1, <2>1 DEF Struct
  <2>4. toServer'[c] = << >>
    <3>1. Len(AfterRead(toServer[c], n)) = 0
      <4>1. toServer[c] \in Seq(Frame) /\ n = toServer[c][1].left /\ toServer[c] # << >>
        BY <1>1, <1>3, <1>7
      <4>2. Len(AfterRead(toServer[c], n)) = Len(toServer[c]) - 1
        BY <1>5, <4>1, ReadQueue
      <4> QED BY <1>4, <4>2
    <3>2. AfterRead(toServer[c], n) = Tail(toServer[c])
      BY <1>1, <1>3, <1>7 DEF AfterRead
    <3>3. AfterRead(toServer[c], n) \in Seq(Frame)
      BY <1>1, <1>3, <3>2, HeadTailProperties
    <3> QED BY <1>5, <3>1, <3>3, EmptySeq
  <2>5. snd[c].phase = "waitEot" /\ snd[c].next > Blocks[c]
    BY <1>4, <1>7 DEF IsBlock, SOH, STX, EOT
  <2>6. OpenTurn(c)'
    BY <1>4, <2>2, <2>3, <2>4, <2>5 DEF OpenTurn, EotSent
  <2>7. AckUnderWay(c)' = AckUnderWay(c) /\ Stored(c)' = Stored(c)
    BY <2>2 DEF AckUnderWay, Stored
  <2> QED BY <1>1, <2>2, <2>6, <2>7, ServedTurn DEF Turn
<1> QED BY <1>4, <1>6, <1>7

LEMMA OneFrame ==
  ASSUME NEW q \in Seq(Frame), Len(q) = 1
  PROVE  q # << >>
<1>1. 1 \in 1 .. Len(q) /\ ~ (1 \in 1 .. Len(<< >>))
  OBVIOUS
<1> QED BY <1>1

\* A part of the block, or the rest of it: then it is the one that is due.
LEMMA GetBlockTurn ==
  ASSUME TurnInv, UNCHANGED snd, NEW c \in Clients, server = "running", ~ Ended(c),
         cl[c].state = "get_block", GetBlock(c)
  PROVE  InTurn(c)'
<1> DEFINE size == cl[c].blocksize - cl[c].inbuf
<1>1. /\ InTurn(c) /\ Turn(c) /\ conn[c] = "open" /\ OpenTurn(c) /\ TypeOK
      /\ cl \in [Clients -> Struct] /\ cl[c] \in Struct /\ Framed(c)
      /\ toServer \in [Clients -> Seq(Frame)] /\ toServer[c] \in Seq(Frame)
      /\ Flow(c) /\ Stored(c) \in Nat
      /\ UNCHANGED <<server, conn, backlog, toClient, file, finished>>
  BY TurnFacts, ServedFacts DEF Opened, Transfer, Wedged, GetBlock
<1>2. /\ snd[c].phase = "waitAck" /\ snd[c].next <= Blocks[c] /\ BlockSent(c)
      /\ toClient[c] = << >> /\ Len(toServer[c]) = 1 /\ IsBlock(toServer[c][1])
      /\ toServer[c][1].blk.idx = snd[c].next /\ toServer[c] # << >>
  <2>1. /\ snd[c].phase = "waitAck" /\ snd[c].next <= Blocks[c] /\ BlockSent(c)
    BY <1>1 DEF OpenTurn, EotSent
  <2>2. Len(toServer[c]) = 1 => toServer[c] # << >>
    BY <1>1, OneFrame
  <2> QED BY <2>1, <2>2 DEF BlockSent
<1>3. /\ cl[c].inbuf \in Nat /\ cl[c].blocksize \in Nat /\ size \in Nat \ {0}
      /\ toServer[c][1].left = size
  <2>1. cl[c].inbuf \in Nat /\ cl[c].blocksize \in {0, SohSize, StxSize}
    BY <1>1 DEF Struct
  <2>2. cl[c].blocksize \in Nat
    BY <2>1, NetAssumption
  <2> QED BY <1>1, <1>2, <2>1, <2>2 DEF Framed, Remains
<1>4. PICK n \in ReadCounts(c, size) :
        LET full == cl[c].inbuf + n = cl[c].blocksize
            blk  == IF n = 0 THEN cl[c].blk ELSE Head(toServer[c]).blk IN
        /\ cl' = [cl EXCEPT ![c].inbuf = @ + n,
                            ![c].blk = blk,
                            ![c].buf0 = IF n = 0 THEN @ ELSE blk.num,
                            ![c].state = IF full THEN "check_block" ELSE @]
        /\ toServer' = [toServer EXCEPT ![c] = AfterRead(@, n)]
  BY DEF GetBlock
<1>5. n \in Nat \ {0} /\ n <= toServer[c][1].left
  BY <1>1, <1>2, <1>3, ReadResult
<1>6. /\ cl'[c].state = IF cl[c].inbuf + n = cl[c].blocksize THEN "check_block" ELSE "get_block"
      /\ cl'[c].current_block = cl[c].current_block
      /\ cl'[c].blk = toServer[c][1].blk
      /\ toServer'[c] = AfterRead(toServer[c], n)
  <2> DEFINE full == cl[c].inbuf + n = cl[c].blocksize
             blk == IF n = 0 THEN cl[c].blk ELSE Head(toServer[c]).blk
  <2>1. /\ cl'[c] = [cl[c] EXCEPT !.inbuf = @ + n, !.blk = blk,
                                  !.buf0 = IF n = 0 THEN @ ELSE blk.num,
                                  !.state = IF full THEN "check_block" ELSE @]
        /\ toServer'[c] = AfterRead(toServer[c], n)
    BY <1>1, <1>4
  <2>2. blk = toServer[c][1].blk
    BY <1>1, <1>2, <1>5
  <2>3. full <=> cl[c].inbuf + n = cl[c].blocksize
    OBVIOUS
  <2> HIDE DEF full, blk
  <2> QED BY <1>1, <2>1, <2>2, <2>3 DEF Struct
<1> HIDE DEF size
<1>7. CASE cl[c].inbuf + n # cl[c].blocksize
  <2>1. n # toServer[c][1].left
    BY <1>3, <1>5, <1>7 DEF size
  <2>2. /\ Len(toServer'[c]) = 1 /\ toServer'[c][1].mark = toServer[c][1].mark
        /\ toServer'[c][1].blk = toServer[c][1].blk
    BY <1>1, <1>2, <1>5, <1>6, <2>1, ReadQueue
  <2>3. OpenTurn(c)'
    BY <1>1, <1>2, <1>6, <1>7, <2>2 DEF OpenTurn, BlockSent, IsBlock
  <2>4. AckUnderWay(c)' = AckUnderWay(c) /\ Stored(c)' = Stored(c)
    BY <1>1 DEF AckUnderWay, Stored
  <2> QED BY <1>1, <2>3, <2>4, ServedTurn DEF Turn
<1>8. CASE cl[c].inbuf + n = cl[c].blocksize
  <2>1. n = toServer[c][1].left
    BY <1>3, <1>5, <1>8 DEF size
  <2>2. toServer'[c] = << >>
    <3>1. Len(AfterRead(toServer[c], n)) = 0
      <4>1. Len(AfterRead(toServer[c], n)) = Len(toServer[c]) - 1
        BY <1>1, <1>2, <1>5, <2>1, ReadQueue
      <4> QED BY <1>2, <4>1
    <3>2. AfterRead(toServer[c], n) = Tail(toServer[c])
      BY <1>1, <1>2, <1>5, <2>1 DEF AfterRead
    <3>3. AfterRead(toServer[c], n) \in Seq(Frame)
      BY <1>1, <1>2, <3>2, HeadTailProperties
    <3> QED BY <1>6, <3>1, <3>3, EmptySeq
  <2>3. cl'[c].blk.idx = snd[c].next /\ cl'[c].blk.num = cl'[c].current_block
    <3>1. snd[c].next = Stored(c) + 1
      BY <1>1, <1>2 DEF Turn, AckUnderWay
    <3>2. toServer[c][1].blk.num = toServer[c][1].blk.idx % (MaxByte + 1)
      <4>1. 1 \in 1 .. Len(toServer[c])
        BY <1>2
      <4> QED BY <1>1, <1>2, <4>1 DEF Flow, QueueOK, OnItsWay
    <3>3. cl[c].current_block = (Stored(c) + 1) % (MaxByte + 1)
      BY <1>1 DEF Flow, Numbers
    <3> QED BY <1>2, <1>6, <3>1, <3>2, <3>3
  <2>4. cl'[c].state = "check_block"
    BY <1>6, <1>8
  <2>5. OpenTurn(c)'
    BY <1>1, <1>2, <2>2, <2>3, <2>4 DEF OpenTurn, BlockSent
  <2>6. AckUnderWay(c)' = AckUnderWay(c) /\ Stored(c)' = Stored(c)
    BY <1>1 DEF AckUnderWay, Stored
  <2> QED BY <1>1, <2>5, <2>6, ServedTurn DEF Turn
<1> QED BY <1>7, <1>8

\* The block that is due is stored, and acknowledged; a damaged one is asked for
\* again; one whose number is wrong ends the transfer.
LEMMA CheckTurn ==
  ASSUME TurnInv, UNCHANGED snd, NEW c \in Clients, server = "running", ~ Ended(c),
         cl[c].state = "check_block"
  PROVE  /\ AcceptBlock(c) \/ NakBlock(c) \/ DropClient(c) => InTurn(c)'
         /\ ~ RepeatBlock(c)
<1>1. /\ InTurn(c) /\ Turn(c) /\ conn[c] = "open" /\ OpenTurn(c) /\ TypeOK /\ FileInv
      /\ c \in Allocated /\ cl \in [Clients -> Struct] /\ cl[c] \in Struct /\ Stored(c) \in Nat
      /\ file \in [Clients -> FileState] /\ file[c] \in FileState /\ file[c].data \in Seq(Nat)
      /\ conn \in [Clients -> ConnStates] /\ toServer \in [Clients -> Seq(Frame)]
      /\ Blocks[c] \in Nat
  BY TurnFacts, ServedFacts
<1>2. /\ snd[c].phase = "waitAck" /\ snd[c].next <= Blocks[c]
      /\ toClient[c] = << >> /\ toServer[c] = << >>
      /\ cl[c].blk.idx = snd[c].next /\ cl[c].blk.num = cl[c].current_block
      /\ snd[c].next = Stored(c) + 1
  <2>1. snd[c].phase = "waitAck" /\ snd[c].next <= Blocks[c] /\ BlockSent(c)
    BY <1>1 DEF OpenTurn, EotSent
  <2>2. toClient[c] = << >>
    BY <2>1 DEF BlockSent
  <2>3. snd[c].next = Stored(c) + 1
    BY <1>1, <2>2 DEF Turn, AckUnderWay
  <2> QED BY <2>1, <2>2, <2>3 DEF BlockSent
<1>3. ~ RepeatBlock(c)
  <2>1. cl[c].current_block \in Int
    BY <1>1 DEF Struct, Bytes
  <2> QED BY <1>2, <2>1 DEF RepeatBlock
<1>4. ASSUME NakBlock(c) PROVE InTurn(c)'
  <2>1. UNCHANGED <<conn, backlog, toServer, file, finished>> /\ cl'[c].state = "pre_block"
    BY <1>1, <1>4 DEF NakBlock, Struct
  <2>2. Len(toClient'[c]) = 1 /\ toClient'[c] # << >> /\ toClient'[c][1].byte = "NAK"
    <3>1. cl[c].blk.idx \in Nat /\ toClient' = AfterWrite(c, "NAK", cl[c].blk.idx)
      BY <1>1, <1>4 DEF NakBlock, Struct, Block
    <3> QED BY <1>1, <1>2, <3>1, ReplyToOpen
  <2>3. OpenTurn(c)'
    BY <1>2, <2>1, <2>2 DEF OpenTurn, Answered
  <2>4. ~ AckUnderWay(c)' /\ Stored(c)' = Stored(c)
    BY <2>1, <2>2 DEF AckUnderWay, Stored
  <2> QED BY <1>1, <1>2, <2>1, <2>3, <2>4, ServedTurn
<1>5. ASSUME AcceptBlock(c) PROVE InTurn(c)'
  <2>1. Payload(cl[c].blk) = Stored(c) + 1 /\ Stored(c) + 1 <= Blocks[c]
    BY <1>1, <1>5, ExpectedIsNext DEF AcceptBlock
  <2>2. /\ UNCHANGED <<conn, backlog, toServer, finished>> /\ cl'[c].state = "pre_block"
        /\ file' = [file EXCEPT ![c].data = Append(@, Stored(c) + 1)]
    BY <1>1, <1>5, <2>1 DEF AcceptBlock, Struct
  <2>3. Len(toClient'[c]) = 1 /\ toClient'[c] # << >> /\ toClient'[c][1].byte = "ACK"
    <3>1. cl[c].blk.idx \in Nat /\ toClient' = AfterWrite(c, "ACK", cl[c].blk.idx)
      BY <1>1, <1>5 DEF AcceptBlock, Struct, Block
    <3> QED BY <1>1, <1>2, <3>1, ReplyToOpen
  <2>4. OpenTurn(c)' /\ AckUnderWay(c)'
    BY <1>1, <1>2, <2>2, <2>3 DEF OpenTurn, Answered, AckUnderWay
  <2>5. Stored(c)' = Stored(c) + 1
    <3>1. file'[c].data = Append(file[c].data, Stored(c) + 1)
      BY <1>1, <2>2 DEF FileState
    <3>2. Stored(c) + 1 \in Nat
      BY <1>1
    <3>3. Len(Append(file[c].data, Stored(c) + 1)) = Len(file[c].data) + 1
      BY <1>1, <3>2, AppendProperties
    <3> QED BY <3>1, <3>3 DEF Stored
  <2> QED BY <1>1, <1>2, <2>2, <2>4, <2>5, ServedTurn
<1>6. ASSUME DropClient(c) PROVE InTurn(c)'
  <2>1. /\ UNCHANGED <<server, backlog, toClient, file, finished>>
        /\ conn'[c] = "dropped" /\ toServer'[c] = << >> /\ cl'[c] = FreeStruct
    BY <1>1, <1>6 DEF DropClient, Drop
  <2>2. /\ cl'[c].state = "free" /\ Stored(c)' = Stored(c) /\ ~ AckUnderWay(c)'
        /\ DroppedTurn(c)'
    BY <1>2, <2>1 DEF FreeStruct, Stored, AckUnderWay, DroppedTurn
  <2>3. \A i \in 1 .. Len(backlog') : backlog'[i] # c
    BY <1>1, <2>1 DEF FileInv, SyncInv, ListInv, BacklogFresh, Allocated
  <2> QED BY <1>1, <1>2, <2>1, <2>2, <2>3 DEF InTurn, Turn, Ended
<1> QED BY <1>3, <1>4, <1>5, <1>6

\* The EOT is acknowledged, and the client let go; unless its FILE pointer is
\* null, and the process ends.
LEMMA FinishTurn ==
  ASSUME TurnInv, UNCHANGED snd, NEW c \in Clients, server = "running", ~ Ended(c),
         cl[c].state = "finished", Finish(c)
  PROVE  InTurn(c)'
<1>1. /\ InTurn(c) /\ Turn(c) /\ conn[c] = "open" /\ OpenTurn(c) /\ TypeOK /\ FileInv
      /\ c \in Allocated /\ cl \in [Clients -> Struct] /\ Stored(c) \in Nat
      /\ conn \in [Clients -> ConnStates] /\ toServer \in [Clients -> Seq(Frame)]
      /\ Len(file[c].data) + 1 \in Nat
  BY TurnFacts, ServedFacts DEF Stored
<1>2. /\ snd[c].phase = "waitEot" /\ snd[c].next > Blocks[c]
      /\ toClient[c] = << >> /\ toServer[c] = << >>
  BY <1>1 DEF OpenTurn, EotSent, BlockSent
<1>3. /\ UNCHANGED <<file, backlog>> /\ c \in finished'
      /\ toClient' = AfterWrite(c, "ACK", Len(file[c].data) + 1)
      /\ \/ server' = "running" /\ Drop(c)
         \/ server' # "running" /\ UNCHANGED <<cl, conn, toServer>>
  BY <1>1 DEF Finish, WriteOutcomes
<1>4. Len(toClient'[c]) = 1 /\ toClient'[c] # << >> /\ toClient'[c][1].byte = "ACK"
  BY <1>1, <1>2, <1>3, ReplyToOpen
<1>5. Stored(c)' = Stored(c) /\ ~ AckUnderWay(c) /\ ~ AckUnderWay(c)'
  BY <1>2, <1>3 DEF Stored, AckUnderWay
<1>6. CASE server' = "running" /\ Drop(c)
  <2>1. conn'[c] = "dropped" /\ toServer'[c] = << >> /\ cl'[c].state = "free"
    BY <1>1, <1>6 DEF Drop, FreeStruct
  <2>2. DroppedTurn(c)'
    BY <1>2, <1>3, <1>4, <2>1 DEF DroppedTurn, Answered
  <2>3. \A i \in 1 .. Len(backlog') : backlog'[i] # c
    BY <1>1, <1>3 DEF FileInv, SyncInv, ListInv, BacklogFresh, Allocated
  <2> QED BY <1>1, <1>2, <1>5, <2>1, <2>2, <2>3 DEF InTurn, Turn, Ended
<1>7. CASE server' # "running" /\ UNCHANGED <<cl, conn, toServer>>
  <2>1. OpenTurn(c)'
    BY <1>2, <1>3, <1>4, <1>7 DEF OpenTurn, Answered
  <2>2. snd[c].next = IF AckUnderWay(c)' THEN Stored(c)' ELSE Stored(c)' + 1
    BY <1>1, <1>5 DEF Turn
  <2> QED BY <1>1, <1>3, <1>7, <2>1, <2>2, ServedTurn
<1> QED BY <1>3, <1>6, <1>7

\* Files and the set of those that are finished only grow.
LEMMA ServeGrows ==
  ASSUME TypeOK, TypeOK', NEW c \in Clients, Serve(c)
  PROVE  Stored(c)' >= Stored(c) /\ (c \in finished => c \in finished')
<1>1. /\ file \in [Clients -> FileState] /\ file[c].data \in Seq(Nat) /\ Stored(c) \in Nat
      /\ file' \in [Clients -> FileState] /\ file'[c].data \in Seq(Nat)
  BY DEF TypeOK, ServerTypeOK, FileState, Stored
<1>2. c \in finished => c \in finished'
  BY DEF Serve, SkipClient, VisitClient, ReadPartOfName, OpenFile, NoDirectory, StartBlock,
         EndOfTransmission, NakMark, GetBlock, DropClient, AcceptBlock, NakBlock,
         RepeatBlock, StoreFails, NullFile, Finish, ReadError
<1>3. CASE AcceptBlock(c)
  <2>1. file'[c].data = Append(file[c].data, Payload(cl[c].blk))
    BY <1>1, <1>3 DEF AcceptBlock, FileState
  <2>2. Payload(cl[c].blk) \in Nat
    BY DEF TypeOK, ServerTypeOK, Struct, Block, Payload
  <2>3. Len(file'[c].data) = Len(file[c].data) + 1
    BY <1>1, <2>1, <2>2, AppendProperties
  <2> QED BY <1>1, <1>2, <2>3 DEF Stored
<1>4. CASE OpenFile(c)
  <2>1. PICK k : file' = [file EXCEPT ![c].name = k]
    BY <1>4 DEF OpenFile
  <2>2. file'[c].data = file[c].data
    BY <1>1, <2>1 DEF FileState
  <2> QED BY <1>1, <1>2, <2>2 DEF Stored
<1>5. CASE ~ AcceptBlock(c) /\ ~ OpenFile(c)
  <2>1. file' = file
    BY <1>5 DEF Serve, SkipClient, VisitClient, ReadPartOfName, NoDirectory, StartBlock,
                EndOfTransmission, NakMark, GetBlock, DropClient, NakBlock,
                RepeatBlock, StoreFails, NullFile, Finish, ReadError
  <2> QED BY <1>1, <1>2, <2>1 DEF Stored
<1> QED BY <1>3, <1>4, <1>5

\* A step of the server that serves c.
LEMMA ServeTurn ==
  ASSUME TurnInv, TypeOK', UNCHANGED snd, NEW c \in Clients, Serve(c)
  PROVE  InTurn(c)'
<1>1. /\ InTurn(c) /\ server = "running" /\ TypeOK
      /\ pc \notin {"select", "scan"} /\ cursor = c => cl[c].state = pc /\ pc # "free"
      /\ Stored(c) \in Nat /\ snd[c].next \in Nat
  <2>1. server = "running"
    BY ServedRunning
  <2>2. pc # "free"
    BY TurnFacts DEF TypeOK, ServerTypeOK, PCs, RecStates
  <2> QED BY <2>1, <2>2, TurnFacts DEF FileInv, SyncInv, ListInv, CursorLive
<1>2. CASE Ended(c)
  <2>1. Stored(c)' >= Stored(c) /\ (c \in finished => c \in finished')
    BY <1>1, ServeGrows
  <2>2. Stored(c)' \in Nat
    BY DEF TypeOK, ServerTypeOK, FileState, Stored
  <2> QED BY <1>1, <1>2, <2>1, <2>2 DEF InTurn, Over, Ended
<1> SUFFICES ASSUME ~ Ended(c) PROVE InTurn(c)'
  BY <1>2
<1>3. Turn(c)
  BY <1>1 DEF InTurn
<1>4. CASE SkipClient(c) \/ VisitClient(c) \/ NoDirectory(c) \/ StoreFails(c) \/ NullFile(c)
  <2>1. UNCHANGED <<cl, file, finished, netVars>>
    BY <1>4 DEF SkipClient, VisitClient, NoDirectory, StoreFails, NullFile
  <2>2. \A i \in 1 .. Len(backlog') : backlog'[i] = c => conn[c] = "open"
    BY <1>3, <2>1 DEF Turn, netVars
  <2> QED BY <1>1, <2>1, <2>2, OtherTurn DEF netVars
<1>5. CASE ReadPartOfName(c) \/ OpenFile(c)
  <2>1. cl[c].state = "initial"
    BY <1>1, <1>5 DEF ReadPartOfName, OpenFile, At
  <2> QED BY <1>1, <1>5, <2>1, ReadNameTurn, OpenFileTurn
<1>6. CASE StartBlock(c) \/ EndOfTransmission(c) \/ NakMark(c)
  <2>1. cl[c].state = "pre_block"
    BY <1>1, <1>6 DEF StartBlock, EndOfTransmission, NakMark, At
  <2> QED BY <1>1, <1>6, <2>1, MarkTurn
<1>7. CASE GetBlock(c)
  <2>1. cl[c].state = "get_block"
    BY <1>1, <1>7 DEF GetBlock, At
  <2> QED BY <1>1, <1>7, <2>1, GetBlockTurn
<1>8. CASE DropClient(c) \/ AcceptBlock(c) \/ NakBlock(c) \/ RepeatBlock(c)
  <2>1. cl[c].state = "check_block"
    BY <1>1, <1>8 DEF DropClient, AcceptBlock, NakBlock, RepeatBlock, At
  <2> QED BY <1>1, <1>8, <2>1, CheckTurn
<1>9. CASE Finish(c)
  <2>1. cl[c].state = "finished"
    BY <1>1, <1>9 DEF Finish, At
  <2> QED BY <1>1, <1>9, <2>1, FinishTurn
<1>10. CASE ReadError(c)
  <2>1. conn[c] = "closed"
    BY <1>10 DEF ReadError
  <2> QED BY <1>3, <2>1 DEF Turn
<1> QED BY <1>4, <1>5, <1>6, <1>7, <1>8, <1>9, <1>10 DEF Serve

\* accept(2) gives a struct to a client that has at most sent its name.
LEMMA AcceptTurn ==
  ASSUME TurnInv, UNCHANGED snd, Accept, NEW d \in Clients
  PROVE  InTurn(d)'
<1>1. /\ InTurn(d) /\ Framing(d) /\ server = "running" /\ TypeOK
      /\ cl \in [Clients -> Struct] /\ backlog \in Seq(Clients) /\ backlog # << >>
      /\ UNCHANGED <<server, file, finished, conn, toServer, toClient>>
      /\ backlog' = Tail(backlog)
  BY TurnFacts DEF TurnInv, Accept, TypeOK, NetTypeOK
<1>2. /\ 1 \in 1 .. Len(backlog) /\ Head(backlog) = backlog[1]
      /\ \A i \in 1 .. Len(backlog') : i + 1 \in 1 .. Len(backlog) /\ backlog'[i] = backlog[i + 1]
  BY <1>1, HeadTailProperties
<1>3. CASE Ended(d)
  BY <1>1, <1>3 DEF InTurn, Over, Ended, Stored
<1> SUFFICES ASSUME ~ Ended(d) PROVE InTurn(d)'
  BY <1>3
<1>4. Turn(d) /\ \A i \in 1 .. Len(backlog') : backlog'[i] = d => conn[d] = "open"
  BY <1>1, <1>2 DEF InTurn, Turn
<1>5. PICK byte \in JunkBytes, lf \in JunkLFs :
        cl' = [cl EXCEPT ![Head(backlog)] = [FreeStruct EXCEPT !.state = "initial",
                                              !.buf0 = byte, !.junkLF = lf]]
  BY DEF Accept
<1>6. CASE d # Head(backlog)
  <2>1. cl'[d] = cl[d]
    BY <1>1, <1>5, <1>6
  <2> QED BY <1>1, <1>4, <2>1, OtherTurn
<1>7. CASE d = Head(backlog)
  <2>1. cl'[d].state = "initial"
    BY <1>1, <1>5, <1>7 DEF FreeStruct
  <2>2. conn[d] = "open" /\ OpenTurn(d) /\ cl[d].state = "free"
    BY <1>1, <1>2, <1>7, <1>4 DEF Turn, TurnInv, FileInv, SyncInv, ListInv, BacklogFresh
  <2>3. /\ toClient[d] = << >>
        /\ \/ snd[d].phase = "hello" /\ Quiet(d)
           \/ snd[d].phase = "waitC"
    BY <1>1, <2>2 DEF OpenTurn, BlockSent, EotSent, Quiet
  <2>4. OpenTurn(d)'
    BY <1>1, <2>1, <2>3 DEF OpenTurn, Quiet
  <2>5. Stored(d)' = Stored(d) /\ AckUnderWay(d)' = AckUnderWay(d)
    BY <1>1 DEF Stored, AckUnderWay
  <2> QED BY <1>1, <1>4, <2>1, <2>2, <2>4, <2>5 DEF InTurn, Turn, Ended
<1> QED BY <1>6, <1>7

-----------------------------------------------------------------------------
(* In turn: the clients' steps.                                            *)

\* What a step of c leaves, whatever it is.
LEMMA ClientTurnFacts ==
  ASSUME TurnInv, UNCHANGED serverVars, NEW c \in Clients,
         Progress(c) \/ NoticeEnd(c, server = "running")
  PROVE  /\ UNCHANGED <<cl, file, finished, server>> /\ Stored(c)' = Stored(c)
         /\ \A i \in 1 .. Len(backlog') : backlog'[i] = c => conn[c] = "open" \/ Connect(c)
         /\ snd \in [Clients -> Sender] /\ conn \in [Clients -> ConnStates]
         /\ toServer \in [Clients -> Seq(Frame)] /\ toClient \in [Clients -> Seq(Reply)]
         /\ toServer[c] \in Seq(Frame) /\ toClient[c] \in Seq(Reply)
         /\ snd[c] \in Sender /\ snd[c].next \in Nat /\ Stored(c) \in Nat /\ Blocks[c] \in Nat
         /\ Turn(c) /\ Framing(c)
<1>1. ~ Ended(c)
  BY DEF Ended, Progress, NoticeEnd, Connect, SendName, SendBlock, SendEot, ReceiveC, ReceiveAck,
         ReceiveNak, ReceiveDone
<1>2. Turn(c) /\ TypeOK
  BY <1>1, TurnFacts DEF InTurn
<1>3. \A i \in 1 .. Len(backlog') : backlog'[i] = c => conn[c] = "open" \/ Connect(c)
  BY <1>2, BacklogGrows DEF Turn
<1> QED BY <1>2, <1>3, TurnFacts DEF serverVars, Stored

\* The connection and the name.
LEMMA HelloTurn ==
  ASSUME TurnInv, UNCHANGED serverVars, NEW c \in Clients, Connect(c) \/ SendName(c)
  PROVE  InTurn(c)'
<1>1. Progress(c)
  BY DEF Progress
<1>2. CASE Connect(c)
  <2>1. /\ snd[c].phase = "idle" /\ snd'[c].phase = "hello" /\ snd'[c].next = snd[c].next
        /\ conn'[c] = "open" /\ UNCHANGED <<toServer, toClient, cl, file, finished>>
    BY <1>1, <1>2, ClientTurnFacts DEF Connect, Sender
  <2>2. conn[c] = "none" /\ cl[c].state = "free" /\ Quiet(c) /\ Turn(c)
    BY <1>1, <2>1, ClientTurnFacts DEF Turn, Framing, NameOnly, Quiet
  <2>3. OpenTurn(c)'
    BY <2>1, <2>2 DEF OpenTurn, Quiet
  <2>4. ~ AckUnderWay(c) /\ ~ AckUnderWay(c)' /\ Stored(c)' = Stored(c)
    BY <2>1, <2>2 DEF AckUnderWay, Stored
  <2>5. snd'[c].next = Stored(c)' + 1 /\ snd'[c].next <= Blocks[c] + 1
    BY <1>1, <2>1, <2>4, ClientTurnFacts DEF Turn
  <2> QED BY <2>1, <2>2, <2>3, <2>4, <2>5 DEF InTurn, Turn, Ended
<1>3. CASE SendName(c)
  <2>1. /\ snd[c].phase = "hello" /\ snd'[c].phase = "waitC" /\ snd'[c].next = snd[c].next
        /\ UNCHANGED <<conn, backlog, toClient, cl, file, finished>>
    BY <1>1, <1>3, ClientTurnFacts DEF SendName, Sender
  <2>2. conn[c] = "open" /\ OpenTurn(c) /\ Turn(c)
    BY <1>1, <2>1, ClientTurnFacts DEF Turn, DroppedTurn, ConnStates
  <2>3. OpenTurn(c)'
    BY <2>1, <2>2 DEF OpenTurn, Quiet
  <2>4. ~ AckUnderWay(c) /\ ~ AckUnderWay(c)' /\ Stored(c)' = Stored(c)
    BY <2>1 DEF AckUnderWay, Stored
  <2>5. snd'[c].next = Stored(c)' + 1 /\ snd'[c].next <= Blocks[c] + 1
    BY <2>1, <2>2, <2>4 DEF Turn
  <2> QED BY <2>1, <2>2, <2>3, <2>4, <2>5 DEF InTurn, Turn, Ended
<1> QED BY <1>2, <1>3

\* A block, or the EOT: nothing else is under way when it is sent.
LEMMA SendTurn ==
  ASSUME TurnInv, UNCHANGED serverVars, NEW c \in Clients,
         SendEot(c) \/ \E mark \in Marks, damage \in Damage : SendBlock(c, mark, damage)
  PROVE  InTurn(c)'
<1>1. Progress(c)
  BY DEF Progress
<1>2. PICK f \in Frame :
        /\ snd[c].phase = "send" /\ snd'[c].next = snd[c].next
        /\ toServer' = IF conn[c] = "open" THEN [toServer EXCEPT ![c] = Append(@, f)] ELSE toServer
        /\ UNCHANGED <<conn, backlog, toClient, cl, file, finished>>
        /\ \/ /\ snd[c].next <= Blocks[c] /\ snd'[c].phase = "waitAck"
              /\ IsBlock(f) /\ f.blk.idx = snd[c].next
           \/ /\ snd[c].next > Blocks[c] /\ snd'[c].phase = "waitEot"
              /\ f.mark = EOT
  <2>1. CASE SendEot(c)
    <3>1. EotFrame \in Frame /\ EotFrame.mark = EOT
      BY FrameType DEF EotFrame
    <3> QED BY <1>1, <2>1, <3>1, ClientTurnFacts DEF SendEot, Send, Sender
  <2>2. ASSUME NEW mark \in Marks, NEW damage \in Damage, SendBlock(c, mark, damage)
        PROVE  \E f \in Frame :
          /\ snd[c].phase = "send" /\ snd'[c].next = snd[c].next
          /\ toServer' = IF conn[c] = "open" THEN [toServer EXCEPT ![c] = Append(@, f)]
                         ELSE toServer
          /\ UNCHANGED <<conn, backlog, toClient, cl, file, finished>>
          /\ snd[c].next <= Blocks[c] /\ snd'[c].phase = "waitAck"
          /\ IsBlock(f) /\ f.blk.idx = snd[c].next
    <3> DEFINE f == BlockFrame(mark, FileBlock(snd[c].next, damage))
    <3>1. f \in Frame
      BY <1>1, ClientTurnFacts, FrameType, FileBlockType
    <3>2. IsBlock(f) /\ f.blk.idx = snd[c].next
      BY SenderAssumption DEF IsBlock, BlockFrame, FileBlock
    <3>3. toServer' = IF conn[c] = "open" THEN [toServer EXCEPT ![c] = Append(@, f)] ELSE toServer
      BY <2>2 DEF SendBlock, Send
    <3> HIDE DEF f
    <3> QED BY ZenonT(40), <1>1, <2>2, <3>1, <3>2, <3>3, ClientTurnFacts DEF SendBlock, Sender
  <2> QED BY <2>1, <2>2
<1>3. conn[c] = "open" /\ OpenTurn(c) /\ Turn(c)
  BY <1>1, <1>2, ClientTurnFacts DEF Turn, DroppedTurn, ConnStates
<1>4. cl[c].state = "pre_block" /\ Quiet(c)
  BY <1>2, <1>3 DEF OpenTurn
<1>5. Len(toServer'[c]) = 1 /\ toServer'[c][1] = f
  <2>1. toServer'[c] = Append(<< >>, f)
    BY <1>1, <1>2, <1>3, <1>4, ClientTurnFacts DEF Quiet
  <2> QED BY <2>1
<1>6. OpenTurn(c)'
  BY <1>2, <1>4, <1>5 DEF OpenTurn, BlockSent, EotSent, Quiet, IsBlock
<1>7. ~ AckUnderWay(c) /\ ~ AckUnderWay(c)' /\ Stored(c)' = Stored(c)
  BY <1>2, <1>4 DEF AckUnderWay, Quiet, Stored
<1>8. snd'[c].next = Stored(c)' + 1 /\ snd'[c].next <= Blocks[c] + 1
  BY <1>2, <1>3, <1>7 DEF Turn
<1> QED BY <1>2, <1>3, <1>6, <1>7, <1>8 DEF InTurn, Turn, Ended

LEMMA LastReply ==
  ASSUME NEW q \in Seq(Reply), Len(q) = 1
  PROVE  Tail(q) = << >>
<1>1. q # << >>
  OBVIOUS
<1>2. Tail(q) \in Seq(Reply) /\ Len(Tail(q)) = 0
  BY <1>1, HeadTailProperties
<1> QED BY <1>2, EmptySeq

\* A reply ends the wait, and was the only one.
LEMMA ReceiveTurn ==
  ASSUME TurnInv, UNCHANGED serverVars, NEW c \in Clients,
         ReceiveC(c) \/ ReceiveAck(c) \/ ReceiveNak(c) \/ ReceiveDone(c)
  PROVE  InTurn(c)'
<1>1. Progress(c)
  BY DEF Progress
<1>2. /\ toClient[c] # << >> /\ Head(toClient[c]) = toClient[c][1]
      /\ toClient'[c] = Tail(toClient[c])
      /\ UNCHANGED <<backlog, toServer, cl, file, finished>>
      /\ Turn(c) /\ Stored(c)' = Stored(c)
      /\ snd[c].next \in Nat /\ Stored(c) \in Nat /\ Blocks[c] \in Nat
      /\ toClient[c] \in Seq(Reply)
  <2>1. /\ UNCHANGED <<cl, file, finished>> /\ Turn(c) /\ Stored(c)' = Stored(c)
        /\ snd[c].next \in Nat /\ Stored(c) \in Nat /\ Blocks[c] \in Nat
        /\ toClient \in [Clients -> Seq(Reply)] /\ toClient[c] \in Seq(Reply)
    BY <1>1, ClientTurnFacts
  <2>2. /\ toClient[c] # << >> /\ UNCHANGED <<backlog, toServer>>
        /\ toClient' = [toClient EXCEPT ![c] = Tail(@)]
    BY DEF ReceiveC, ReceiveAck, ReceiveNak, ReceiveDone, Receive
  <2>3. Head(toClient[c]) = toClient[c][1]
    BY <2>1, <2>2
  <2> QED BY <2>1, <2>2, <2>3
<1>3. Len(toClient[c]) = 1 => toClient'[c] = << >>
  BY <1>2, LastReply
<1>4. CASE ReceiveC(c)
  <2>1. /\ snd[c].phase = "waitC" /\ conn' = conn /\ snd'[c].phase = "send"
        /\ snd'[c].next = snd[c].next
    BY <1>1, <1>4, ClientTurnFacts DEF ReceiveC, Sender
  <2>2. conn[c] = "open" /\ OpenTurn(c)
    BY <1>1, <1>2, <2>1, ClientTurnFacts DEF Turn, DroppedTurn, ConnStates
  <2>3. cl[c].state = "pre_block" /\ toServer[c] = << >> /\ Len(toClient[c]) = 1
    BY <1>2, <2>1, <2>2 DEF OpenTurn, Answered
  <2>4. OpenTurn(c)'
    BY <1>2, <1>3, <2>1, <2>3 DEF OpenTurn, Quiet
  <2>5. ~ AckUnderWay(c) /\ ~ AckUnderWay(c)'
    BY <2>1 DEF AckUnderWay
  <2> QED BY <1>2, <2>1, <2>2, <2>4, <2>5 DEF InTurn, Turn, Ended
<1>5. CASE ReceiveAck(c) \/ (ReceiveNak(c) /\ snd[c].phase = "waitAck")
  <2>1. /\ snd[c].phase = "waitAck" /\ conn' = conn /\ snd'[c].phase = "send"
    BY <1>1, <1>5, ClientTurnFacts DEF ReceiveAck, ReceiveNak, Sender
  <2>2. conn[c] = "open" /\ OpenTurn(c)
    BY <1>1, <1>2, <2>1, ClientTurnFacts DEF Turn, DroppedTurn, ConnStates
  <2>3. /\ cl[c].state = "pre_block" /\ toServer[c] = << >> /\ Len(toClient[c]) = 1
        /\ snd[c].next <= Blocks[c]
    BY <1>2, <2>1, <2>2 DEF OpenTurn, Answered, BlockSent
  <2>4. OpenTurn(c)'
    BY <1>2, <1>3, <2>1, <2>3 DEF OpenTurn, Quiet
  <2>5. ~ AckUnderWay(c)'
    BY <2>1 DEF AckUnderWay
  <2>6. snd'[c].next = Stored(c) + 1
    <3>1. CASE ReceiveAck(c)
      <4>1. AckUnderWay(c)
        BY <1>2, <2>1, <2>2, <3>1 DEF AckUnderWay, ReceiveAck
      <4>2. snd'[c].next = snd[c].next + 1
        BY <1>1, <3>1, ClientTurnFacts DEF ReceiveAck, Sender
      <4> QED BY <1>2, <4>1, <4>2 DEF Turn
    <3>2. CASE ReceiveNak(c)
      <4>1. ~ AckUnderWay(c)
        BY <1>2, <3>2 DEF AckUnderWay, ReceiveNak
      <4>2. snd'[c].next = snd[c].next
        BY <1>1, <3>2, ClientTurnFacts DEF ReceiveNak, Sender
      <4> QED BY <1>2, <4>1, <4>2 DEF Turn
    <3> QED BY <1>5, <3>1, <3>2
  <2>7. snd'[c].next <= Blocks[c] + 1
    <3>1. snd'[c].next = snd[c].next \/ snd'[c].next = snd[c].next + 1
      BY <1>1, <1>5, ClientTurnFacts DEF ReceiveAck, ReceiveNak, Sender
    <3> QED BY <1>2, <2>3, <3>1
  <2> QED BY <1>2, <2>1, <2>2, <2>4, <2>5, <2>6, <2>7 DEF InTurn, Turn, Ended
<1>6. ~ (ReceiveNak(c) /\ snd[c].phase = "waitEot")
  <2> SUFFICES ASSUME ReceiveNak(c), snd[c].phase = "waitEot" PROVE FALSE
    OBVIOUS
  <2>1. toClient[c][1].byte = "NAK"
    BY <1>2 DEF ReceiveNak
  <2>2. conn[c] # "open"
    BY <1>2, <2>1 DEF Turn, OpenTurn, EotSent, Answered
  <2>3. conn[c] # "dropped"
    BY <1>2, <2>1 DEF Turn, DroppedTurn, Answered
  <2> QED BY <1>1, <1>2, <2>2, <2>3, ClientTurnFacts DEF Turn, ConnStates
<1>7. CASE ReceiveDone(c)
  <2>1. /\ snd[c].phase = "waitEot" /\ snd'[c].phase = "done" /\ snd'[c].next = snd[c].next
    BY <1>1, <1>7, ClientTurnFacts DEF ReceiveDone, Sender
  <2>2. c \in finished
    <3>1. conn[c] \in {"open", "dropped"}
      BY <1>1, <1>2, <2>1, ClientTurnFacts DEF Turn, ConnStates
    <3> QED BY <1>2, <2>1, <3>1 DEF Turn, OpenTurn, DroppedTurn, EotSent
  <2>3. snd[c].next <= Stored(c) + 1
    BY <1>2 DEF Turn
  <2> QED BY <1>2, <2>1, <2>2, <2>3 DEF InTurn, Over, Ended
<1>8. ReceiveNak(c) => snd[c].phase \in {"waitAck", "waitEot"}
  BY DEF ReceiveNak
<1> QED BY <1>4, <1>5, <1>6, <1>7, <1>8

LEMMA ClientTurn ==
  ASSUME TurnInv, ClientsWait, UNCHANGED serverVars, NEW c \in Clients,
         Progress(c) \/ NoticeEnd(c, server = "running") \/ Fault(c)
  PROVE  InTurn(c)'
<1>1. CASE Progress(c)
  BY <1>1, HelloTurn, SendTurn, ReceiveTurn DEF Progress
<1>2. CASE NoticeEnd(c, server = "running") \/ Disconnect(c)
  <2>1. ~ Ended(c) /\ snd \in [Clients -> Sender] /\ InTurn(c)
    BY <1>2, TurnFacts DEF NoticeEnd, Disconnect, Ended
  <2>2. snd'[c].phase = "gone" /\ snd'[c].next = snd[c].next /\ file' = file
    BY <1>2, <2>1 DEF NoticeEnd, Disconnect, Sender, serverVars
  <2>3. snd[c].next <= Stored(c) + 1
    <3>1. Stored(c) \in Nat
      BY TurnFacts
    <3> QED BY <2>1, <3>1 DEF InTurn, Turn
  <2> QED BY <2>2, <2>3 DEF InTurn, Over, Ended, Stored
<1>3. ~ Timeout(c)
  BY DEF ClientsWait, Timeout, MayFail
<1> QED BY <1>1, <1>2, <1>3 DEF Fault

----------------------------------------------------------------------------

LEMMA InitTurnInv == Init => TurnInv
<1> SUFFICES ASSUME Init PROVE TurnInv
  OBVIOUS
<1>1. FileInv /\ NameInv
  BY InitFileInv, InitNameInv
<1>2. ASSUME NEW c \in Clients PROVE InTurn(c)
  <2>1. /\ conn[c] = "none" /\ snd[c].phase = "idle" /\ snd[c].next = 1 /\ cl[c] = FreeStruct
        /\ file[c].data = << >> /\ finished = {} /\ backlog = << >>
    BY DEF Init, NetInit, ServerInit, SenderInit
  <2>2. Stored(c) = 0 /\ ~ AckUnderWay(c) /\ Blocks[c] \in Nat /\ cl[c].state = "free"
    BY <2>1, NetAssumption DEF Stored, AckUnderWay, FreeStruct
  <2> QED BY <2>1, <2>2 DEF InTurn, Turn, Ended
<1> QED BY <1>1, <1>2 DEF TurnInv

LEMMA TurnInvPreserved ==
  ASSUME ClientsWait
  PROVE  TurnInv /\ [Next]_vars => TurnInv'
<1> SUFFICES ASSUME TurnInv, [Next]_vars PROVE TurnInv'
  OBVIOUS
<1>1. FileInv' /\ NameInv' /\ TypeOK /\ TypeOK' /\ \A c \in Clients : InTurn(c)
  BY FileInvPreserved, NameInvPreserved, TurnFacts DEF TurnInv, ClientsWait, NameInv
<1>2. ASSUME UNCHANGED <<server, cl, file, finished, snd, netVars>>
      PROVE  TurnInv'
  <2>1. \A c \in Clients : ~ Ended(c) =>
          \A i \in 1 .. Len(backlog') : backlog'[i] = c => conn[c] = "open"
    BY <1>1, <1>2 DEF InTurn, Turn, netVars
  <2>2. \A c \in Clients : InTurn(c)'
    BY <1>1, <1>2, <2>1, OtherTurn DEF netVars
  <2> QED BY <1>1, <1>2, <2>2 DEF TurnInv
<1>3. CASE Accept /\ UNCHANGED snd
  BY <1>1, <1>3, AcceptTurn DEF TurnInv
<1>4. CASE (Poll \/ EndScan \/ UNCHANGED vars) /\ UNCHANGED snd
  BY <1>2, <1>4 DEF Poll, EndScan, vars, serverVars
<1>5. ASSUME NEW c \in Clients, Serve(c), UNCHANGED snd
      PROVE  TurnInv'
  <2>1. InTurn(c)' /\ server = "running"
    BY <1>1, <1>5, ServeTurn, ServedRunning
  <2>2. ASSUME NEW d \in Clients, d # c PROVE InTurn(d)'
    <3>1. ~ Ended(d) => \A i \in 1 .. Len(backlog') : backlog'[i] = d => conn[d] = "open"
      BY <1>1, <1>5, ServeLocal DEF InTurn, Turn
    <3> QED BY <1>1, <1>5, <2>1, <2>2, <3>1, ServeLocal, OtherTurn
  <2> QED BY <1>1, <2>1, <2>2 DEF TurnInv
<1>6. ASSUME NEW c \in Clients, ClientActs(c) \/ FaultHappens(c)
      PROVE  TurnInv'
  <2>1. /\ Progress(c) \/ NoticeEnd(c, server = "running") \/ Fault(c)
        /\ UNCHANGED serverVars
    BY <1>6 DEF ClientActs, FaultHappens
  <2>2. InTurn(c)'
    BY <2>1, ClientTurn
  <2>3. UNCHANGED <<server, cl, file, finished>>
    BY <2>1 DEF serverVars
  <2>4. ASSUME NEW d \in Clients, d # c PROVE InTurn(d)'
    <3>1. ~ Ended(d) => \A i \in 1 .. Len(backlog') : backlog'[i] = d => conn[d] = "open"
      BY <1>1, <2>1, <2>4, BacklogGrows DEF InTurn, Turn
    <3> QED BY <1>1, <2>1, <2>3, <2>4, <3>1, ClientLocal, OtherTurn
  <2> QED BY <1>1, <2>2, <2>3, <2>4 DEF TurnInv
<1>7. UNCHANGED vars => UNCHANGED snd
  BY DEF vars
<1> QED BY <1>3, <1>4, <1>5, <1>6, <1>7 DEF Next, ServerActs, ServerStep


LEMMA TurnInvImplies == TurnInv => AckMeansStored
<1> SUFFICES ASSUME TurnInv, NEW c \in Clients
             PROVE  /\ snd[c].next - 1 <= Len(file[c].data)
                    /\ snd[c].phase = "done" => c \in finished
  BY DEF AckMeansStored
<1>1. InTurn(c) /\ snd[c].next \in Nat /\ Stored(c) \in Nat
  BY TurnFacts
<1>2. snd[c].next - 1 <= Stored(c) /\ (snd[c].phase = "done" => c \in finished)
  BY <1>1 DEF InTurn, Turn, Over, Ended
<1> QED BY <1>2 DEF Stored

\* A client that no timer hurries takes a block, or the whole transfer, as
\* delivered only when the server has stored it, whatever is damaged and however
\* either side ends (xmodemserver.c:237-245, 281-284).
THEOREM AckCorrect ==
  ASSUME ClientsWait
  PROVE  Spec => []AckMeansStored
<1>1. Init => TurnInv
  BY InitTurnInv
<1>2. TurnInv /\ [Next]_vars => TurnInv'
  BY TurnInvPreserved
<1> QED BY <1>1, <1>2, TurnInvImplies, PTL DEF Spec

-----------------------------------------------------------------------------
(* Clients that also stay, with files that can be opened: the server then    *)
(* never meets a failing call.                                              *)

ClientsStay ==
  /\ Faults \cap {"timeout", "disconnect"} = {}
  /\ OpenResults = {"open"} /\ JunkLFs = {FALSE}

\* Its client is there as long as the server may still write to it.
Staying(c) ==
  /\ cl[c].state # "free" => conn[c] = "open" /\ ~ Ended(c)
  /\ \A i \in 1 .. Len(backlog) : backlog[i] = c => conn[c] = "open" /\ ~ Ended(c)
  /\ cl[c].state \in Opened => cl[c].fp = "open"

AllStaying == server = "running" /\ \A c \in Clients : Staying(c)

\* Once fwrite has failed nothing is asked of the clients any more: they leave.
StayInv == TurnInv /\ (AllStaying \/ server = "store_error")

\* Nothing of what Staying says of d has changed.
LEMMA OtherStaying ==
  ASSUME NEW d \in Clients, Staying(d),
         cl'[d] = cl[d], snd'[d] = snd[d], conn'[d] = conn[d],
         \A i \in 1 .. Len(backlog') : backlog'[i] = d => conn[d] = "open" /\ ~ Ended(d)
  PROVE  Staying(d)'
BY DEF Staying, Ended

\* A process that has ended takes no step.
LEMMA EndedForGood ==
  ASSUME server # "running", [Next]_vars
  PROVE  server' = server
BY ServedRunning
   DEF Next, ServerActs, ServerStep, Accept, Poll, EndScan, ClientActs, FaultHappens, vars,
       serverVars

\* A step of the server: no call in it but fwrite fails, and the FILE pointer of a
\* client that it goes on serving is not null.
LEMMA ServeStays ==
  ASSUME TurnInv, AllStaying, ClientsStay, UNCHANGED snd, NEW c \in Clients,
         Serve(c), ~ StoreFails(c)
  PROVE  Staying(c)' /\ server' = "running"
<1>1. /\ Staying(c) /\ server = "running" /\ TypeOK
      /\ cl \in [Clients -> Struct] /\ cl[c] \in Struct
      /\ pc \notin {"select", "scan"} /\ cursor = c => c \in Allocated /\ cl[c].state = pc
      /\ backlog' = backlog
  <2>1. TypeOK
    BY TurnFacts
  <2> QED BY <2>1, TurnFacts, ServeLocal DEF AllStaying, FileInv, SyncInv, ListInv, CursorLive
<1>2. CASE SkipClient(c) \/ VisitClient(c)
  BY <1>1, <1>2, OtherStaying DEF SkipClient, VisitClient, netVars, Staying
<1>3. CASE ~ SkipClient(c) /\ ~ VisitClient(c)
  <2>1. /\ cl[c].state # "free" /\ conn[c] = "open" /\ ~ Ended(c)
        /\ cl[c].state \in Opened => cl[c].fp = "open"
    BY <1>1, <1>3 DEF Staying, Allocated, Serve, ReadPartOfName, OpenFile, NoDirectory,
       StartBlock, EndOfTransmission, NakMark, GetBlock, DropClient, AcceptBlock, NakBlock,
       RepeatBlock, NullFile, Finish, ReadError, At
  <2>2. WriteOutcomes(c) = {"running"}
    BY <2>1 DEF WriteOutcomes
  <2>3. \A i \in 1 .. Len(backlog') : backlog'[i] # c
    BY <1>1, <2>1 DEF TurnInv, FileInv, SyncInv, ListInv, BacklogFresh
  <2>4. ASSUME UNCHANGED conn, server' = "running",
               cl'[c].state \in Opened => cl'[c].fp = "open"
        PROVE  Staying(c)' /\ server' = "running"
    <3>1. conn'[c] = "open" /\ ~ Ended(c)'
      BY <2>1, <2>4 DEF Ended
    <3> QED BY <2>3, <2>4, <3>1 DEF Staying
  <2>5. CASE ReadPartOfName(c)
    <3>1. cl'[c].state = "initial"
      BY <1>1, <2>5 DEF ReadPartOfName, At, Struct
    <3>2. UNCHANGED <<conn, server>>
      BY <2>5 DEF ReadPartOfName
    <3> QED BY <1>1, <2>4, <3>1, <3>2 DEF Opened
  <2>6. CASE OpenFile(c)
    <3>1. PICK n \in ReadCounts(c, NameCap - cl[c].inbuf), r \in OpenResults \ {"no_dir"} :
            cl' = [cl EXCEPT ![c].state = "pre_block", ![c].inbuf = 0,
                             ![c].current_block = 1, ![c].fp = r]
      BY <2>6 DEF OpenFile
    <3>2. cl'[c].fp = "open"
      BY <1>1, <3>1 DEF Struct, ClientsStay
    <3>3. UNCHANGED conn /\ server' = "running"
      BY <2>2, <2>6 DEF OpenFile
    <3> QED BY <2>4, <3>2, <3>3
  <2>7. CASE \/ StartBlock(c) \/ EndOfTransmission(c) \/ NakMark(c) \/ GetBlock(c)
             \/ NakBlock(c) \/ AcceptBlock(c) \/ RepeatBlock(c)
    <3>1. cl[c].state \in Opened
      BY <1>1, <2>7 DEF StartBlock, EndOfTransmission, NakMark, GetBlock, NakBlock, AcceptBlock,
         RepeatBlock, At, Opened
    <3>2. cl'[c].fp = cl[c].fp
      <4>1. CASE RepeatBlock(c)
        BY <4>1 DEF RepeatBlock
      <4>2. CASE ~ RepeatBlock(c)
        BY <1>1, <2>7, <4>2, FieldsKept
      <4> QED BY <4>1, <4>2
    <3>3. UNCHANGED conn /\ server' \in {server} \cup WriteOutcomes(c)
      BY <2>7 DEF StartBlock, EndOfTransmission, NakMark, GetBlock, NakBlock, AcceptBlock,
         RepeatBlock
    <3>4. server' = "running"
      BY <1>1, <2>2, <3>3
    <3> QED BY <2>1, <2>4, <3>1, <3>2, <3>3, <3>4
  <2>8. CASE DropClient(c) \/ Finish(c)
    <3> cl[c].fp = "open"
      BY <1>1, <2>1, <2>8 DEF DropClient, Finish, At, Opened
    <3>1. cl' = [cl EXCEPT ![c] = FreeStruct]
      BY <2>8 DEF DropClient, Finish, Drop
    <3>2. cl'[c].state = "free"
      BY <1>1, <3>1 DEF FreeStruct
    <3>3. server' = "running"
      BY <1>1, <2>2, <2>8 DEF DropClient, Finish
    <3> QED BY <2>3, <3>2, <3>3 DEF Staying, Opened
  <2>9. ~ NoDirectory(c) /\ ~ NullFile(c) /\ ~ ReadError(c)
    <3>1. ~ NoDirectory(c)
      BY DEF NoDirectory, ClientsStay
    <3>2. ~ ReadError(c)
      BY <1>1 DEF ReadError, Staying, Allocated
    <3>3. ~ NullFile(c)
      BY <1>1 DEF NullFile, Staying, At, Opened
    <3> QED BY <3>1, <3>2, <3>3
  <2> QED BY <1>3, <2>5, <2>6, <2>7, <2>8, <2>9 DEF Serve
<1> QED BY <1>2, <1>3

\* A step of a client that stays: it closes its side only when the server has.
LEMMA ClientStays ==
  ASSUME TurnInv, AllStaying, ClientsStay, UNCHANGED serverVars, NEW c \in Clients,
         Progress(c) \/ NoticeEnd(c, server = "running") \/ Fault(c)
  PROVE  Staying(c)'
<1>1. /\ Staying(c) /\ InTurn(c) /\ Framing(c) /\ TypeOK /\ TurnInv /\ server = "running"
      /\ snd \in [Clients -> Sender] /\ conn \in [Clients -> ConnStates]
      /\ UNCHANGED <<cl, server>>
  BY TurnFacts DEF AllStaying, serverVars
<1>2. ~ Fault(c)
  BY DEF ClientsStay, Fault, Timeout, Disconnect, MayFail
<1>3. CASE Connect(c)
  <2>1. cl[c].state = "free" /\ snd'[c].phase = "hello" /\ conn'[c] = "open"
    BY <1>1, <1>3 DEF Connect, Sender, TurnInv, FileInv, SyncInv, ListInv, BacklogFresh
  <2> QED BY <1>1, <2>1 DEF Staying, Ended, Opened
<1>4. CASE \/ SendName(c) \/ SendEot(c) \/ ReceiveC(c) \/ ReceiveAck(c) \/ ReceiveNak(c)
           \/ \E mark \in Marks, damage \in Damage : SendBlock(c, mark, damage)
  <2>1. UNCHANGED <<conn, backlog>> /\ snd'[c].phase \notin {"done", "gone"}
    <3>1. CASE SendName(c) \/ SendEot(c) \/ ReceiveC(c) \/ ReceiveAck(c) \/ ReceiveNak(c)
      BY <1>1, <3>1 DEF SendName, SendEot, ReceiveC, ReceiveAck, ReceiveNak, Receive, Sender
    <3>2. ASSUME NEW mark \in Marks, NEW damage \in Damage, SendBlock(c, mark, damage)
          PROVE  UNCHANGED <<conn, backlog>> /\ snd'[c].phase \notin {"done", "gone"}
      <4>1. PICK k : snd' = [snd EXCEPT ![c].phase = "waitAck", ![c].faults = k]
        BY <3>2 DEF SendBlock
      <4>2. snd'[c].phase = "waitAck"
        BY <1>1, <4>1 DEF Sender
      <4> QED BY <3>2, <4>2 DEF SendBlock
    <3> QED BY <1>4, <3>1, <3>2
  <2> QED BY <1>1, <2>1 DEF Staying, Ended
<1>5. CASE ReceiveDone(c) \/ NoticeEnd(c, server = "running")
  <2>1. conn[c] # "open"
    <3>1. CASE ReceiveDone(c)
      <4>1. snd[c].phase = "waitEot" /\ toClient[c] # << >>
        BY <3>1 DEF ReceiveDone, Receive
      <4> QED BY <1>1, <4>1 DEF InTurn, Ended, Turn, OpenTurn, EotSent
    <3>2. CASE NoticeEnd(c, server = "running")
      BY <1>1, <3>2 DEF NoticeEnd
    <3> QED BY <1>5, <3>1, <3>2
  <2>2. backlog' = backlog
    BY <1>5 DEF ReceiveDone, Receive, NoticeEnd, netVars
  <2> QED BY <1>1, <2>1, <2>2 DEF Staying, Opened
<1> QED BY <1>2, <1>3, <1>4, <1>5 DEF Progress

LEMMA InitStayInv == Init => StayInv
<1> SUFFICES ASSUME Init PROVE StayInv
  OBVIOUS
<1>1. \A c \in Clients : Staying(c)
  BY DEF Init, NetInit, ServerInit, SenderInit, FreeStruct, Staying, Opened
<1> QED BY <1>1, InitTurnInv DEF StayInv, AllStaying, Init, ServerInit

LEMMA StayInvPreserved ==
  ASSUME ClientsStay
  PROVE  StayInv /\ [Next]_vars => StayInv'
<1> SUFFICES ASSUME StayInv, [Next]_vars PROVE StayInv'
  OBVIOUS
<1>0. TurnInv /\ TurnInv' /\ TypeOK
  <2>1. ClientsWait
    BY DEF ClientsStay, ClientsWait
  <2>2. TurnInv
    BY DEF StayInv
  <2> QED BY <2>1, <2>2, TurnInvPreserved, TurnFacts DEF StayInv, TurnInv, NameInv
<1>8. ASSUME server' = "store_error" PROVE StayInv'
  BY <1>0, <1>8 DEF StayInv
<1>9. CASE server = "store_error"
  <2>1. server' = server
    BY <1>9, EndedForGood
  <2> QED BY <1>9, <2>1, <1>8
<1>10. CASE \E c \in Clients : StoreFails(c)
  BY <1>10, <1>8 DEF StoreFails
<1> SUFFICES ASSUME AllStaying, ~ \E c \in Clients : StoreFails(c) PROVE StayInv'
  BY <1>9, <1>10 DEF StayInv
<1>1. server = "running" /\ \A d \in Clients : Staying(d)
  BY DEF AllStaying
<1> SUFFICES ASSUME NEW d \in Clients PROVE Staying(d)' /\ server' = "running"
  <2>1. server' = "running"
    BY <1>0, <1>1, ServeStays
       DEF Next, ServerActs, ServerStep, Accept, Poll, EndScan, ClientActs, FaultHappens, vars,
           serverVars
  <2> QED BY <1>0, <2>1 DEF StayInv, AllStaying
<1>2. ASSUME UNCHANGED <<server, cl, snd, netVars>>
      PROVE  Staying(d)' /\ server' = "running"
  <2>1. \A i \in 1 .. Len(backlog') : backlog'[i] = d => conn[d] = "open" /\ ~ Ended(d)
    BY <1>1, <1>2 DEF Staying, netVars
  <2> QED BY <1>1, <1>2, <2>1, OtherStaying DEF netVars
<1>3. CASE Accept /\ UNCHANGED snd
  <2>1. /\ backlog \in Seq(Clients) /\ backlog # << >> /\ Head(backlog) = backlog[1]
        /\ 1 \in 1 .. Len(backlog) /\ cl \in [Clients -> Struct]
        /\ UNCHANGED <<conn, server>> /\ backlog' = Tail(backlog)
    BY <1>0, <1>1, <1>3, HeadTailProperties DEF Accept, TypeOK, NetTypeOK, ServerTypeOK
  <2>2. \A i \in 1 .. Len(backlog') : i + 1 \in 1 .. Len(backlog) /\ backlog'[i] = backlog[i + 1]
    BY <2>1, HeadTailProperties
  <2>3. \A i \in 1 .. Len(backlog') : backlog'[i] = d => conn[d] = "open" /\ ~ Ended(d)
    BY <1>1, <2>2 DEF Staying
  <2>4. PICK byte \in JunkBytes, lf \in JunkLFs :
          cl' = [cl EXCEPT ![Head(backlog)] = [FreeStruct EXCEPT !.state = "initial",
                                                !.buf0 = byte, !.junkLF = lf]]
    BY <1>3 DEF Accept
  <2>5. CASE d # Head(backlog)
    BY <1>1, <1>3, <2>1, <2>3, <2>4, <2>5, OtherStaying
  <2>6. CASE d = Head(backlog)
    <3>1. cl'[d].state = "initial"
      BY <2>1, <2>4, <2>6 DEF FreeStruct
    <3>2. conn[d] = "open" /\ ~ Ended(d)
      BY <1>1, <2>1, <2>6 DEF Staying
    <3> QED BY <1>1, <1>3, <2>1, <2>3, <3>1, <3>2 DEF Staying, Ended, Opened
  <2> QED BY <2>5, <2>6
<1>4. CASE (Poll \/ EndScan \/ UNCHANGED vars) /\ UNCHANGED snd
  BY <1>2, <1>4 DEF Poll, EndScan, vars, serverVars
<1>5. ASSUME NEW c \in Clients, Serve(c), UNCHANGED snd
      PROVE  Staying(d)' /\ server' = "running"
  <2>1. Staying(c)' /\ server' = "running"
    BY <1>0, <1>5, ServeStays
  <2>2. CASE d # c
    <3>1. \A i \in 1 .. Len(backlog') : backlog'[i] = d => conn[d] = "open" /\ ~ Ended(d)
      BY <1>0, <1>1, <1>5, ServeLocal DEF Staying
    <3> QED BY <1>0, <1>1, <1>5, <2>1, <2>2, <3>1, ServeLocal, OtherStaying
  <2> QED BY <2>1, <2>2
<1>6. ASSUME NEW c \in Clients, ClientActs(c) \/ FaultHappens(c)
      PROVE  Staying(d)' /\ server' = "running"
  <2>1. /\ Progress(c) \/ NoticeEnd(c, server = "running") \/ Fault(c)
        /\ UNCHANGED serverVars /\ UNCHANGED <<server, cl>>
    BY <1>6 DEF ClientActs, FaultHappens, serverVars
  <2>2. CASE d = c
    BY <1>0, <1>1, <2>1, <2>2, ClientStays
  <2>3. CASE d # c
    <3>1. \A i \in 1 .. Len(backlog') : backlog'[i] = d => conn[d] = "open" /\ ~ Ended(d)
      BY <1>0, <1>1, <2>1, <2>3, BacklogGrows DEF Staying
    <3> QED BY <1>0, <1>1, <2>1, <2>3, <3>1, ClientLocal, OtherStaying
  <2> QED BY <2>2, <2>3
<1>7. UNCHANGED vars => UNCHANGED snd
  BY DEF vars
<1> QED BY <1>3, <1>4, <1>5, <1>6, <1>7 DEF Next, ServerActs, ServerStep

\* Clients that stay for their last ACK, whatever blocks arrive damaged, bring
\* down no server: it never meets a failing read or write, a null FILE pointer
\* or a missing directory (wrappers.c:16-34, xmodemserver.c:207-291).  A disk that
\* takes no more data still may.
THEOREM StaysUpCorrect ==
  ASSUME ClientsStay
  PROVE  Spec => []StaysUp
<1>1. StayInv => StaysUp
  BY DEF StayInv, AllStaying, StaysUp
<1>2. StayInv /\ [Next]_vars => StayInv'
  BY StayInvPreserved
<1> QED BY <1>1, <1>2, InitStayInv, PTL DEF Spec
=============================================================================
