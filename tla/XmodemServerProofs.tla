-------------------------- MODULE XmodemServerProofs -------------------------
(***************************************************************************)
(* xmodemserver and its clients, for every value of the constants: the     *)
(* types, the list of clients, and that server and clients agree where the *)
(* frames begin.                                                           *)
(***************************************************************************)
EXTENDS XmodemSystem, SequenceTheorems, TLAPS


-----------------------------------------------------------------------------
(* Type correctness: what a read, a write, a drop and an assignment of the *)
(* `if' chain leave in the variables stays in their types, action by action. *)

LEMMA ShorterFrame ==
  ASSUME NEW f \in Frame, NEW n \in Nat, n < f.left
  PROVE  [f EXCEPT !.left = @ - n] \in Frame
BY DEF Frame

LEMMA AfterReadType ==
  ASSUME NEW q \in Seq(Frame), NEW n \in Nat,
         n > 0 => q # << >> /\ n <= Head(q).left
  PROVE  AfterRead(q, n) \in Seq(Frame)
<1>1. CASE n = 0 \/ (q # << >> /\ n = Head(q).left)
  BY <1>1, HeadTailProperties DEF AfterRead
<1>2. CASE n > 0 /\ q # << >> /\ n < Head(q).left
  <2>1. Head(q) = q[1] /\ q[1] \in Frame /\ 1 \in 1 .. Len(q)
    BY <1>2
  <2> DEFINE f == [q[1] EXCEPT !.left = @ - n]
  <2>2. f \in Frame
    BY <1>2, <2>1, ShorterFrame
  <2>3. AfterRead(q, n) = [q EXCEPT ![1] = f]
    BY <1>2, <2>1 DEF AfterRead
  <2> QED BY <2>1, <2>2, <2>3
<1>3. q # << >> => Head(q).left \in Nat
  <2>1. q # << >> => Head(q) \in Frame
    BY HeadTailProperties
  <2> QED BY <2>1 DEF Frame
<1> QED BY <1>1, <1>2, <1>3

LEMMA ReadCountsType ==
  ASSUME NetTypeOK, NEW c \in Clients, NEW size \in Int, NEW n \in ReadCounts(c, size)
  PROVE  /\ n \in Nat
         /\ n > 0 => /\ toServer[c] # << >> /\ n <= Head(toServer[c]).left
                     /\ n <= size
         /\ AfterRead(toServer[c], n) \in Seq(Frame)
<1>1. n \in Nat /\ (n > 0 => /\ toServer[c] # << >> /\ n <= Head(toServer[c]).left
                     /\ n <= size)
  BY DEF ReadCounts, NetTypeOK, Frame
<1> QED BY <1>1, AfterReadType DEF NetTypeOK

LEMMA NumberType == \A i \in Nat : i % (MaxByte + 1) \in Bytes
  BY NetAssumption DEF Bytes

LEMMA FileBlockType ==
  \A i \in Nat, d \in Damage : FileBlock(i, d) \in Block
  BY NumberType, NetAssumption DEF FileBlock, Block, Damage, Bytes

LEMMA StructType ==
  /\ NoBlock \in Block
  /\ FreeStruct \in Struct
  /\ \A n \in Bytes : NextNumber(n) \in Bytes
  /\ 0 \in Bytes /\ 1 \in Bytes /\ SOH \in Bytes /\ STX \in Bytes
  /\ EOT \in Bytes /\ LF \in Bytes
  /\ \A m : BlockSize(m) \in {SohSize, StxSize} /\ BlockSize(m) \in Nat
BY NetAssumption
   DEF NoBlock, Block, Bytes, FreeStruct, Struct, RecStates, NextNumber, SOH,
       STX, EOT, LF, BlockSize

LEMMA FrameType ==
  /\ \A c \in Clients : NameFrame(c) \in Frame
  /\ EotFrame \in Frame
  /\ \A m \in Marks, b \in Block : BlockFrame(m, b) \in Frame
BY StructType, NetAssumption, SenderAssumption
   DEF NameFrame, EotFrame, BlockFrame, Frame

LEMMA WriteType ==
  ASSUME NetTypeOK, NEW c \in Clients, NEW b \in {"C", "ACK", "NAK"},
         NEW of \in Nat
  PROVE  /\ AfterWrite(c, b, of) \in [Clients -> Seq(Reply)]
         /\ WriteOutcomes(c) \subseteq Stops
<1>1. [byte |-> b, of |-> of] \in Reply
  BY DEF Reply
<1>2. Append(toClient[c], [byte |-> b, of |-> of]) \in Seq(Reply)
  BY <1>1, AppendProperties DEF NetTypeOK
<1> QED BY <1>2 DEF NetTypeOK, AfterWrite, WriteOutcomes, Stops

LEMMA ReadMarkType ==
  ASSUME TypeOK, NEW c \in Clients, NEW n \in ReadCounts(c, 1)
  PROVE  ReadMark(c, n) \in Bytes
<1>1. CASE n = 0
  BY <1>1 DEF TypeOK, ServerTypeOK, Struct, ReadMark
<1>2. CASE n # 0
  <2>1. Head(toServer[c]) \in Frame
    BY <1>2, ReadCountsType, HeadTailProperties DEF TypeOK, NetTypeOK
  <2> QED BY <1>2, <2>1, StructType DEF ReadMark, Frame
<1> QED BY <1>1, <1>2

LEMMA DropType ==
  ASSUME TypeOK, NEW c \in Clients, Drop(c)
  PROVE  /\ cset' \subseteq Clients
         /\ start' \in Pointer
         /\ nxt' \in [Clients -> Pointer]
         /\ prv' \in [Clients -> Pointer]
         /\ cl' \in [Clients -> Struct]
         /\ conn' \in [Clients -> ConnStates]
         /\ toServer' \in [Clients -> Seq(Frame)]
<1>1. cset' \subseteq Clients /\ start' \in Pointer
  BY DEF TypeOK, ServerTypeOK, Drop, Unlink
<1>2. nxt' \in [Clients -> Pointer] /\ prv' \in [Clients -> Pointer]
  BY DEF TypeOK, ServerTypeOK, Drop, Unlink, Pointer
<1>3. cl' \in [Clients -> Struct]
  BY StructType DEF TypeOK, ServerTypeOK, Drop
<1>4. conn' \in [Clients -> ConnStates]
  BY DEF TypeOK, NetTypeOK, Drop, ConnStates
<1>5. << >> \in Seq(Frame)
  OBVIOUS
<1>6. toServer' \in [Clients -> Seq(Frame)]
  BY <1>5 DEF TypeOK, NetTypeOK, Drop
<1> QED BY <1>1, <1>2, <1>3, <1>4, <1>6

LEMMA InitTypeOK == Init => TypeOK
<1> SUFFICES ASSUME Init PROVE TypeOK
  OBVIOUS
<1>1. NetTypeOK
  BY DEF Init, NetInit, NetTypeOK, ConnStates
<1>2. ServerTypeOK
  <2>1. [name |-> 0, data |-> << >>] \in FileState
    BY DEF FileState
  <2> QED BY <2>1, StructType
        DEF Init, ServerInit, ServerTypeOK, Stops, PCs, RecStates, Pointer
<1>3. SenderTypeOK
  BY SenderAssumption DEF Init, SenderInit, SenderTypeOK, Sender, Phases
<1> QED BY <1>1, <1>2, <1>3 DEF TypeOK

\* The fields a step of the `if' chain assigns keep a struct's type.
LEMMA FieldTypes ==
  ASSUME NEW r \in Struct
  PROVE  /\ \A n \in Nat : [r EXCEPT !.inbuf = n] \in Struct
         /\ \A f \in {"open", "failed"} :
              [r EXCEPT !.state = "pre_block", !.inbuf = 0,
                        !.current_block = 1, !.fp = f] \in Struct
         /\ \A b \in Bytes : [r EXCEPT !.buf0 = b] \in Struct
         /\ [r EXCEPT !.state = "finished", !.buf0 = EOT] \in Struct
         /\ \A b \in Bytes :
              [r EXCEPT !.state = "get_block", !.buf0 = b,
                        !.blocksize = BlockSize(b)] \in Struct
         /\ [r EXCEPT !.state = "pre_block", !.inbuf = 0] \in Struct
         /\ [r EXCEPT !.state = "pre_block", !.inbuf = 0,
                      !.current_block = NextNumber(@)] \in Struct
         /\ \A n \in Nat, b \in Block, x \in Bytes, t \in RecStates :
              [r EXCEPT !.inbuf = n, !.blk = b, !.buf0 = x, !.state = t]
                \in Struct
         /\ r.inbuf \in Nat /\ r.blk \in Block /\ r.buf0 \in Bytes
         /\ r.state \in RecStates
BY ZenonT(40), StructType DEF Struct, RecStates

LEMMA AcceptTypeOK == TypeOK /\ Accept => ServerTypeOK' /\ NetTypeOK'
<1> SUFFICES ASSUME TypeOK, Accept PROVE ServerTypeOK' /\ NetTypeOK'
  OBVIOUS
<1>1. Head(backlog) \in Clients /\ backlog' \in Seq(Clients)
  BY HeadTailProperties DEF Accept, TypeOK, NetTypeOK
<1>2. \A b \in JunkBytes, lf \in JunkLFs :
        [FreeStruct EXCEPT !.state = "initial", !.buf0 = b, !.junkLF = lf]
          \in Struct
  BY ServerAssumption, StructType DEF FreeStruct, Struct, RecStates
<1>3. cl' \in [Clients -> Struct]
  BY ZenonT(40), <1>1, <1>2 DEF Accept, TypeOK, ServerTypeOK
<1>4. nxt' \in [Clients -> Pointer] /\ prv' \in [Clients -> Pointer]
      /\ start' \in Pointer /\ cset' \subseteq Clients
  BY <1>1 DEF Accept, TypeOK, ServerTypeOK, Pointer
<1>5. UNCHANGED <<server, pc, cursor, rset, file, finished, conn, toServer,
                  toClient>>
  BY DEF Accept
<1> QED BY <1>1, <1>3, <1>4, <1>5 DEF TypeOK, ServerTypeOK, NetTypeOK

LEMMA ServeTypeOK ==
  ASSUME TypeOK, NEW c \in Clients, Serve(c)
  PROVE  ServerTypeOK' /\ NetTypeOK'
<1> USE DEF TypeOK
<1>0. /\ nxt[c] \in Pointer /\ cl[c] \in Struct /\ cl[c].inbuf \in Nat
      /\ "scan" \in PCs /\ "select" \in PCs /\ "check_block" \in PCs
      /\ "pre_block" \in PCs /\ "get_block" \in PCs /\ "finished" \in PCs
      /\ "crashed" \in Stops /\ "read_error" \in Stops /\ "open_error" \in Stops
      /\ "store_error" \in Stops
  BY FieldTypes DEF ServerTypeOK, PCs, RecStates, Stops
<1>1. CASE SkipClient(c)
  BY <1>0, <1>1 DEF SkipClient, ServerTypeOK, NetTypeOK, netVars, listVars
<1>2. CASE VisitClient(c)
  <2>1. pc' \in PCs
    BY <1>0, <1>2 DEF VisitClient, Struct, PCs
  <2> QED BY <2>1, <1>2 DEF VisitClient, ServerTypeOK, NetTypeOK, netVars, listVars
<1>3. CASE ReadPartOfName(c)
  <2>1. PICK n \in ReadCounts(c, NameCap - cl[c].inbuf) :
          /\ cl' = [cl EXCEPT ![c].inbuf = @ + n]
          /\ toServer' = [toServer EXCEPT ![c] = AfterRead(@, n)]
    BY <1>3 DEF ReadPartOfName
  <2>2. n \in Nat /\ AfterRead(toServer[c], n) \in Seq(Frame)
    BY <1>0, ReadCountsType, NetAssumption
  <2>3. cl' \in [Clients -> Struct]
    <3>0. cl[c].inbuf + n \in Nat
      BY <1>0, <2>2
    <3>1. [cl[c] EXCEPT !.inbuf = cl[c].inbuf + n] \in Struct
      BY <1>0, <3>0, FieldTypes
    <3> QED BY <2>1, <3>1 DEF ServerTypeOK
  <2>4. toServer' \in [Clients -> Seq(Frame)]
    BY <2>1, <2>2 DEF NetTypeOK
  <2> QED BY <1>0, <1>3, <2>3, <2>4
        DEF ReadPartOfName, EndVisit, ServerTypeOK, NetTypeOK, listVars
<1>4. CASE OpenFile(c)
  <2>1. PICK n \in ReadCounts(c, NameCap - cl[c].inbuf),
             r \in OpenResults \ {"no_dir"} :
          /\ NewlineFound(c, cl[c].inbuf + n)
          /\ toServer' = [toServer EXCEPT ![c] = AfterRead(@, n)]
          /\ file' = [file EXCEPT ![c].name = cl[c].inbuf + n - 2]
          /\ cl' = [cl EXCEPT ![c].state = "pre_block", ![c].inbuf = 0,
                              ![c].current_block = 1, ![c].fp = r]
    BY <1>4 DEF OpenFile
  <2>2. n \in Nat /\ AfterRead(toServer[c], n) \in Seq(Frame)
    BY <1>0, ReadCountsType, NetAssumption
  <2>3. cl' \in [Clients -> Struct]
    BY <1>0, <2>1, FieldTypes, ServerAssumption DEF ServerTypeOK
  <2>4. cl[c].inbuf + n - 2 \in Nat
    <3>1. NameLen[c] \in Nat
      BY NetAssumption
    <3>2. cl[c].inbuf \in Nat /\ cl[c].inbuf + n >= NameLen[c] + 1 /\ NameLen[c] > 0
      BY <1>0, <2>1, <3>1 DEF NewlineFound
    <3> QED BY <2>2, <3>1, <3>2
  <2>5. [file[c] EXCEPT !.name = cl[c].inbuf + n - 2] \in FileState
    BY <2>4 DEF ServerTypeOK, FileState
  <2>6. file' \in [Clients -> FileState]
    BY <2>1, <2>5 DEF ServerTypeOK
  <2>7. toServer' \in [Clients -> Seq(Frame)]
    BY <2>1, <2>2 DEF NetTypeOK
  <2> QED BY <1>0, <1>4, <2>3, <2>6, <2>7, WriteType
        DEF OpenFile, ServerTypeOK, NetTypeOK, listVars
<1>5. CASE NoDirectory(c)
  BY <1>0, <1>5 DEF NoDirectory, ServerTypeOK, NetTypeOK, netVars, listVars
<1>6. CASE StartBlock(c)
  <2>1. PICK n \in ReadCounts(c, 1) :
          /\ cl' = [cl EXCEPT ![c].state = "get_block",
                              ![c].buf0 = ReadMark(c, n),
                              ![c].blocksize = BlockSize(ReadMark(c, n))]
          /\ toServer' = [toServer EXCEPT ![c] = AfterRead(@, n)]
    BY <1>6 DEF StartBlock
  <2>2. AfterRead(toServer[c], n) \in Seq(Frame) /\ ReadMark(c, n) \in Bytes
    BY ReadCountsType, ReadMarkType
  <2>3. cl' \in [Clients -> Struct]
    BY <1>0, <2>1, <2>2, FieldTypes DEF ServerTypeOK
  <2>4. toServer' \in [Clients -> Seq(Frame)]
    BY <2>1, <2>2 DEF NetTypeOK
  <2> QED BY <1>0, <1>6, <2>3, <2>4
        DEF StartBlock, ServerTypeOK, NetTypeOK, listVars
<1>7. CASE EndOfTransmission(c)
  <2>1. PICK n \in ReadCounts(c, 1) :
          /\ cl' = [cl EXCEPT ![c].state = "finished", ![c].buf0 = EOT]
          /\ toServer' = [toServer EXCEPT ![c] = AfterRead(@, n)]
    BY <1>7 DEF EndOfTransmission
  <2>2. cl' \in [Clients -> Struct]
    BY <1>0, <2>1, FieldTypes DEF ServerTypeOK
  <2>3. toServer' \in [Clients -> Seq(Frame)]
    <3>1. AfterRead(toServer[c], n) \in Seq(Frame)
      BY ReadCountsType
    <3> QED BY <2>1, <3>1 DEF NetTypeOK
  <2> QED BY <1>0, <1>7, <2>2, <2>3
        DEF EndOfTransmission, ServerTypeOK, NetTypeOK, listVars
<1>8. CASE NakMark(c)
  <2>1. PICK n \in ReadCounts(c, 1) :
          /\ cl' = [cl EXCEPT ![c].buf0 = ReadMark(c, n)]
          /\ toServer' = [toServer EXCEPT ![c] = AfterRead(@, n)]
    BY <1>8 DEF NakMark
  <2>2. cl' \in [Clients -> Struct]
    BY <1>0, <2>1, ReadMarkType, FieldTypes DEF ServerTypeOK
  <2>3. toServer' \in [Clients -> Seq(Frame)]
    <3>1. AfterRead(toServer[c], n) \in Seq(Frame)
      BY ReadCountsType
    <3> QED BY <2>1, <3>1 DEF NetTypeOK
  <2> QED BY <1>0, <1>8, <2>2, <2>3, WriteType
        DEF NakMark, EndVisit, ServerTypeOK, NetTypeOK, listVars
<1>9. CASE GetBlock(c)
  <2> DEFINE blk(n) == IF n = 0 THEN cl[c].blk ELSE Head(toServer[c]).blk
             full(n) == cl[c].inbuf + n = cl[c].blocksize
  <2>1. PICK n \in ReadCounts(c, cl[c].blocksize - cl[c].inbuf) :
          /\ cl' = [cl EXCEPT ![c].inbuf = @ + n,
                              ![c].blk = blk(n),
                              ![c].buf0 = IF n = 0 THEN @ ELSE blk(n).num,
                              ![c].state = IF full(n) THEN "check_block" ELSE @]
          /\ toServer' = [toServer EXCEPT ![c] = AfterRead(@, n)]
          /\ IF full(n) THEN pc' = "check_block" /\ UNCHANGED cursor
             ELSE EndVisit(c)
    BY <1>9 DEF GetBlock
  <2>2. cl[c].blocksize - cl[c].inbuf \in Int
    BY <1>0, NetAssumption DEF Struct
  <2>3. n \in Nat /\ AfterRead(toServer[c], n) \in Seq(Frame)
    BY <2>2, ReadCountsType
  <2>4. blk(n) \in Block
    <3>1. CASE n = 0
      BY <1>0, <3>1, FieldTypes
    <3>2. CASE n # 0
      <4>1. toServer[c] # << >>
        BY <2>2, <2>3, <3>2, ReadCountsType
      <4>2. Head(toServer[c]) \in Frame
        BY <4>1, HeadTailProperties DEF NetTypeOK
      <4> QED BY <3>2, <4>2 DEF Frame
    <3> QED BY <3>1, <3>2
  <2>5. blk(n).num \in Bytes /\ "check_block" \in RecStates
    BY <2>4 DEF Block, RecStates
  <2>6. cl' \in [Clients -> Struct]
    <3>0. cl[c].inbuf + n \in Nat
      BY <1>0, <2>3
    <3>1. /\ cl[c].inbuf + n \in Nat
          /\ (IF n = 0 THEN cl[c].buf0 ELSE blk(n).num) \in Bytes
          /\ (IF full(n) THEN "check_block" ELSE cl[c].state) \in RecStates
      BY <1>0, <2>5, <3>0, FieldTypes
    <3> HIDE DEF blk, full
    <3>2. [cl[c] EXCEPT
             !.inbuf = cl[c].inbuf + n, !.blk = blk(n),
             !.buf0 = IF n = 0 THEN cl[c].buf0 ELSE blk(n).num,
             !.state = IF full(n) THEN "check_block" ELSE cl[c].state]
            \in Struct
      BY <1>0, <2>4, <3>1, FieldTypes
    <3> QED BY <2>1, <3>2 DEF ServerTypeOK
  <2>7. toServer' \in [Clients -> Seq(Frame)]
    BY <2>1, <2>3 DEF NetTypeOK
  <2>8. pc' \in PCs /\ cursor' \in Pointer
    BY <1>0, <2>1 DEF EndVisit, ServerTypeOK
  <2> QED BY <1>9, <2>6, <2>7, <2>8
        DEF GetBlock, ServerTypeOK, NetTypeOK, listVars
<1>10. CASE DropClient(c)
  BY <1>0, <1>10, DropType DEF DropClient, ServerTypeOK, NetTypeOK
<1>11. CASE AcceptBlock(c)
  <2>0. cl[c].blk.idx \in Nat
    BY <1>0 DEF Struct, Block
  <2>1. Payload(cl[c].blk) \in Nat
    BY <2>0 DEF Payload
  <2>2. [file[c] EXCEPT !.data = Append(@, Payload(cl[c].blk))] \in FileState
    <3>1. file[c] \in FileState
      BY DEF ServerTypeOK
    <3>2. Append(file[c].data, Payload(cl[c].blk)) \in Seq(Nat)
      BY <2>1, <3>1, AppendProperties DEF FileState
    <3> QED BY <3>1, <3>2 DEF FileState
  <2>3. file' \in [Clients -> FileState]
    BY <1>11, <2>2 DEF AcceptBlock, ServerTypeOK
  <2>4. cl' \in [Clients -> Struct]
    BY <1>0, <1>11, FieldTypes DEF AcceptBlock, ServerTypeOK
  <2> QED BY <1>0, <1>11, <2>0, <2>3, <2>4, WriteType
        DEF AcceptBlock, EndVisit, ServerTypeOK, NetTypeOK, listVars
<1>12. CASE NakBlock(c)
  <2>1. cl[c].blk.idx \in Nat
    BY <1>0 DEF Struct, Block
  <2>2. cl' \in [Clients -> Struct]
    BY <1>0, <1>12, FieldTypes DEF NakBlock, ServerTypeOK
  <2> QED BY <1>0, <1>12, <2>1, <2>2, WriteType
        DEF NakBlock, EndVisit, ServerTypeOK, NetTypeOK, listVars
<1>13. CASE RepeatBlock(c)
  <2>1. cl[c].blk.idx \in Nat
    BY <1>0 DEF Struct, Block
  <2> QED BY <1>0, <1>13, <2>1, WriteType
        DEF RepeatBlock, EndVisit, ServerTypeOK, NetTypeOK, listVars
<1>14. CASE StoreFails(c) \/ NullFile(c)
  BY <1>0, <1>14 DEF StoreFails, NullFile, ServerTypeOK, NetTypeOK, netVars, listVars
<1>15. CASE Finish(c)
  <2>1. Len(file[c].data) + 1 \in Nat
    BY LenProperties DEF ServerTypeOK, FileState
  <2>2. /\ finished' \subseteq Clients
        /\ toClient' \in [Clients -> Seq(Reply)]
        /\ UNCHANGED <<rset, file, backlog>> /\ pc' = "scan"
    BY <1>15, <2>1, WriteType DEF Finish, ServerTypeOK
  <2>3. CASE Drop(c) /\ cl[c].fp = "open"
    <3>1. cursor' \in Pointer
      BY <1>0, <1>15, <2>3, DropType DEF Finish, Pointer, ServerTypeOK
    <3> QED BY <1>0, <1>15, <2>1, <2>2, <2>3, <3>1, DropType, WriteType
          DEF Finish, ServerTypeOK, NetTypeOK
  <2>4. CASE cl[c].fp # "open"
    BY <1>0, <1>15, <2>1, <2>2, <2>4, WriteType
       DEF Finish, ServerTypeOK, NetTypeOK, listVars
  <2> QED BY <1>15, <2>3, <2>4 DEF Finish
<1>16. CASE ReadError(c)
  BY <1>0, <1>16 DEF ReadError, ServerTypeOK, NetTypeOK, netVars, listVars
<1> QED BY <1>1, <1>2, <1>3, <1>4, <1>5, <1>6, <1>7, <1>8, <1>9, <1>10, <1>11,
           <1>12, <1>13, <1>14, <1>15, <1>16 DEF Serve

LEMMA ServerTypePreserved ==
  TypeOK /\ ServerStep => ServerTypeOK' /\ NetTypeOK'
<1> SUFFICES ASSUME TypeOK, ServerStep PROVE ServerTypeOK' /\ NetTypeOK'
  OBVIOUS
<1>1. CASE Accept
  BY <1>1, AcceptTypeOK
<1>2. CASE Poll
  BY <1>2 DEF Poll, TypeOK, ServerTypeOK, NetTypeOK, netVars, listVars, PCs
<1>3. CASE EndScan
  BY <1>3 DEF EndScan, TypeOK, ServerTypeOK, NetTypeOK, netVars, listVars, PCs
<1>4. CASE \E c \in Clients : Serve(c)
  BY <1>4, ServeTypeOK
<1> QED BY <1>1, <1>2, <1>3, <1>4 DEF ServerStep

\* The channel to the server after c sent frame f.
LEMMA SendType ==
  ASSUME NetTypeOK, NEW c \in Clients, NEW f \in Frame, Send(c, f)
  PROVE  toServer' \in [Clients -> Seq(Frame)]
<1>1. Append(toServer[c], f) \in Seq(Frame)
  BY AppendProperties DEF NetTypeOK
<1> QED BY <1>1 DEF NetTypeOK, Send

LEMMA CutShortType ==
  ASSUME NEW q \in Seq(Frame), q # << >>, NEW k \in 1 .. q[Len(q)].left - 1
  PROVE  CutShort(q, k) \in Seq(Frame)
<1>1. Len(q) \in 1 .. Len(q) /\ q[Len(q)] \in Frame
  BY LenProperties, EmptySeq
<1>2. [q[Len(q)] EXCEPT !.left = k] \in Frame
  BY <1>1 DEF Frame
<1> QED BY <1>1, <1>2 DEF CutShort

LEMMA ProgressTypeOK ==
  ASSUME TypeOK, NEW c \in Clients, Progress(c) \/ NoticeEnd(c, server = "running")
                                      \/ Fault(c)
  PROVE  SenderTypeOK' /\ NetTypeOK'
<1> USE DEF TypeOK
<1>0. /\ snd[c] \in Sender /\ snd[c].next \in Nat \ {0}
      /\ \A p \in Phases : [snd[c] EXCEPT !.phase = p] \in Sender
      /\ \A p \in Phases :
           [snd[c] EXCEPT !.phase = p, !.next = @ + 1] \in Sender
      /\ \A p \in Phases : snd[c].faults < MaxFaults =>
           [snd[c] EXCEPT !.phase = p, !.faults = @ + 1] \in Sender
  <2>1. snd[c] \in Sender
    BY DEF SenderTypeOK
  <2>2. snd[c].next \in Nat \ {0} /\ snd[c].faults \in 0 .. MaxFaults
    BY <2>1 DEF Sender
  <2>3. snd[c].next + 1 \in Nat \ {0}
        /\ (snd[c].faults < MaxFaults => snd[c].faults + 1 \in 0 .. MaxFaults)
    BY <2>2, SenderAssumption
  <2> QED BY <2>1, <2>2, <2>3 DEF Sender
<1>1. CASE Connect(c)
  <2>1. backlog' \in Seq(Clients)
    BY <1>1, AppendProperties DEF Connect, NetTypeOK
  <2> QED BY <1>0, <1>1, <2>1
        DEF Connect, SenderTypeOK, NetTypeOK, Phases, ConnStates
<1>2. CASE SendName(c)
  BY <1>0, <1>2, SendType, FrameType
     DEF SendName, SenderTypeOK, NetTypeOK, Phases
<1>3. ASSUME NEW m \in Marks, NEW d \in Damage, SendBlock(c, m, d)
      PROVE  SenderTypeOK' /\ NetTypeOK'
  <2>1. BlockFrame(m, FileBlock(snd[c].next, d)) \in Frame
    BY <1>0, FileBlockType, FrameType
  <2>2. NetTypeOK'
    BY <1>3, <2>1, SendType DEF SendBlock, NetTypeOK
  <2>3. snd' \in [Clients -> Sender]
    <3>1. CASE d = "none"
      <4>1. [snd[c] EXCEPT !.phase = "waitAck", !.faults = @]
              = [snd[c] EXCEPT !.phase = "waitAck"]
        BY <1>0 DEF Sender
      <4> QED BY <1>0, <1>3, <3>1, <4>1 DEF SendBlock, SenderTypeOK, Phases
    <3>2. CASE d # "none"
      BY <1>0, <1>3, <3>2 DEF SendBlock, MayFail, SenderTypeOK, Phases
    <3> QED BY <3>1, <3>2
  <2> QED BY <2>2, <2>3 DEF SenderTypeOK
<1>4. CASE SendEot(c)
  BY <1>0, <1>4, SendType, FrameType
     DEF SendEot, SenderTypeOK, NetTypeOK, Phases
<1>5. ASSUME Receive(c)
      PROVE  toClient' \in [Clients -> Seq(Reply)]
  <2>1. Tail(toClient[c]) \in Seq(Reply)
    BY <1>5, HeadTailProperties DEF Receive, NetTypeOK
  <2> QED BY <1>5, <2>1 DEF Receive, NetTypeOK
<1>6. CASE ReceiveC(c) \/ ReceiveAck(c) \/ ReceiveNak(c) \/ ReceiveDone(c)
  <2>1. NetTypeOK'
    BY <1>5, <1>6 DEF ReceiveC, ReceiveAck, ReceiveNak, ReceiveDone, Receive,
                      NetTypeOK, ConnStates
  <2>2. SenderTypeOK'
    BY <1>0, <1>6 DEF ReceiveC, ReceiveAck, ReceiveNak, ReceiveDone,
                      SenderTypeOK, Phases
  <2> QED BY <2>1, <2>2
<1>7. CASE Timeout(c)
  BY <1>0, <1>7 DEF Timeout, MayFail, SenderTypeOK, NetTypeOK, netVars, Phases
<1>8. CASE Disconnect(c)
  <2>1. toServer' \in [Clients -> Seq(Frame)]
    <3>1. CASE UNCHANGED toServer
      BY <3>1 DEF NetTypeOK
    <3>2. CASE toServer[c] # << >>
                /\ \E k \in 1 .. toServer[c][Len(toServer[c])].left - 1 :
                     toServer' = [toServer EXCEPT ![c] = CutShort(@, k)]
      <4>1. toServer[c] \in Seq(Frame)
        BY DEF NetTypeOK
      <4>2. \A k \in 1 .. toServer[c][Len(toServer[c])].left - 1 :
              CutShort(toServer[c], k) \in Seq(Frame)
        BY <3>2, <4>1, CutShortType
      <4> QED BY <3>2, <4>2 DEF NetTypeOK
    <3> QED BY <1>8, <3>1, <3>2 DEF Disconnect
  <2> QED BY <1>0, <1>8, <2>1
        DEF Disconnect, MayFail, SenderTypeOK, NetTypeOK, Phases, ConnStates
<1>9. CASE NoticeEnd(c, server = "running")
  BY <1>0, <1>9 DEF NoticeEnd, SenderTypeOK, NetTypeOK, netVars, Phases
<1> QED BY <1>1, <1>2, <1>3, <1>4, <1>6, <1>7, <1>8, <1>9 DEF Progress, Fault

----------------------------------------------------------------------------

LEMMA TypePreserved == TypeOK /\ [Next]_vars => TypeOK'
<1> SUFFICES ASSUME TypeOK, [Next]_vars PROVE TypeOK'
  OBVIOUS
<1>1. CASE ServerActs
  BY <1>1, ServerTypePreserved
     DEF ServerActs, TypeOK, SenderTypeOK
<1>2. ASSUME NEW c \in Clients, ClientActs(c) \/ FaultHappens(c)
      PROVE  TypeOK'
  <2>1. SenderTypeOK' /\ NetTypeOK'
    BY <1>2, ProgressTypeOK DEF ClientActs, FaultHappens
  <2>2. ServerTypeOK'
    BY <1>2 DEF ClientActs, FaultHappens, serverVars, TypeOK, ServerTypeOK
  <2> QED BY <2>1, <2>2 DEF TypeOK
<1>3. CASE UNCHANGED vars
  BY <1>3 DEF vars, netVars, serverVars, TypeOK, NetTypeOK, ServerTypeOK,
              SenderTypeOK
<1> QED BY <1>1, <1>2, <1>3 DEF Next

\* No step of the server, of a client or of a fault takes a variable, or a field
\* of a client's struct, out of its range, for any number of clients and blocks
\* and any size of a byte (xmodemserver.c:110-299).
THEOREM TypeCorrect == Spec => []TypeOK
BY InitTypeOK, TypePreserved, PTL DEF Spec

-----------------------------------------------------------------------------
(* The list of clients: it stays well formed, and the walk over it never   *)
(* follows a pointer to a freed struct.                                    *)

\* A connection waits in the backlog once, before its struct is allocated, and
\* after its client made it.
BacklogFresh ==
  /\ \A c \in Clients : snd[c].phase = "idle" => cl[c].state = "free"
  /\ \A i \in 1 .. Len(backlog) :
       /\ cl[backlog[i]].state = "free"
       /\ snd[backlog[i]].phase # "idle"
  /\ \A i, j \in 1 .. Len(backlog) : backlog[i] = backlog[j] => i = j

\* What each step preserves.
ListInv == TypeOK /\ ListWellFormed /\ CursorLive /\ BacklogFresh

LEMMA SameList ==
  ASSUME ListWellFormed, UNCHANGED <<cset, start, nxt, prv>>,
         Allocated' = Allocated
  PROVE  ListWellFormed'
BY DEF ListWellFormed, PointersAgree, Walked

\* No struct is its own successor: the others would be a list without it.
LEMMA NoSelfLoop ==
  ASSUME ListWellFormed, NEW c \in Allocated
  PROVE  nxt[c] # c
<1> SUFFICES ASSUME nxt[c] = c PROVE FALSE
  OBVIOUS
<1>1. c # NULL /\ prv[c] = c /\ c # start
  BY NetAssumption DEF ListWellFormed, PointersAgree, Allocated
<1>2. Walked(Allocated \ {c})
  BY <1>1 DEF ListWellFormed, PointersAgree, Walked
<1>3. Allocated \ {c} = Allocated
  BY <1>2 DEF ListWellFormed
<1> QED BY <1>3

LEMMA InsertKeepsList ==
  ASSUME TypeOK, ListWellFormed, NEW c \in Clients, c \notin Allocated,
         Allocated' = Allocated \cup {c},
         cset' = cset \cup {c},
         nxt' = [nxt EXCEPT ![c] = start],
         prv' = [d \in Clients |->
                   IF d = c THEN NULL ELSE IF d = start THEN c ELSE prv[d]],
         start' = c
  PROVE  ListWellFormed'
<1> USE DEF ListWellFormed
<1>0. /\ c # NULL /\ c # start /\ NULL \notin Allocated /\ Allocated \subseteq Clients
      /\ nxt'[c] = start /\ prv'[c] = NULL
      /\ \A d \in Allocated : nxt'[d] = nxt[d]
      /\ \A d \in Allocated :
           prv'[d] = IF d = start THEN c ELSE prv[d]
  BY NetAssumption DEF PointersAgree, Allocated, TypeOK, ServerTypeOK
<1>1. PointersAgree'
  BY <1>0 DEF PointersAgree
<1>2. ASSUME NEW S \in SUBSET Allocated', Walked(S)'
      PROVE  S = Allocated'
  <2>1. c \in S
    BY <1>0, <1>2 DEF Walked
  <2>2. start \in (S \ {c}) \cup {NULL}
    BY <1>0, <1>2, <2>1 DEF Walked
  <2>3. Walked(S \ {c})
    BY <1>0, <1>2, <2>2 DEF Walked, PointersAgree
  <2>4. S \ {c} = Allocated
    BY <1>2, <2>3
  <2> QED BY <2>1, <2>4
<1> QED BY <1>1, <1>2

LEMMA DropKeepsList ==
  ASSUME TypeOK, ListWellFormed, NEW c \in Allocated, Drop(c)
  PROVE  /\ ListWellFormed'
         /\ Allocated' = Allocated \ {c}
         /\ nxt[c] \in Allocated' \cup {NULL}
<1> USE DEF ListWellFormed
<1>0. /\ NULL \notin Allocated /\ Allocated \subseteq Clients
      /\ nxt[c] # c /\ prv[c] # c
  BY NetAssumption, NoSelfLoop DEF PointersAgree, Allocated
<1>1. Allocated' = Allocated \ {c}
  BY <1>0 DEF Allocated, Drop, TypeOK, ServerTypeOK, FreeStruct
<1>2. /\ nxt[c] \in Allocated' \cup {NULL}
      /\ prv[c] \in Allocated' \cup {NULL}
  BY <1>0, <1>1 DEF PointersAgree
<1>3. \A d \in Allocated' :
        /\ nxt'[d] = IF d = prv[c] THEN nxt[c] ELSE nxt[d]
        /\ prv'[d] = IF d = nxt[c] THEN prv[c] ELSE prv[d]
  BY <1>0, <1>1 DEF Drop, Unlink, TypeOK, ServerTypeOK
<1>4. start' = IF c = start THEN nxt[c] ELSE start
  BY DEF Drop, Unlink
<1>5. PointersAgree'
  BY <1>0, <1>1, <1>2, <1>3, <1>4 DEF PointersAgree
<1>6. ASSUME NEW S \in SUBSET Allocated', Walked(S)'
      PROVE  S = Allocated'
  <2>1. CASE c = start \/ prv[c] \in S
    <3>1. start \in (S \cup {c}) \cup {NULL}
      BY <1>4, <1>6, <2>1 DEF Walked
    <3>2. nxt[c] \in (S \cup {c}) \cup {NULL}
      <4>1. CASE c = start
        BY <1>4, <1>6, <4>1 DEF Walked
      <4>2. CASE prv[c] \in S
        BY <1>3, <1>6, <4>2 DEF Walked
      <4> QED BY <2>1, <4>1, <4>2
    <3>3. \A d \in S : nxt[d] \in (S \cup {c}) \cup {NULL}
      <4> SUFFICES ASSUME NEW d \in S PROVE nxt[d] \in (S \cup {c}) \cup {NULL}
        OBVIOUS
      <4>1. CASE d = prv[c]
        BY <1>0, <1>1, <4>1 DEF PointersAgree
      <4>2. CASE d # prv[c]
        BY <1>3, <1>6, <4>2 DEF Walked
      <4> QED BY <4>1, <4>2
    <3>4. S \cup {c} = Allocated
      <4>1. Walked(S \cup {c})
        BY <3>1, <3>2, <3>3 DEF Walked
      <4>2. S \cup {c} \in SUBSET Allocated
        BY <1>1
      <4> QED BY <4>1, <4>2
    <3> QED BY <1>1, <3>4
  <2>2. CASE c # start /\ prv[c] \notin S
    <3>1. Walked(S)
      BY <1>3, <1>4, <1>6, <2>2 DEF Walked
    <3>2. S = Allocated
      BY <1>1, <3>1
    <3> QED BY <1>1, <3>2
  <2> QED BY <2>1, <2>2
<1>7. cset' = Allocated'
  BY <1>1 DEF Drop
<1> QED BY <1>1, <1>2, <1>5, <1>6, <1>7

----------------------------------------------------------------------------
(* The steps that accept and drop nobody.                                  *)

LEMMA StillAllocated ==
  ASSUME TypeOK, NEW c \in Allocated, cl' \in [Clients -> Struct],
         cl'[c].state # "free",
         \A d \in Clients \ {c} : cl'[d] = cl[d]
  PROVE  Allocated' = Allocated
BY DEF Allocated

LEMMA SameBacklog ==
  ASSUME TypeOK, BacklogFresh, Allocated' \subseteq Allocated,
         UNCHANGED <<backlog, snd>>
  PROVE  BacklogFresh'
<1>1. \A i \in 1 .. Len(backlog) : backlog[i] \in Clients
  BY DEF TypeOK, NetTypeOK
<1> QED BY <1>1 DEF BacklogFresh, Allocated

\* A step of the `if' chain that leaves the list alone.
LEMMA ChainStep ==
  ASSUME ListInv, TypeOK', NEW c \in Allocated, cursor = c,
         UNCHANGED <<cset, start, nxt, prv, backlog, snd>>,
         \A d \in Clients \ {c} : cl'[d] = cl[d],
         cl'[c].state # "free",
         \/ EndVisit(c)
         \/ cursor' = c /\ pc' \in {cl'[c].state, "scan"}
  PROVE  ListInv'
<1>1. Allocated' = Allocated
  BY StillAllocated DEF ListInv, TypeOK, ServerTypeOK
<1>2. ListWellFormed'
  BY <1>1, SameList DEF ListInv
<1>3. BacklogFresh'
  BY <1>1, SameBacklog DEF ListInv
<1>4. CursorLive'
  <2>1. CASE EndVisit(c)
    <3>1. nxt[c] \in Allocated \cup {NULL}
      BY DEF ListInv, ListWellFormed, PointersAgree
    <3> QED BY <1>1, <2>1, <3>1 DEF EndVisit, CursorLive
  <2>2. CASE cursor' = c /\ pc' \in {cl'[c].state, "scan"}
    BY <1>1, <2>2 DEF CursorLive
  <2> QED BY <2>1, <2>2
<1> QED BY <1>2, <1>3, <1>4 DEF ListInv

LEMMA ServeKeepsList ==
  ASSUME ListInv, TypeOK', UNCHANGED snd, NEW c \in Clients, Serve(c)
  PROVE  ListInv'
<1>0. /\ pc # "select" /\ cursor = c => c \in Allocated
      /\ pc \notin {"select", "scan"} /\ cursor = c => cl[c].state = pc
      /\ \A b : cl[c].state = b /\ b # "free" => c \in Allocated
  BY NetAssumption DEF ListInv, CursorLive, Allocated
<1>1. CASE SkipClient(c) \/ NoDirectory(c) \/ StoreFails(c) \/ NullFile(c) \/ ReadError(c)
           \/ VisitClient(c)
  <2>1. c \in Allocated /\ cursor = c /\ cl' = cl
    BY <1>0, <1>1 DEF SkipClient, NoDirectory, StoreFails, NullFile, ReadError, VisitClient, At
  <2>2. UNCHANGED <<cset, start, nxt, prv, backlog, snd>>
    BY <1>1 DEF SkipClient, NoDirectory, StoreFails, NullFile, ReadError, VisitClient,
                listVars, netVars
  <2>3. EndVisit(c) \/ (cursor' = c /\ pc' \in {cl'[c].state, "scan"})
    BY <1>0, <1>1, <2>1
       DEF SkipClient, NoDirectory, StoreFails, NullFile, ReadError, VisitClient, At, EndVisit
  <2> QED BY <2>1, <2>2, <2>3, ChainStep DEF Allocated
<1>2. CASE ReadPartOfName(c)
  <2>1. c \in Allocated /\ cursor = c /\ cl[c].state = "initial"
    BY <1>0, <1>2 DEF ReadPartOfName, At
  <2>2. cl'[c].state = "initial" /\ \A d \in Clients \ {c} : cl'[d] = cl[d]
    BY <1>2, <2>1 DEF ReadPartOfName, ListInv, TypeOK, ServerTypeOK, Struct
  <2> QED BY <1>2, <2>1, <2>2, ChainStep DEF ReadPartOfName, listVars
<1>3. CASE OpenFile(c)
  <2>1. c \in Allocated /\ cursor = c
    BY <1>0, <1>3 DEF OpenFile, At
  <2>2. cl'[c].state = "pre_block" /\ \A d \in Clients \ {c} : cl'[d] = cl[d]
    BY <1>3, <2>1 DEF OpenFile, ListInv, TypeOK, ServerTypeOK, Struct
  <2> QED BY <1>3, <2>1, <2>2, ChainStep DEF OpenFile, listVars
<1>4. CASE StartBlock(c)
  <2>1. c \in Allocated /\ cursor = c
    BY <1>0, <1>4 DEF StartBlock, At
  <2>2. cl'[c].state = "get_block" /\ \A d \in Clients \ {c} : cl'[d] = cl[d]
    BY <1>4, <2>1 DEF StartBlock, ListInv, TypeOK, ServerTypeOK, Struct
  <2> QED BY <1>4, <2>1, <2>2, ChainStep DEF StartBlock, listVars
<1>5. CASE EndOfTransmission(c)
  <2>1. c \in Allocated /\ cursor = c
    BY <1>0, <1>5 DEF EndOfTransmission, At
  <2>2. cl'[c].state = "finished" /\ \A d \in Clients \ {c} : cl'[d] = cl[d]
    BY <1>5, <2>1 DEF EndOfTransmission, ListInv, TypeOK, ServerTypeOK, Struct
  <2> QED BY <1>5, <2>1, <2>2, ChainStep DEF EndOfTransmission, listVars
<1>6. CASE NakMark(c)
  <2>1. c \in Allocated /\ cursor = c /\ cl[c].state = "pre_block"
    BY <1>0, <1>6 DEF NakMark, At
  <2>2. cl'[c].state = "pre_block" /\ \A d \in Clients \ {c} : cl'[d] = cl[d]
    BY <1>6, <2>1 DEF NakMark, ListInv, TypeOK, ServerTypeOK, Struct
  <2> QED BY <1>6, <2>1, <2>2, ChainStep DEF NakMark, listVars
<1>7. CASE GetBlock(c)
  <2>1. c \in Allocated /\ cursor = c /\ cl[c].state = "get_block"
    BY <1>0, <1>7 DEF GetBlock, At
  <2>2. /\ \A d \in Clients \ {c} : cl'[d] = cl[d]
        /\ \/ cl'[c].state = "check_block" /\ pc' = "check_block" /\ cursor' = c
           \/ cl'[c].state = "get_block" /\ EndVisit(c)
    <3>1. cl \in [Clients -> Struct] /\ cl[c] \in Struct
      BY DEF ListInv, TypeOK, ServerTypeOK
    <3>2. PICK n \in ReadCounts(c, cl[c].blocksize - cl[c].inbuf) :
            /\ \A d \in Clients \ {c} : cl'[d] = cl[d]
            /\ IF cl[c].inbuf + n = cl[c].blocksize
               THEN cl'[c].state = "check_block" /\ pc' = "check_block"
                    /\ UNCHANGED cursor
               ELSE cl'[c].state = cl[c].state /\ EndVisit(c)
      BY <1>7, <3>1 DEF GetBlock, Struct
    <3> QED BY <2>1, <3>2
  <2> QED BY <1>7, <2>1, <2>2, ChainStep DEF GetBlock, listVars
<1>8. CASE AcceptBlock(c) \/ NakBlock(c)
  <2>1. c \in Allocated /\ cursor = c
    BY <1>0, <1>8 DEF AcceptBlock, NakBlock, At
  <2>2. cl'[c].state = "pre_block" /\ \A d \in Clients \ {c} : cl'[d] = cl[d]
    BY <1>8, <2>1 DEF AcceptBlock, NakBlock, ListInv, TypeOK, ServerTypeOK, Struct
  <2> QED BY <1>8, <2>1, <2>2, ChainStep DEF AcceptBlock, NakBlock, listVars
<1>9. CASE RepeatBlock(c)
  <2>1. c \in Allocated /\ cursor = c /\ cl' = cl
    BY <1>0, <1>9 DEF RepeatBlock, At
  <2> QED BY <1>9, <2>1, ChainStep DEF RepeatBlock, listVars, Allocated
<1>10. CASE DropClient(c)
  <2>1. c \in Allocated
    BY <1>0, <1>10 DEF DropClient, At
  <2>2. ListWellFormed' /\ Allocated' = Allocated \ {c}
    BY <1>10, <2>1, DropKeepsList DEF DropClient, ListInv
  <2>3. CursorLive'
    BY <1>10 DEF DropClient, CursorLive
  <2>4. BacklogFresh'
    BY <1>10, <2>2, SameBacklog DEF DropClient, ListInv
  <2> QED BY <2>2, <2>3, <2>4 DEF ListInv
<1>11. CASE Finish(c)
  <2>1. c \in Allocated /\ cursor = c /\ cl[c].state = "finished"
    BY <1>0, <1>11 DEF Finish, At
  <2>2. CASE Drop(c) /\ cl[c].fp = "open"
    <3>1. /\ ListWellFormed' /\ Allocated' = Allocated \ {c}
          /\ nxt[c] \in Allocated' \cup {NULL}
      BY <2>1, <2>2, DropKeepsList DEF ListInv
    <3>2. cursor' \in Allocated' \cup {NULL}
      BY <1>11, <2>2, <3>1 DEF Finish, ListWellFormed, PointersAgree
    <3>3. CursorLive'
      BY <1>11, <3>2 DEF Finish, CursorLive
    <3>4. BacklogFresh'
      BY <1>11, <3>1, SameBacklog DEF Finish, ListInv
    <3> QED BY <3>1, <3>3, <3>4 DEF ListInv
  <2>3. CASE cl[c].fp # "open"
    <3>1. cl' = cl /\ UNCHANGED <<cset, start, nxt, prv, backlog, cursor>>
          /\ pc' = "scan"
      BY <1>11, <2>3 DEF Finish, listVars
    <3> QED BY <2>1, <3>1, ChainStep DEF Allocated
  <2> QED BY <1>11, <2>2, <2>3 DEF Finish
<1> QED BY <1>1, <1>2, <1>3, <1>4, <1>5, <1>6, <1>7, <1>8, <1>9, <1>10, <1>11
        DEF Serve

LEMMA AcceptKeepsList ==
  ASSUME ListInv, TypeOK', UNCHANGED snd, Accept
  PROVE  ListInv'
<1> DEFINE c == Head(backlog)
<1>1. /\ backlog \in Seq(Clients) /\ backlog # << >> /\ c = backlog[1]
      /\ 1 \in 1 .. Len(backlog) /\ c \in Clients
  BY HeadTailProperties DEF Accept, ListInv, TypeOK, NetTypeOK
<1>2. c \notin Allocated
  BY <1>1 DEF ListInv, BacklogFresh, Allocated
<1>3. /\ cl'[c].state = "initial"
      /\ \A d \in Clients \ {c} : cl'[d] = cl[d]
  BY <1>1 DEF Accept, ListInv, TypeOK, ServerTypeOK, FreeStruct
<1>4. Allocated' = Allocated \cup {c}
  BY <1>1, <1>3 DEF Allocated
<1>5. ListWellFormed'
  BY <1>1, <1>2, <1>4, InsertKeepsList DEF Accept, ListInv
<1>6. CursorLive'
  BY DEF Accept, CursorLive
<1>7. BacklogFresh'
  <2>1. /\ Len(backlog') = Len(backlog) - 1
        /\ \A i \in 1 .. Len(backlog') : /\ backlog'[i] = backlog[i + 1]
                                         /\ i + 1 \in 1 .. Len(backlog)
    BY <1>1, HeadTailProperties DEF Accept
  <2>2. \A i \in 1 .. Len(backlog') : backlog'[i] # c
    BY <1>1, <2>1 DEF ListInv, BacklogFresh
  <2>3. \A i \in 1 .. Len(backlog') : backlog'[i] \in Clients
    BY <2>1, <1>1
  <2>4. ASSUME NEW i \in 1 .. Len(backlog')
        PROVE  cl'[backlog'[i]].state = "free" /\ snd'[backlog'[i]].phase # "idle"
    BY SMTT(30), <1>3, <2>1, <2>2, <2>3 DEF ListInv, BacklogFresh
  <2>5. ASSUME NEW i \in 1 .. Len(backlog'), NEW j \in 1 .. Len(backlog'),
               backlog'[i] = backlog'[j]
        PROVE  i = j
    BY <1>1, <2>1, <2>5 DEF ListInv, BacklogFresh
  <2>6. \A d \in Clients : snd'[d].phase = "idle" => cl'[d].state = "free"
    BY <1>1, <1>3 DEF ListInv, BacklogFresh
  <2> QED BY <2>4, <2>5, <2>6 DEF BacklogFresh
<1> QED BY <1>5, <1>6, <1>7 DEF ListInv

\* Clients never touch the server's memory; Connect adds a fresh connection.
LEMMA ClientKeepsList ==
  ASSUME ListInv, TypeOK', UNCHANGED serverVars, NEW c \in Clients,
         Progress(c) \/ NoticeEnd(c, server = "running") \/ Fault(c)
  PROVE  ListInv'
<1>1. Allocated' = Allocated /\ ListWellFormed' /\ CursorLive'
  BY SameList DEF ListInv, serverVars, Allocated, CursorLive
<1>2. CASE Connect(c)
  <2>1. /\ backlog \in Seq(Clients) /\ snd[c].phase = "idle"
        /\ cl[c].state = "free"
        /\ snd'[c].phase = "hello" /\ \A d \in Clients \ {c} : snd'[d] = snd[d]
    BY <1>2 DEF Connect, ListInv, BacklogFresh, TypeOK, NetTypeOK, SenderTypeOK,
                Sender
  <2>2. /\ Len(backlog') = Len(backlog) + 1
        /\ \A i \in 1 .. Len(backlog) : backlog'[i] = backlog[i]
        /\ backlog'[Len(backlog) + 1] = c
        /\ \A i \in 1 .. Len(backlog) : backlog[i] \in Clients
        /\ \A i \in 1 .. Len(backlog') :
             i \in 1 .. Len(backlog) \/ i = Len(backlog) + 1
    BY <1>2, <2>1, AppendProperties DEF Connect
  <2>3. \A i \in 1 .. Len(backlog) : backlog[i] # c
    BY <2>1 DEF ListInv, BacklogFresh
  <2>4. cl' = cl
    BY DEF serverVars
  <2>5. ASSUME NEW i \in 1 .. Len(backlog')
        PROVE  cl'[backlog'[i]].state = "free" /\ snd'[backlog'[i]].phase # "idle"
    BY <2>1, <2>2, <2>3, <2>4 DEF ListInv, BacklogFresh
  <2>6. ASSUME NEW i \in 1 .. Len(backlog'), NEW j \in 1 .. Len(backlog'),
               backlog'[i] = backlog'[j]
        PROVE  i = j
    BY <2>2, <2>3, <2>6 DEF ListInv, BacklogFresh
  <2>7. \A d \in Clients : snd'[d].phase = "idle" => cl'[d].state = "free"
    BY <2>1, <2>4 DEF ListInv, BacklogFresh
  <2> QED BY <1>1, <2>5, <2>6, <2>7 DEF ListInv, BacklogFresh
<1>3. CASE ~ Connect(c)
  <2>1. /\ backlog' = backlog
        /\ snd[c].phase # "idle" /\ snd'[c].phase # "idle"
        /\ \A d \in Clients \ {c} : snd'[d] = snd[d]
    BY <1>3 DEF Progress, Fault, SendName, SendBlock, SendEot, Receive, ReceiveC,
                ReceiveAck, ReceiveNak, ReceiveDone, Timeout, Disconnect,
                NoticeEnd, netVars, ListInv, TypeOK, SenderTypeOK, Sender
  <2>2. \A i \in 1 .. Len(backlog) : backlog[i] \in Clients
    BY DEF ListInv, TypeOK, NetTypeOK
  <2>3. BacklogFresh'
    BY <2>1, <2>2 DEF ListInv, BacklogFresh, serverVars
  <2> QED BY <1>1, <2>3 DEF ListInv
<1> QED BY <1>2, <1>3

LEMMA InitListInv == Init => ListInv
<1> SUFFICES ASSUME Init PROVE ListInv
  OBVIOUS
<1>1. Allocated = {}
  BY DEF Init, ServerInit, FreeStruct, Allocated
<1>2. ListWellFormed /\ CursorLive
  BY <1>1 DEF Init, ServerInit, ListWellFormed, PointersAgree, Walked, CursorLive
<1>3. BacklogFresh
  BY DEF Init, NetInit, ServerInit, FreeStruct, BacklogFresh
<1> QED BY <1>2, <1>3, InitTypeOK DEF ListInv

LEMMA ListInvPreserved == ListInv /\ [Next]_vars => ListInv'
<1> SUFFICES ASSUME ListInv, [Next]_vars PROVE ListInv'
  OBVIOUS
<1>0. TypeOK'
  BY TypePreserved DEF ListInv
<1>1. CASE ServerActs
  <2>1. CASE Accept
    BY <1>0, <1>1, <2>1, AcceptKeepsList DEF ServerActs
  <2>2. CASE Poll \/ EndScan
    <3>1. Allocated' = Allocated /\ ListWellFormed'
      BY <2>2, SameList DEF Poll, EndScan, listVars, ListInv, Allocated
    <3>2. CursorLive'
      BY <2>2, <3>1
         DEF Poll, EndScan, CursorLive, ListInv, ListWellFormed, PointersAgree
    <3>3. BacklogFresh'
      BY <1>1, <2>2, <3>1, SameBacklog
         DEF Poll, EndScan, netVars, ListInv, ServerActs
    <3> QED BY <1>0, <3>1, <3>2, <3>3 DEF ListInv
  <2>3. CASE \E c \in Clients : Serve(c)
    BY <1>0, <1>1, <2>3, ServeKeepsList DEF ServerActs
  <2> QED BY <1>1, <2>1, <2>2, <2>3 DEF ServerActs, ServerStep
<1>2. ASSUME NEW c \in Clients, ClientActs(c) \/ FaultHappens(c)
      PROVE  ListInv'
  BY <1>0, <1>2, ClientKeepsList DEF ClientActs, FaultHappens
<1>3. CASE UNCHANGED vars
  <2>1. Allocated' = Allocated /\ ListWellFormed' /\ CursorLive'
    BY <1>3, SameList DEF vars, serverVars, ListInv, Allocated, CursorLive
  <2> QED BY <1>0, <1>3, <2>1, SameBacklog DEF vars, netVars, serverVars, ListInv
<1> QED BY <1>1, <1>2, <1>3 DEF Next

\* However accepts and drops interleave, the list of clients is the set that
\* select watches, its pointers agree and none leads to a freed struct
\* (drop_client, xmodemserver.c:49-71, and the insertion at 128-137).
THEOREM ListCorrect == Spec => []ListWellFormed
<1>1. ListInv => ListWellFormed
  BY DEF ListInv
<1> QED BY <1>1, InitListInv, ListInvPreserved, PTL DEF Spec

\* The walk never uses a client after drop_client has freed it, though each drop
\* frees the client the walk stands on (xmodemserver.c:146-298).
THEOREM NoUseAfterFree == Spec => []CursorLive
<1>1. ListInv => CursorLive
  BY DEF ListInv
<1> QED BY <1>1, InitListInv, ListInvPreserved, PTL DEF Spec

-----------------------------------------------------------------------------
(* Server and clients stay in step: what the server reads next begins where *)
(* the client's next frame begins.  The invariant describes, per client,   *)
(* the whole queue of unread frames: the file name alone while the struct  *)
(* is new, and later one frame in the course of being read followed by     *)
(* frames nobody has touched.                                              *)

FullLen(mark) == IF mark = EOT THEN 1 ELSE 1 + BlockSize(mark)

\* left bytes remain of full, fewer only in the last frame of a client that went
\* away.
Remains(c, j, left, full) ==
  /\ left \in Nat \ {0}
  /\ \/ left = full
     \/ conn[c] = "closed" /\ j = Len(toServer[c]) /\ left < full

\* Frame j of c's queue is not the name, and nobody has read any of it.
Untouched(c, j) ==
  /\ toServer[c][j].mark # LF
  /\ Remains(c, j, toServer[c][j].left, FullLen(toServer[c][j].mark))

\* k bytes of the name have been read, and nothing was sent but the name.
NameOnly(c, k) ==
  /\ toClient[c] = << >>
  /\ snd[c].phase \in {"idle", "hello", "waitC", "gone"}
  /\ snd[c].phase \in {"idle", "hello"} => toServer[c] = << >> /\ k = 0
  /\ toServer[c] # << >> =>
       /\ Len(toServer[c]) = 1
       /\ toServer[c][1].mark = LF
       /\ Remains(c, 1, toServer[c][1].left, NameLen[c] + 2 - k)

\* The queue of a client whose file has been opened.
Framed(c) ==
  LET q == toServer[c] IN
  /\ snd[c].phase \notin {"idle", "hello"}
  /\ \A j \in 2 .. Len(q) : Untouched(c, j)
  /\ cl[c].state # "get_block" /\ q # << >> =>
       (q[1].mark = LF /\ q[1].left = 1) \/ Untouched(c, 1)
  /\ cl[c].state = "pre_block" => cl[c].inbuf = 0
  /\ cl[c].state = "get_block" =>
       /\ cl[c].inbuf < cl[c].blocksize
       /\ q = << >> => conn[c] = "closed"
       /\ q # << >> =>
            /\ q[1].mark \in {SOH, STX}
            /\ cl[c].blocksize = BlockSize(q[1].mark)
            /\ Remains(c, 1, q[1].left, cl[c].blocksize - cl[c].inbuf)

Opened == {"pre_block", "get_block", "check_block", "finished"}

Framing(c) ==
  /\ snd[c].phase = "idle" => NameOnly(c, 0)
  /\ \A i \in 1 .. Len(backlog) : backlog[i] = c => NameOnly(c, 0)
  /\ cl[c].state = "initial" => NameOnly(c, cl[c].inbuf)
  /\ cl[c].state \in Opened => Framed(c)

SyncInv == ListInv /\ \A c \in Clients : Framing(c)

----------------------------------------------------------------------------
(* What a read leaves of a queue.                                          *)

LEMMA ReadQueue ==
  ASSUME NEW q \in Seq(Frame), q # << >>, NEW n \in Nat \ {0}, n <= q[1].left
  PROVE  LET r == AfterRead(q, n) IN
         /\ n = q[1].left =>
              /\ Len(r) = Len(q) - 1
              /\ \A j \in 1 .. Len(r) : r[j] = q[j + 1] /\ j + 1 \in 2 .. Len(q)
         /\ n # q[1].left =>
              /\ Len(r) = Len(q) /\ r # << >>
              /\ r[1].left = q[1].left - n
              /\ r[1].mark = q[1].mark /\ r[1].blk = q[1].blk
              /\ \A j \in 2 .. Len(q) : r[j] = q[j]
<1>1. Head(q) = q[1] /\ q[1] \in Frame /\ 1 \in 1 .. Len(q)
  OBVIOUS
<1>2. CASE n = q[1].left
  <2>1. AfterRead(q, n) = Tail(q)
    BY <1>1, <1>2 DEF AfterRead
  <2> QED BY <1>2, <2>1, HeadTailProperties
<1>3. CASE n # q[1].left
  <2> DEFINE f == [q[1] EXCEPT !.left = @ - n]
  <2>1. AfterRead(q, n) = [q EXCEPT ![1] = f]
    BY <1>1, <1>3 DEF AfterRead
  <2>2. f.left = q[1].left - n /\ f.mark = q[1].mark /\ f.blk = q[1].blk
    BY <1>1 DEF Frame
  <2> HIDE DEF f
  <2>3. Len([q EXCEPT ![1] = f]) = Len(q) /\ [q EXCEPT ![1] = f] # << >>
        /\ [q EXCEPT ![1] = f][1] = f
        /\ \A j \in 2 .. Len(q) : [q EXCEPT ![1] = f][j] = q[j]
    BY <1>1
  <2> QED BY <1>3, <2>1, <2>2, <2>3
<1> QED BY <1>2, <1>3

\* read(2) by its result.
LEMMA ReadResult ==
  ASSUME TypeOK, NEW c \in Clients, NEW size \in Int,
         NEW n \in ReadCounts(c, size)
  PROVE  /\ n \in Nat
         /\ n = 0 => /\ AfterRead(toServer[c], n) = toServer[c]
                     /\ \/ size = 0
                        \/ toServer[c] = << >> /\ conn[c] = "closed"
         /\ n # 0 => /\ toServer[c] # << >>
                     /\ n <= toServer[c][1].left /\ n <= size
<1>1. toServer[c] \in Seq(Frame)
  BY DEF TypeOK, NetTypeOK
<1>2. toServer[c] # << >> => Head(toServer[c]) = toServer[c][1]
                             /\ toServer[c][1] \in Frame
  BY <1>1
<1> QED BY <1>2 DEF ReadCounts, AfterRead, Frame

----------------------------------------------------------------------------
(* One client's steps do not disturb another's.                            *)

\* Nothing of what Framing says of d has changed, apart from the backlog.
LEMMA OtherClient ==
  ASSUME NEW d \in Clients, Framing(d),
         cl'[d] = cl[d], snd'[d] = snd[d], conn'[d] = conn[d],
         toServer'[d] = toServer[d], toClient'[d] = toClient[d],
         \A i \in 1 .. Len(backlog') : backlog'[i] = d =>
            NameOnly(d, 0)
  PROVE  Framing(d)'
BY DEF Framing, NameOnly, Framed, Untouched, Remains

\* An allocated client is neither idle nor in the backlog.
LEMMA AllocatedNotFresh ==
  ASSUME ListInv, NEW c \in Allocated
  PROVE  snd[c].phase # "idle" /\ \A i \in 1 .. Len(backlog) : backlog[i] # c
BY DEF ListInv, BacklogFresh, Allocated

\* Serving c leaves every other client alone.
LEMMA ServeLocal ==
  ASSUME TypeOK, NEW c \in Clients, Serve(c)
  PROVE  /\ backlog' = backlog
         /\ \A d \in Clients \ {c} :
              /\ cl'[d] = cl[d] /\ conn'[d] = conn[d] /\ file'[d] = file[d]
              /\ toServer'[d] = toServer[d] /\ toClient'[d] = toClient[d]
              /\ d \in finished' <=> d \in finished
<1> USE DEF TypeOK, ServerTypeOK, NetTypeOK
<1>1. CASE SkipClient(c) \/ VisitClient(c) \/ NoDirectory(c) \/ StoreFails(c) \/ NullFile(c)
           \/ ReadError(c)
  BY <1>1 DEF SkipClient, VisitClient, NoDirectory, StoreFails, NullFile, ReadError, netVars
<1>2. CASE ReadPartOfName(c)
  BY <1>2 DEF ReadPartOfName
<1>3. CASE OpenFile(c)
  BY <1>3 DEF OpenFile, AfterWrite
<1>4. CASE StartBlock(c) \/ EndOfTransmission(c)
  BY <1>4 DEF StartBlock, EndOfTransmission
<1>5. CASE NakMark(c)
  BY <1>5 DEF NakMark, AfterWrite
<1>6. CASE GetBlock(c)
  BY <1>6 DEF GetBlock
<1>7. CASE DropClient(c)
  BY <1>7 DEF DropClient, Drop
<1>8. CASE AcceptBlock(c)
  BY <1>8 DEF AcceptBlock, AfterWrite
<1>9. CASE NakBlock(c)
  BY <1>9 DEF NakBlock, AfterWrite
<1>10. CASE RepeatBlock(c)
  BY <1>10 DEF RepeatBlock, AfterWrite
<1>11. CASE Finish(c)
  BY <1>11 DEF Finish, AfterWrite, Drop
<1> QED BY <1>1, <1>2, <1>3, <1>4, <1>5, <1>6, <1>7, <1>8, <1>9, <1>10, <1>11
        DEF Serve

\* What a step that serves an allocated client c has to show of c itself.
LEMMA ServedFraming ==
  ASSUME ListInv, NEW c \in Allocated, UNCHANGED <<snd, backlog>>,
         cl'[c].state = "initial" => NameOnly(c, cl[c].inbuf)',
         cl'[c].state \in Opened => Framed(c)'
  PROVE  Framing(c)'
<1>1. snd'[c].phase # "idle" /\ \A i \in 1 .. Len(backlog') : backlog'[i] # c
  BY AllocatedNotFresh
<1> QED BY <1>1 DEF Framing

\* A step that reads and assigns nothing of c.
LEMMA SameFraming ==
  ASSUME NEW c \in Clients, Framing(c), UNCHANGED <<snd, backlog, toServer>>,
         conn'[c] = conn[c], cl'[c] = cl[c],
         cl[c].state \in Opened, snd[c].phase # "idle",
         \A i \in 1 .. Len(backlog) : backlog[i] # c
  PROVE  Framing(c)'
<1>1. Framed(c)'
  BY DEF Framing, Framed, Untouched, Remains
<1> QED BY <1>1 DEF Framing, Opened

LEMMA ReadNameFraming ==
  ASSUME SyncInv, TypeOK', UNCHANGED snd, NEW c \in Allocated,
         ReadPartOfName(c)
  PROVE  Framing(c)'
<1>1. /\ cl[c].state = "initial" /\ NameOnly(c, cl[c].inbuf) /\ c \in Clients
      /\ cl[c] \in Struct /\ cl[c].inbuf \in Nat /\ NameLen[c] \in Nat
  BY NetAssumption DEF SyncInv, ListInv, CursorLive, ReadPartOfName, At, Framing,
     Allocated, TypeOK, ServerTypeOK, Struct
<1>2. PICK n \in ReadCounts(c, NameCap - cl[c].inbuf) :
        /\ cl' = [cl EXCEPT ![c].inbuf = @ + n]
        /\ toServer' = [toServer EXCEPT ![c] = AfterRead(@, n)]
  BY DEF ReadPartOfName
<1>3. /\ cl'[c].state = "initial" /\ cl'[c].inbuf = cl[c].inbuf + n
      /\ toServer'[c] = AfterRead(toServer[c], n) /\ toServer[c] \in Seq(Frame)
      /\ conn' = conn /\ toClient' = toClient
  BY <1>1, <1>2
     DEF SyncInv, ListInv, TypeOK, ServerTypeOK, NetTypeOK, Struct, ReadPartOfName
<1>4. n \in Nat /\ (n = 0 => toServer'[c] = toServer[c])
      /\ (n # 0 => toServer[c] # << >> /\ n <= toServer[c][1].left)
  BY <1>1, <1>3, ReadResult, NetAssumption DEF SyncInv, ListInv
<1>5. CASE n = 0
  <2>1. NameOnly(c, cl[c].inbuf)'
    BY <1>1, <1>3, <1>4, <1>5 DEF NameOnly, Remains
  <2> QED BY <1>3, <2>1, ServedFraming DEF ReadPartOfName, SyncInv, Opened
<1>6. CASE n # 0
  <2>1. /\ toServer[c] # << >> /\ Len(toServer[c]) = 1
        /\ snd[c].phase \notin {"idle", "hello"}
        /\ toServer[c][1].mark = LF
        /\ Remains(c, 1, toServer[c][1].left, NameLen[c] + 2 - cl[c].inbuf)
    BY <1>1, <1>4, <1>6 DEF NameOnly
  <2>2. CASE n = toServer[c][1].left
    <3>1. toServer'[c] = << >>
      <4>1. Len(toServer'[c]) = Len(toServer[c]) - 1
        <5> DEFINE q == toServer[c]
        <5>1. /\ q \in Seq(Frame) /\ q # << >> /\ n \in Nat \ {0}
              /\ n = q[1].left /\ toServer'[c] = AfterRead(q, n)
          BY <1>3, <1>4, <1>6, <2>1, <2>2
        <5> HIDE DEF q
        <5>2. n <= q[1].left
          BY <5>1
        <5>3. Len(AfterRead(q, n)) = Len(q) - 1
          BY <5>1, <5>2, ReadQueue
        <5> QED BY <5>1, <5>3 DEF q
      <4>2. Len(toServer'[c]) = 0
        BY <2>1, <4>1
      <4> QED BY <1>1, <4>2, EmptySeq DEF TypeOK, NetTypeOK
    <3> QED BY <1>1, <1>3, <2>1, <3>1, ServedFraming
          DEF ReadPartOfName, SyncInv, NameOnly, Opened
  <2>3. CASE n # toServer[c][1].left
    <3>1. /\ Len(toServer'[c]) = 1 /\ toServer'[c] # << >>
          /\ toServer'[c][1].left = toServer[c][1].left - n
          /\ toServer'[c][1].mark = LF
      <4> DEFINE q == toServer[c]
      <4>1. /\ q \in Seq(Frame) /\ q # << >> /\ n \in Nat \ {0}
            /\ n <= q[1].left /\ n # q[1].left /\ toServer'[c] = AfterRead(q, n)
            /\ Len(q) = 1 /\ q[1].mark = LF
        BY <1>3, <1>4, <1>6, <2>1, <2>3
      <4> HIDE DEF q
      <4>2. /\ Len(AfterRead(q, n)) = 1 /\ AfterRead(q, n) # << >>
            /\ AfterRead(q, n)[1].mark = LF
            /\ AfterRead(q, n)[1].left = q[1].left - n
        BY <4>1, ReadQueue
      <4> QED BY <4>1, <4>2 DEF q
    <3>2. Remains(c, 1, toServer[c][1].left, NameLen[c] + 2 - cl[c].inbuf)
            => Remains(c, 1, toServer[c][1].left - n,
                       NameLen[c] + 2 - (cl[c].inbuf + n))
      <4> DEFINE left == toServer[c][1].left
      <4>1. left \in Nat \ {0} /\ n \in Nat /\ n < left /\ cl[c].inbuf \in Nat
        BY <1>1, <1>4, <1>6, <2>1, <2>3 DEF Remains
      <4> HIDE DEF left
      <4>2. ASSUME NEW k \in Nat, Remains(c, 1, left, NameLen[c] + 2 - k)
            PROVE  Remains(c, 1, left - n, NameLen[c] + 2 - (k + n))
        BY <1>1, <4>1, <4>2 DEF Remains
      <4> QED BY <4>1, <4>2 DEF left
    <3>3. NameOnly(c, cl[c].inbuf)'
      BY <1>1, <1>3, <2>1, <3>1, <3>2 DEF NameOnly, Remains
    <3> QED BY <1>3, <3>3, ServedFraming DEF ReadPartOfName, SyncInv, Opened
  <2> QED BY <2>2, <2>3
<1> QED BY <1>5, <1>6

LEMMA OpenFileFraming ==
  ASSUME SyncInv, TypeOK', UNCHANGED snd, NEW c \in Allocated, OpenFile(c)
  PROVE  Framing(c)'
<1>1. /\ cl[c].state = "initial" /\ NameOnly(c, cl[c].inbuf) /\ c \in Clients
      /\ cl[c] \in Struct /\ cl[c].inbuf \in Nat /\ NameLen[c] \in Nat
  BY NetAssumption DEF SyncInv, ListInv, CursorLive, OpenFile, At, Framing,
     Allocated, TypeOK, ServerTypeOK, Struct
<1>2. PICK n \in ReadCounts(c, NameCap - cl[c].inbuf),
           r \in OpenResults \ {"no_dir"} :
        /\ NewlineFound(c, cl[c].inbuf + n)
        /\ toServer' = [toServer EXCEPT ![c] = AfterRead(@, n)]
        /\ cl' = [cl EXCEPT ![c].state = "pre_block", ![c].inbuf = 0,
                            ![c].current_block = 1, ![c].fp = r]
  BY DEF OpenFile
<1>3. /\ cl'[c].state = "pre_block" /\ cl'[c].inbuf = 0
      /\ toServer'[c] = AfterRead(toServer[c], n) /\ toServer[c] \in Seq(Frame)
      /\ conn' = conn
  BY <1>1, <1>2
     DEF SyncInv, ListInv, TypeOK, ServerTypeOK, NetTypeOK, Struct, OpenFile
<1>4. n \in Nat /\ (n = 0 => toServer'[c] = toServer[c])
      /\ (n # 0 => toServer[c] # << >> /\ n <= toServer[c][1].left)
  BY <1>1, <1>3, ReadResult, NetAssumption DEF SyncInv, ListInv
<1>5. cl[c].inbuf + n \in {NameLen[c] + 1, NameLen[c] + 2} /\ NameLen[c] > 0
  BY <1>2 DEF NewlineFound
<1>6. toServer'[c] = << >> \/ (/\ Len(toServer'[c]) = 1
                               /\ toServer'[c][1].mark = LF
                               /\ toServer'[c][1].left = 1)
  <2>1. CASE toServer[c] = << >>
    BY <1>4, <2>1
  <2>2. CASE toServer[c] # << >>
    <3>1. /\ Len(toServer[c]) = 1 /\ toServer[c][1].mark = LF
          /\ toServer[c][1].left \in Nat \ {0}
          /\ toServer[c][1].left <= NameLen[c] + 2 - cl[c].inbuf
      BY <1>1, <2>2 DEF NameOnly, Remains
    <3>2. CASE n = 0
      BY SMTT(30), <1>1, <1>4, <1>5, <3>1, <3>2
    <3>3. CASE n # 0 /\ n = toServer[c][1].left
      BY <1>3, <2>2, <3>1, <3>3 DEF AfterRead
    <3>4. CASE n # 0 /\ n # toServer[c][1].left
      <4>1. /\ Len(toServer'[c]) = 1 /\ toServer'[c][1].mark = LF
            /\ toServer'[c][1].left = toServer[c][1].left - n
        <5> DEFINE q == toServer[c]
        <5>1. /\ q \in Seq(Frame) /\ q # << >> /\ n \in Nat \ {0}
              /\ n <= q[1].left /\ n # q[1].left /\ toServer'[c] = AfterRead(q, n)
              /\ Len(q) = 1 /\ q[1].mark = LF
          BY <1>3, <1>4, <2>2, <3>1, <3>4
        <5> HIDE DEF q
        <5>2. /\ Len(AfterRead(q, n)) = 1 /\ AfterRead(q, n)[1].mark = LF
              /\ AfterRead(q, n)[1].left = q[1].left - n
          BY <5>1, ReadQueue
        <5> QED BY <5>1, <5>2 DEF q
      <4> DEFINE left == toServer[c][1].left
                 k == cl[c].inbuf
      <4>2. /\ left \in Nat \ {0} /\ n \in Nat /\ n < left /\ k \in Nat
            /\ left <= NameLen[c] + 2 - k /\ NameLen[c] \in Nat
            /\ k + n \in {NameLen[c] + 1, NameLen[c] + 2}
        BY <1>1, <1>4, <1>5, <2>2, <3>1, <3>4
      <4> HIDE DEF left, k
      <4>3. left - n = 1
        BY <4>2
      <4> QED BY <4>1, <4>3 DEF left
    <3> QED BY <3>2, <3>3, <3>4
  <2> QED BY <2>1, <2>2
<1>7. snd[c].phase \notin {"idle", "hello"}
  <2>1. snd[c].phase # "idle"
    BY AllocatedNotFresh DEF SyncInv
  <2>2. snd[c].phase # "hello"
    <3> SUFFICES ASSUME snd[c].phase = "hello" PROVE FALSE
      OBVIOUS
    <3>1. toServer[c] = << >> /\ cl[c].inbuf = 0
      BY <1>1 DEF NameOnly
    <3>2. n = 0
      BY <1>4, <3>1
    <3>3. 0 + 0 \in {NameLen[c] + 1, NameLen[c] + 2}
      BY <1>5, <3>1, <3>2
    <3> QED BY <1>1, <3>3
  <2> QED BY <2>1, <2>2
<1>8. Framed(c)'
  <2>1. Len(toServer'[c]) \in {0, 1}
    BY <1>6
  <2>2. \A j \in 2 .. Len(toServer'[c]) : FALSE
    <3> DEFINE l == Len(toServer'[c])
    <3>1. l \in {0, 1}
      BY <2>1
    <3> HIDE DEF l
    <3>2. \A j \in 2 .. l : FALSE
      BY <3>1
    <3> QED BY <3>2 DEF l
  <2>3. /\ cl'[c].state # "get_block" /\ cl'[c].inbuf = 0
        /\ snd'[c].phase \notin {"idle", "hello"}
    BY <1>3, <1>7
  <2> QED BY <1>6, <2>2, <2>3 DEF Framed
<1> QED BY <1>3, <1>8, ServedFraming DEF OpenFile, SyncInv

\* The frames behind a frame that was read to its end move up untouched.
LEMMA NextFrame ==
  ASSUME TypeOK, NEW c \in Clients, toServer[c] # << >>,
         \A j \in 2 .. Len(toServer[c]) : Untouched(c, j),
         toServer[c][1].left # 0,
         toServer'[c] = AfterRead(toServer[c], toServer[c][1].left),
         conn'[c] = conn[c]
  PROVE  /\ Len(toServer'[c]) = Len(toServer[c]) - 1
         /\ \A j \in 1 .. Len(toServer'[c]) : Untouched(c, j)'
<1>1. toServer[c] \in Seq(Frame) /\ Len(toServer[c]) \in Nat \ {0}
      /\ toServer[c][1] \in Frame
  BY DEF TypeOK, NetTypeOK
<1>2. toServer[c][1].left \in Nat \ {0}
  BY <1>1 DEF Frame
<1>3. /\ Len(toServer'[c]) = Len(toServer[c]) - 1
      /\ \A j \in 1 .. Len(toServer'[c]) :
           toServer'[c][j] = toServer[c][j + 1] /\ j + 1 \in 2 .. Len(toServer[c])
  BY <1>1, <1>2, ReadQueue
<1>4. ASSUME NEW j \in 1 .. Len(toServer'[c]) PROVE Untouched(c, j)'
  <2>1. Untouched(c, j + 1) /\ toServer'[c][j] = toServer[c][j + 1]
    BY <1>3
  <2>2. j + 1 = Len(toServer[c]) => j = Len(toServer'[c])
    BY <1>1, <1>3
  <2> QED BY <2>1, <2>2 DEF Untouched, Remains
<1> QED BY <1>3, <1>4

\* The frames behind one that was read in part stay as they are.
LEMMA SameFrames ==
  ASSUME TypeOK, NEW c \in Clients, toServer[c] # << >>,
         \A j \in 2 .. Len(toServer[c]) : Untouched(c, j),
         NEW n \in Nat \ {0}, n < toServer[c][1].left,
         toServer'[c] = AfterRead(toServer[c], n),
         conn'[c] = conn[c]
  PROVE  /\ toServer'[c] # << >> /\ Len(toServer'[c]) = Len(toServer[c])
         /\ toServer'[c][1].left = toServer[c][1].left - n
         /\ toServer'[c][1].mark = toServer[c][1].mark
         /\ \A j \in 2 .. Len(toServer'[c]) : Untouched(c, j)'
<1>1. toServer[c] \in Seq(Frame) /\ toServer[c][1] \in Frame
  BY DEF TypeOK, NetTypeOK
<1>2. /\ toServer[c][1].left \in Nat /\ n <= toServer[c][1].left
      /\ n # toServer[c][1].left
  BY <1>1 DEF Frame
<1>3. /\ toServer'[c] # << >> /\ Len(toServer'[c]) = Len(toServer[c])
      /\ toServer'[c][1].left = toServer[c][1].left - n
      /\ toServer'[c][1].mark = toServer[c][1].mark
      /\ \A j \in 2 .. Len(toServer[c]) : toServer'[c][j] = toServer[c][j]
  BY <1>1, <1>2, ReadQueue
<1> QED BY <1>3 DEF Untouched, Remains

\* In pre_block: what one byte of the queue says.
LEMMA MarkRead ==
  ASSUME SyncInv, NEW c \in Allocated, cl[c].state = "pre_block",
         NEW n \in ReadCounts(c, 1)
  PROVE  /\ Framed(c) /\ cl[c].inbuf = 0
         /\ n = 0 => /\ toServer[c] = << >> /\ conn[c] = "closed"
                     /\ AfterRead(toServer[c], n) = toServer[c]
         /\ n # 0 => /\ n = 1 /\ toServer[c] # << >>
                     /\ ReadMark(c, n) = toServer[c][1].mark
                     /\ toServer[c][1].mark \in {SOH, STX, EOT, LF}
                     /\ toServer[c][1].left \in Nat \ {0}
                     /\ toServer[c][1].mark \in {EOT, LF} =>
                          toServer[c][1].left = 1
                     /\ toServer[c][1].mark \in {SOH, STX} =>
                          Remains(c, 1, toServer[c][1].left,
                                  1 + BlockSize(toServer[c][1].mark))
<1>1. Framed(c) /\ cl[c].inbuf = 0 /\ c \in Clients
  BY DEF SyncInv, Framing, Framed, Opened, Allocated
<1>2. toServer[c] \in Seq(Frame)
  BY <1>1 DEF SyncInv, ListInv, TypeOK, NetTypeOK
<1>3. /\ n \in Nat
      /\ n = 0 => /\ AfterRead(toServer[c], n) = toServer[c]
                  /\ toServer[c] = << >> /\ conn[c] = "closed"
      /\ n # 0 => n = 1 /\ toServer[c] # << >>
  <2>1. TypeOK /\ 1 \in Int
    BY DEF SyncInv, ListInv
  <2> QED BY <1>1, <2>1, ReadResult
<1>4. CASE n # 0
  <2>1. Head(toServer[c]) = toServer[c][1] /\ toServer[c][1] \in Frame
    BY <1>2, <1>3, <1>4
  <2>2. \/ toServer[c][1].mark = LF /\ toServer[c][1].left = 1
        \/ Untouched(c, 1)
    BY <1>1, <1>3, <1>4 DEF Framed
  <2> QED BY <1>1, <1>3, <1>4, <2>1, <2>2
        DEF Untouched, Remains, FullLen, ReadMark, Frame, SOH, STX, EOT, LF
<1> QED BY <1>1, <1>3, <1>4

LEMMA StartBlockFraming ==
  ASSUME SyncInv, TypeOK', UNCHANGED snd, NEW c \in Allocated, StartBlock(c)
  PROVE  Framing(c)'
<1>1. /\ cl[c].state = "pre_block" /\ c \in Clients /\ TypeOK
      /\ UNCHANGED <<conn, backlog>>
  BY DEF SyncInv, ListInv, CursorLive, StartBlock, At, Allocated
<1>2. PICK n \in ReadCounts(c, 1) :
        /\ ReadMark(c, n) \in {SOH, STX}
        /\ cl' = [cl EXCEPT ![c].state = "get_block",
                            ![c].buf0 = ReadMark(c, n),
                            ![c].blocksize = BlockSize(ReadMark(c, n))]
        /\ toServer' = [toServer EXCEPT ![c] = AfterRead(@, n)]
  BY DEF StartBlock
<1>3. /\ Framed(c) /\ cl[c].inbuf = 0
      /\ cl'[c].state = "get_block" /\ cl'[c].inbuf = 0
      /\ cl'[c].blocksize = BlockSize(ReadMark(c, n))
      /\ toServer'[c] = AfterRead(toServer[c], n)
  BY <1>1, <1>2, MarkRead DEF TypeOK, ServerTypeOK, NetTypeOK, Struct
<1>4. BlockSize(ReadMark(c, n)) \in Nat /\ BlockSize(ReadMark(c, n)) >= 2
  BY NetAssumption DEF BlockSize
<1>5. Framed(c)'
  <2>1. CASE n = 0
    BY <1>1, <1>2, <1>3, <1>4, <2>1, MarkRead DEF Framed
  <2>2. CASE n # 0
    <3>1. /\ n = 1 /\ toServer[c] # << >>
          /\ ReadMark(c, n) = toServer[c][1].mark
          /\ toServer[c][1].left \in Nat \ {0}
          /\ Remains(c, 1, toServer[c][1].left, 1 + BlockSize(ReadMark(c, n)))
          /\ \A j \in 2 .. Len(toServer[c]) : Untouched(c, j)
      BY <1>1, <1>2, <2>2, MarkRead DEF Framed
    <3>2. CASE toServer[c][1].left = 1
      <4>1. Len(toServer'[c]) = Len(toServer[c]) - 1
        BY <1>1, <1>3, <3>1, <3>2, NextFrame
      <4>2. Len(toServer[c]) = 1 /\ conn[c] = "closed"
        BY <1>4, <3>1, <3>2 DEF Remains
      <4>3. toServer'[c] = << >>
        BY <1>1, <4>1, <4>2, EmptySeq DEF TypeOK, NetTypeOK
      <4> QED BY <1>1, <1>3, <1>4, <4>2, <4>3 DEF Framed
    <3>3. CASE toServer[c][1].left # 1
      <4>1. 1 < toServer[c][1].left
        BY <3>1, <3>3
      <4>2. /\ toServer'[c] # << >> /\ Len(toServer'[c]) = Len(toServer[c])
            /\ toServer'[c][1].left = toServer[c][1].left - 1
            /\ toServer'[c][1].mark = toServer[c][1].mark
            /\ \A j \in 2 .. Len(toServer'[c]) : Untouched(c, j)'
        BY <1>1, <1>3, <3>1, <4>1, SameFrames
      <4>3. Remains(c, 1, toServer[c][1].left,
                    cl[c].blocksize - cl[c].inbuf)'
        <5> DEFINE left == toServer[c][1].left
                   size == BlockSize(ReadMark(c, n))
        <5>1. left \in Nat \ {0} /\ left # 1 /\ size \in Nat
              /\ (\/ left = 1 + size
                  \/ /\ conn[c] = "closed" /\ Len(toServer[c]) = 1
                     /\ left < 1 + size)
          BY <1>4, <3>1, <3>3 DEF Remains
        <5>2. /\ toServer'[c][1].left = left - 1
              /\ cl'[c].blocksize - cl'[c].inbuf = size
          BY <1>3, <1>4, <4>2
        <5> HIDE DEF left, size
        <5>3. /\ left - 1 \in Nat \ {0}
              /\ (\/ left - 1 = size
                  \/ /\ conn[c] = "closed" /\ Len(toServer[c]) = 1
                     /\ left - 1 < size)
          BY <5>1
        <5> QED BY <1>1, <4>2, <5>2, <5>3 DEF Remains
      <4>4. /\ snd'[c].phase \notin {"idle", "hello"}
            /\ cl'[c].inbuf < cl'[c].blocksize
            /\ toServer'[c][1].mark \in {SOH, STX}
            /\ cl'[c].blocksize = BlockSize(toServer'[c][1].mark)
        BY <1>2, <1>3, <1>4, <3>1, <4>2 DEF Framed
      <4> QED BY <1>3, <4>2, <4>3, <4>4 DEF Framed
    <3> QED BY <3>2, <3>3
  <2> QED BY <2>1, <2>2
<1> QED BY <1>1, <1>3, <1>5, ServedFraming DEF SyncInv

\* An EOT, or the byte left of a name, is read: the next frame is at the head.
LEMMA MarkFraming ==
  ASSUME SyncInv, TypeOK', UNCHANGED snd, NEW c \in Allocated,
         EndOfTransmission(c) \/ NakMark(c)
  PROVE  Framing(c)'
<1>1. /\ cl[c].state = "pre_block" /\ c \in Clients /\ TypeOK
      /\ UNCHANGED <<conn, backlog>>
  BY DEF SyncInv, ListInv, CursorLive, EndOfTransmission, NakMark, At, Allocated
<1>2. PICK n \in ReadCounts(c, 1) :
        /\ ReadMark(c, n) \notin {SOH, STX}
        /\ cl'[c].state \in {"pre_block", "finished"}
        /\ cl'[c].inbuf = cl[c].inbuf
        /\ toServer'[c] = AfterRead(toServer[c], n)
  <2>1. /\ cl \in [Clients -> Struct] /\ cl[c] \in Struct
        /\ toServer \in [Clients -> Seq(Frame)]
    BY <1>1 DEF TypeOK, ServerTypeOK, NetTypeOK
  <2>2. CASE EndOfTransmission(c)
    <3>1. PICK n \in ReadCounts(c, 1) :
            /\ ReadMark(c, n) = EOT
            /\ cl' = [cl EXCEPT ![c].state = "finished", ![c].buf0 = EOT]
            /\ toServer' = [toServer EXCEPT ![c] = AfterRead(@, n)]
      BY <2>2 DEF EndOfTransmission
    <3>2. cl'[c].state = "finished" /\ cl'[c].inbuf = cl[c].inbuf
      BY <1>1, <2>1, <3>1 DEF Struct
    <3> QED BY <1>1, <2>1, <3>1, <3>2 DEF SOH, STX, EOT
  <2>3. CASE NakMark(c)
    BY <1>1, <2>1, <2>3 DEF NakMark, Struct
  <2> QED BY <2>2, <2>3
<1>3. Framed(c) /\ cl[c].inbuf = 0
  BY <1>1, <1>2, MarkRead
<1>4. Framed(c)'
  <2>1. CASE n = 0
    BY <1>1, <1>2, <1>3, <2>1, MarkRead DEF Framed
  <2>2. CASE n # 0
    <3>1. /\ n = 1 /\ toServer[c] # << >> /\ toServer[c][1].left = 1
          /\ \A j \in 2 .. Len(toServer[c]) : Untouched(c, j)
      BY <1>1, <1>2, <2>2, MarkRead DEF Framed
    <3>2. \A j \in 1 .. Len(toServer'[c]) : Untouched(c, j)'
      BY <1>1, <1>2, <3>1, NextFrame
    <3>3. toServer'[c] # << >> => 1 \in 1 .. Len(toServer'[c])
      BY <1>1, EmptySeq DEF TypeOK, NetTypeOK
    <3> QED BY <1>2, <1>3, <3>2, <3>3 DEF Framed
  <2> QED BY <2>1, <2>2
<1> QED BY <1>1, <1>2, <1>4, ServedFraming DEF SyncInv

LEMMA GetBlockFraming ==
  ASSUME SyncInv, TypeOK', UNCHANGED snd, NEW c \in Allocated, GetBlock(c)
  PROVE  Framing(c)'
<1> DEFINE size == cl[c].blocksize - cl[c].inbuf
<1>1. /\ cl[c].state = "get_block" /\ c \in Clients /\ TypeOK
      /\ UNCHANGED <<conn, backlog>>
      /\ cl \in [Clients -> Struct] /\ toServer \in [Clients -> Seq(Frame)]
      /\ cl[c].inbuf \in Nat /\ cl[c].blocksize \in Nat
  <2>1. /\ cl[c].state = "get_block" /\ c \in Clients /\ TypeOK
        /\ UNCHANGED <<conn, backlog>>
    BY DEF SyncInv, ListInv, CursorLive, GetBlock, At, Allocated
  <2>2. cl \in [Clients -> Struct] /\ toServer \in [Clients -> Seq(Frame)]
    BY <2>1 DEF TypeOK, ServerTypeOK, NetTypeOK
  <2>3. cl[c].inbuf \in Nat /\ cl[c].blocksize \in {0, SohSize, StxSize}
    BY <2>1, <2>2 DEF Struct
  <2> QED BY <2>1, <2>2, <2>3, NetAssumption
<1>2. PICK n \in ReadCounts(c, size) :
        /\ cl'[c].inbuf = cl[c].inbuf + n
        /\ cl'[c].blocksize = cl[c].blocksize
        /\ cl'[c].state = IF cl[c].inbuf + n = cl[c].blocksize
                          THEN "check_block" ELSE "get_block"
        /\ toServer'[c] = AfterRead(toServer[c], n)
  BY <1>1 DEF GetBlock, Struct
<1>3. Framed(c) /\ size \in Nat \ {0}
  BY <1>1 DEF SyncInv, Framing, Opened, Framed
<1>4. /\ n \in Nat
      /\ n = 0 => /\ AfterRead(toServer[c], n) = toServer[c]
                  /\ toServer[c] = << >> /\ conn[c] = "closed"
      /\ n # 0 => /\ toServer[c] # << >>
                  /\ n <= toServer[c][1].left /\ n <= size
  BY <1>1, <1>3, ReadResult
<1>5. Framed(c)'
  <2>1. CASE n = 0
    BY <1>1, <1>2, <1>3, <1>4, <2>1 DEF Framed
  <2>2. CASE n # 0
    <3>1. /\ toServer[c] # << >> /\ toServer[c][1].mark \in {SOH, STX}
          /\ toServer[c][1].left \in Nat \ {0}
          /\ \/ toServer[c][1].left = size
             \/ /\ conn[c] = "closed" /\ Len(toServer[c]) = 1
                /\ toServer[c][1].left < size
          /\ cl[c].blocksize = BlockSize(toServer[c][1].mark)
          /\ \A j \in 2 .. Len(toServer[c]) : Untouched(c, j)
      BY <1>1, <1>3, <1>4, <2>2 DEF Framed, Remains
    <3>2. CASE n = toServer[c][1].left
      <4>1. /\ Len(toServer'[c]) = Len(toServer[c]) - 1
            /\ \A j \in 1 .. Len(toServer'[c]) : Untouched(c, j)'
        BY <1>1, <1>2, <3>1, <3>2, NextFrame
      <4>2. toServer'[c] # << >> => 1 \in 1 .. Len(toServer'[c])
        BY <1>1, EmptySeq DEF TypeOK, NetTypeOK
      <4>3. CASE n = size
        BY <1>1, <1>2, <1>3, <4>1, <4>2, <4>3 DEF Framed
      <4>4. CASE n # size
        <5>1. toServer'[c] = << >> /\ conn'[c] = "closed"
          <6>1. conn[c] = "closed" /\ Len(toServer[c]) = 1
            BY <3>1, <3>2, <4>4
          <6> QED BY <1>1, <4>1, <6>1, EmptySeq DEF TypeOK, NetTypeOK
        <5>2. cl[c].inbuf + n < cl[c].blocksize
          <6>1. /\ cl[c].inbuf \in Nat /\ cl[c].blocksize \in Nat /\ n \in Nat
                /\ n <= cl[c].blocksize - cl[c].inbuf
                /\ n # cl[c].blocksize - cl[c].inbuf
            BY <1>1, <1>4, <2>2, <4>4
          <6> QED BY <6>1
        <5> QED BY <1>1, <1>2, <1>3, <5>1, <5>2 DEF Framed
      <4> QED BY <4>3, <4>4
    <3>3. CASE n # toServer[c][1].left
      <4>1. n < toServer[c][1].left /\ n < size /\ n \in Nat \ {0}
        BY <1>3, <1>4, <2>2, <3>1, <3>3
      <4>2. /\ toServer'[c] # << >> /\ Len(toServer'[c]) = Len(toServer[c])
            /\ toServer'[c][1].left = toServer[c][1].left - n
            /\ toServer'[c][1].mark = toServer[c][1].mark
            /\ \A j \in 2 .. Len(toServer'[c]) : Untouched(c, j)'
        BY <1>1, <1>2, <3>1, <4>1, SameFrames
      <4>3. cl[c].inbuf + n < cl[c].blocksize
        BY <1>1, <4>1
      <4>4. Remains(c, 1, toServer[c][1].left,
                    cl[c].blocksize - cl[c].inbuf)'
        <5>1. Remains(c, 1, toServer[c][1].left - n, size - n)
          BY <3>1, <4>1, <1>3 DEF Remains
        <5>2. size - n = cl[c].blocksize - (cl[c].inbuf + n)
          BY <1>1, <1>4
        <5> QED BY <1>1, <1>2, <4>2, <5>1, <5>2 DEF Remains
      <4>5. /\ snd'[c].phase \notin {"idle", "hello"}
            /\ cl'[c].state = "get_block"
            /\ cl'[c].inbuf < cl'[c].blocksize
            /\ toServer'[c][1].mark \in {SOH, STX}
            /\ cl'[c].blocksize = BlockSize(toServer'[c][1].mark)
        BY <1>1, <1>2, <1>3, <3>1, <4>2, <4>3 DEF Framed
      <4> QED BY <4>2, <4>4, <4>5 DEF Framed
    <3> QED BY <3>2, <3>3
  <2> QED BY <2>1, <2>2
<1> QED BY <1>1, <1>2, <1>5, ServedFraming DEF SyncInv

LEMMA ServeFraming ==
  ASSUME SyncInv, TypeOK', UNCHANGED snd, NEW c \in Clients, Serve(c)
  PROVE  Framing(c)'
<1>0. /\ pc # "select" /\ cursor = c => c \in Allocated
      /\ pc \notin {"select", "scan"} /\ cursor = c => cl[c].state = pc
      /\ cl[c].state # "free" => c \in Allocated
      /\ Framing(c) /\ TypeOK /\ backlog' = backlog
  BY NetAssumption, ServeLocal
     DEF SyncInv, ListInv, CursorLive, Allocated
<1>1. CASE \/ SkipClient(c) \/ VisitClient(c) \/ NoDirectory(c) \/ StoreFails(c) \/ NullFile(c)
           \/ ReadError(c)
  <2>1. UNCHANGED <<cl, conn, toServer, toClient, backlog>>
    BY <1>1 DEF SkipClient, VisitClient, NoDirectory, StoreFails, NullFile, ReadError, netVars
  <2> QED BY <1>0, <2>1, OtherClient DEF Framing
<1>2. CASE ReadPartOfName(c)
  BY <1>0, <1>2, ReadNameFraming DEF ReadPartOfName, At
<1>3. CASE OpenFile(c)
  BY <1>0, <1>3, OpenFileFraming DEF OpenFile, At
<1>4. CASE StartBlock(c)
  BY <1>0, <1>4, StartBlockFraming DEF StartBlock, At
<1>5. CASE EndOfTransmission(c) \/ NakMark(c)
  BY <1>0, <1>5, MarkFraming DEF EndOfTransmission, NakMark, At
<1>6. CASE GetBlock(c)
  BY <1>0, <1>6, GetBlockFraming DEF GetBlock, At
<1>7. CASE AcceptBlock(c) \/ NakBlock(c)
  <2>1. c \in Allocated /\ cl[c].state = "check_block" /\ Framed(c)
    BY <1>0, <1>7 DEF AcceptBlock, NakBlock, At, Framing, Opened
  <2>2. /\ cl'[c].state = "pre_block" /\ cl'[c].inbuf = 0
        /\ UNCHANGED <<conn, toServer>>
    BY <1>0, <1>7 DEF AcceptBlock, NakBlock, TypeOK, ServerTypeOK, Struct
  <2>3. Framed(c)'
    BY <2>1, <2>2 DEF Framed, Untouched, Remains
  <2> QED BY <1>0, <2>1, <2>2, <2>3, ServedFraming DEF SyncInv
<1>8. CASE RepeatBlock(c)
  <2>1. c \in Allocated /\ cl[c].state = "check_block"
    BY <1>0, <1>8 DEF RepeatBlock, At
  <2>2. UNCHANGED <<cl, conn, toServer, backlog>>
    BY <1>8 DEF RepeatBlock
  <2> QED BY <1>0, <2>1, <2>2, SameFraming, AllocatedNotFresh DEF SyncInv, Opened
<1>9. CASE DropClient(c) \/ Finish(c)
  <2>1. c \in Allocated /\ cl[c].state \in Opened
    BY <1>0, <1>9 DEF DropClient, Finish, At, Opened
  <2>2. CASE Drop(c)
    <3>1. cl'[c].state = "free"
      BY <1>0, <2>2 DEF Drop, FreeStruct, TypeOK, ServerTypeOK
    <3> QED BY <1>0, <2>1, <3>1, ServedFraming DEF SyncInv, Opened
  <2>3. CASE UNCHANGED <<cl, conn, toServer>>
    BY <1>0, <2>1, <2>3, SameFraming, AllocatedNotFresh DEF SyncInv
  <2> QED BY <1>9, <2>2, <2>3 DEF DropClient, Finish
<1> QED BY <1>1, <1>2, <1>3, <1>4, <1>5, <1>6, <1>7, <1>8, <1>9 DEF Serve

----------------------------------------------------------------------------
(* The clients.                                                            *)

\* A step of c leaves the others alone.
LEMMA ClientLocal ==
  ASSUME TypeOK, NEW c \in Clients,
         Progress(c) \/ NoticeEnd(c, server = "running") \/ Fault(c)
  PROVE  \A d \in Clients \ {c} :
           /\ snd'[d] = snd[d] /\ conn'[d] = conn[d]
           /\ toServer'[d] = toServer[d] /\ toClient'[d] = toClient[d]
<1> USE DEF TypeOK, NetTypeOK, SenderTypeOK
<1>1. CASE Connect(c) \/ SendName(c) \/ SendEot(c)
  BY <1>1 DEF Connect, SendName, SendEot, Send
<1>2. ASSUME NEW m \in Marks, NEW x \in Damage, SendBlock(c, m, x)
      PROVE  \A d \in Clients \ {c} :
               /\ snd'[d] = snd[d] /\ conn'[d] = conn[d]
               /\ toServer'[d] = toServer[d] /\ toClient'[d] = toClient[d]
  BY <1>2 DEF SendBlock, Send
<1>3. CASE ReceiveC(c) \/ ReceiveAck(c) \/ ReceiveNak(c) \/ ReceiveDone(c)
  BY <1>3 DEF ReceiveC, ReceiveAck, ReceiveNak, ReceiveDone, Receive
<1>4. CASE NoticeEnd(c, server = "running") \/ Timeout(c)
  BY <1>4 DEF NoticeEnd, Timeout, netVars
<1>5. CASE Disconnect(c)
  BY <1>5 DEF Disconnect
<1> QED BY <1>1, <1>2, <1>3, <1>4, <1>5 DEF Progress, Fault

\* Only Connect changes the backlog: it adds c.
LEMMA BacklogGrows ==
  ASSUME TypeOK, NEW c \in Clients,
         Progress(c) \/ NoticeEnd(c, server = "running") \/ Fault(c)
  PROVE  \A i \in 1 .. Len(backlog') :
           \/ i \in 1 .. Len(backlog) /\ backlog'[i] = backlog[i]
           \/ backlog'[i] = c /\ Connect(c)
<1>1. CASE Connect(c)
  <2>1. backlog \in Seq(Clients) /\ backlog' = Append(backlog, c)
    BY <1>1 DEF Connect, TypeOK, NetTypeOK
  <2>2. /\ Len(backlog') = Len(backlog) + 1 /\ Len(backlog) \in Nat
        /\ \A i \in 1 .. Len(backlog) : backlog'[i] = backlog[i]
        /\ backlog'[Len(backlog) + 1] = c
    BY <2>1, AppendProperties, LenProperties
  <2>3. \A i \in 1 .. Len(backlog') :
          i \in 1 .. Len(backlog) \/ i = Len(backlog) + 1
    BY <2>2
  <2> QED BY <1>1, <2>2, <2>3
<1>2. CASE ~ Connect(c)
  <2>1. backlog' = backlog
    BY <1>2 DEF Progress, Fault, SendName, SendBlock, SendEot, Receive, ReceiveC,
                ReceiveAck, ReceiveNak, ReceiveDone, Timeout, Disconnect,
                NoticeEnd, netVars
  <2> QED BY <2>1
<1> QED BY <1>1, <1>2

\* A frame sent to an opened file goes behind the others, untouched.
LEMMA SendFraming ==
  ASSUME TypeOK, NEW c \in Clients, Framed(c), cl' = cl, conn' = conn,
         snd'[c].phase \notin {"idle", "hello"},
         NEW f \in Frame, f.mark # LF, f.left = FullLen(f.mark), Send(c, f)
  PROVE  Framed(c)'
<1>1. CASE conn[c] # "open"
  <2>1. toServer' = toServer
    BY <1>1 DEF Send
  <2> QED BY <2>1 DEF Framed, Untouched, Remains
<1>2. CASE conn[c] = "open"
  <2>1. /\ toServer[c] \in Seq(Frame) /\ Len(toServer[c]) \in Nat
        /\ toServer'[c] = Append(toServer[c], f)
    BY <1>2 DEF Send, TypeOK, NetTypeOK
  <2>2. /\ Len(toServer'[c]) = Len(toServer[c]) + 1 /\ toServer'[c] # << >>
        /\ \A j \in 1 .. Len(toServer[c]) : toServer'[c][j] = toServer[c][j]
        /\ toServer'[c][Len(toServer[c]) + 1] = f
    BY <2>1, AppendProperties
  <2>3. \A m \in {SOH, STX, EOT} : FullLen(m) \in Nat \ {0}
    BY StructType DEF FullLen
  <2>4. f.mark \in {SOH, STX, EOT}
    BY DEF Frame
  <2>5. \A j \in 1 .. Len(toServer[c]) : Untouched(c, j) => Untouched(c, j)'
    BY <1>2, <2>2 DEF Untouched, Remains
  <2>6. ASSUME NEW j \in 1 .. Len(toServer'[c]), j = Len(toServer[c]) + 1
        PROVE  Untouched(c, j)'
    BY <2>2, <2>3, <2>4, <2>6 DEF Untouched, Remains
  <2>7. \A j \in 1 .. Len(toServer'[c]) :
          j \in 1 .. Len(toServer[c]) \/ j = Len(toServer[c]) + 1
    BY <2>1, <2>2
  <2>8. \A j \in 2 .. Len(toServer'[c]) : Untouched(c, j)'
    <3> SUFFICES ASSUME NEW j \in 2 .. Len(toServer'[c]) PROVE Untouched(c, j)'
      OBVIOUS
    <3>1. j \in 1 .. Len(toServer'[c])
      BY <2>1, <2>2
    <3>2. CASE j \in 1 .. Len(toServer[c])
      BY <2>1, <2>5, <3>2 DEF Framed
    <3> QED BY <2>6, <2>7, <3>1, <3>2
  <2>9. CASE toServer[c] = << >>
    <3>1. 1 \in 1 .. Len(toServer'[c]) /\ 1 = Len(toServer[c]) + 1
      BY <2>1, <2>2, <2>9
    <3>2. Untouched(c, 1)'
      BY <2>6, <3>1
    <3>3. cl[c].state # "get_block"
      BY <1>2, <2>9 DEF Framed
    <3> QED BY <2>8, <3>2, <3>3 DEF Framed
  <2>10. CASE toServer[c] # << >>
    <3>1. 1 \in 1 .. Len(toServer[c]) /\ toServer'[c][1] = toServer[c][1]
      BY <2>1, <2>2, <2>10, EmptySeq
    <3>2. Untouched(c, 1) => Untouched(c, 1)'
      BY <2>5, <3>1
    <3>3. cl[c].state = "get_block" =>
            Remains(c, 1, toServer[c][1].left, cl[c].blocksize - cl[c].inbuf)'
      BY <1>2, <2>10, <3>1 DEF Framed, Remains
    <3> QED BY <2>2, <2>8, <2>10, <3>1, <3>2, <3>3 DEF Framed
  <2> QED BY <2>9, <2>10
<1> QED BY <1>1, <1>2

\* A client that goes away may leave its last frame unfinished.
LEMMA DisconnectFraming ==
  ASSUME SyncInv, TypeOK', UNCHANGED serverVars, NEW c \in Clients,
         Disconnect(c)
  PROVE  Framing(c)'
<1>1. /\ Framing(c) /\ TypeOK /\ toServer[c] \in Seq(Frame)
      /\ conn[c] = "open" /\ conn'[c] = "closed" /\ cl' = cl
      /\ snd[c].phase # "idle" /\ snd'[c].phase = "gone"
      /\ UNCHANGED <<backlog, toClient>>
  BY DEF SyncInv, ListInv, TypeOK, NetTypeOK, SenderTypeOK, Sender, Disconnect,
         serverVars
<1>2. CASE UNCHANGED toServer
  <2>1. \A k \in Int : NameOnly(c, k) => NameOnly(c, k)'
    BY <1>1, <1>2 DEF NameOnly, Remains
  <2>2. Framed(c) => Framed(c)'
    BY <1>1, <1>2 DEF Framed, Untouched, Remains
  <2>3. NameOnly(c, cl[c].inbuf) => NameOnly(c, cl[c].inbuf)'
    BY <1>1, <1>2 DEF NameOnly, Remains
  <2> QED BY <1>1, <2>1, <2>2, <2>3 DEF Framing
<1>3. ASSUME NEW k \in 1 .. toServer[c][Len(toServer[c])].left - 1,
             toServer[c] # << >>,
             toServer' = [toServer EXCEPT ![c] = CutShort(@, k)]
      PROVE  Framing(c)'
  <2> DEFINE z == Len(toServer[c])
  <2>1. /\ z \in Nat \ {0} /\ toServer[c][z] \in Frame
        /\ toServer'[c] = CutShort(toServer[c], k)
    BY <1>1, <1>3, EmptySeq DEF TypeOK, NetTypeOK
  <2>2. /\ toServer[c][z].left \in Nat /\ k \in Nat \ {0}
        /\ k < toServer[c][z].left
    BY <1>3, <2>1 DEF Frame
  <2>3. /\ Len(toServer'[c]) = z /\ toServer'[c] # << >>
        /\ \A j \in 1 .. z : j # z => toServer'[c][j] = toServer[c][j]
        /\ toServer'[c][z].left = k
        /\ toServer'[c][z].mark = toServer[c][z].mark
    <3> DEFINE f == [toServer[c][z] EXCEPT !.left = k]
    <3>1. f.left = k /\ f.mark = toServer[c][z].mark
      BY <2>1 DEF Frame
    <3>2. toServer'[c] = [toServer[c] EXCEPT ![z] = f]
      BY <2>1 DEF CutShort
    <3> HIDE DEF f
    <3> QED BY <1>1, <2>1, <3>1, <3>2
  <2> HIDE DEF z
  <2>4. \A j \in 1 .. z : Untouched(c, j) => Untouched(c, j)'
    <3> SUFFICES ASSUME NEW j \in 1 .. z, Untouched(c, j) PROVE Untouched(c, j)'
      OBVIOUS
    <3>1. CASE j # z
      BY <1>1, <2>3, <3>1 DEF Untouched, Remains, z
    <3>2. CASE j = z
      <4>1. k < FullLen(toServer[c][z].mark)
        BY <1>1, <2>1, <2>2, <3>2 DEF Untouched, Remains
      <4> QED BY <1>1, <2>2, <2>3, <3>2, <4>1 DEF Untouched, Remains
    <3> QED BY <3>1, <3>2
  <2>5. ASSUME NEW full \in Int, Remains(c, 1, toServer[c][1].left, full)
        PROVE  /\ toServer'[c][1].left \in Nat \ {0}
               /\ \/ toServer'[c][1].left = full
                  \/ Len(toServer'[c]) = 1 /\ toServer'[c][1].left < full
               /\ toServer'[c][1].mark = toServer[c][1].mark
    <3>1. /\ toServer[c][1].left \in Nat \ {0}
          /\ \/ toServer[c][1].left = full
             \/ 1 = z /\ toServer[c][1].left < full
      BY <2>5 DEF Remains, z
    <3>2. CASE z = 1
      BY <2>2, <2>3, <3>1, <3>2
    <3>3. CASE z # 1
      <4>1. toServer'[c][1] = toServer[c][1] /\ toServer[c][1].left = full
        BY <2>1, <2>3, <3>1, <3>3
      <4>2. toServer'[c][1].left = toServer[c][1].left
            /\ toServer'[c][1].mark = toServer[c][1].mark
        BY <4>1
      <4> QED BY <3>1, <4>1, <4>2
    <3> QED BY <3>2, <3>3
  <2>6. Framed(c) => Framed(c)'
    <3> SUFFICES ASSUME Framed(c) PROVE Framed(c)'
      OBVIOUS
    <3>1. \A j \in 2 .. Len(toServer'[c]) : Untouched(c, j)'
      BY <2>1, <2>3, <2>4 DEF Framed, z
    <3>2. cl[c].state # "get_block" =>
            \/ toServer'[c][1].mark = LF /\ toServer'[c][1].left = 1
            \/ Untouched(c, 1)'
      <4>1. 1 \in 1 .. z
        BY <2>1
      <4>2. toServer[c][1].mark = LF /\ toServer[c][1].left = 1 =>
              toServer'[c][1] = toServer[c][1]
        BY <2>1, <2>2, <2>3
      <4> QED BY <1>3, <2>4, <4>1, <4>2 DEF Framed
    <3>3. cl[c].state = "get_block" =>
            /\ toServer'[c][1].mark \in {SOH, STX}
            /\ cl[c].blocksize = BlockSize(toServer'[c][1].mark)
            /\ Remains(c, 1, toServer[c][1].left,
                       cl[c].blocksize - cl[c].inbuf)'
      <4>1. cl[c].blocksize - cl[c].inbuf \in Int
        <5>1. /\ cl[c].inbuf \in Nat /\ c \in Clients
              /\ cl[c].blocksize \in {0, SohSize, StxSize}
          BY <1>1 DEF TypeOK, ServerTypeOK, Struct
        <5> QED BY <5>1, NetAssumption
      <4> QED BY <1>1, <1>3, <2>5, <4>1 DEF Framed, Remains
    <3> QED BY <1>1, <2>3, <3>1, <3>2, <3>3 DEF Framed
  <2>7. ASSUME NEW x \in Nat, NameOnly(c, x)
        PROVE  NameOnly(c, x)'
    <3>1. NameLen[c] + 2 - x \in Int
      BY NetAssumption
    <3> QED BY <1>1, <1>3, <2>1, <2>3, <2>5, <2>7, <3>1
          DEF NameOnly, Remains, z
  <2>8. NameOnly(c, cl[c].inbuf) => NameOnly(c, cl[c].inbuf)'
    <3>1. cl[c].inbuf \in Nat
      BY <1>1 DEF TypeOK, ServerTypeOK, Struct
    <3>2. PICK x \in Nat : x = cl[c].inbuf
      BY <3>1
    <3> QED BY <1>1, <2>7, <3>2
  <2> QED BY <1>1, <2>6, <2>7, <2>8 DEF Framing
<1> QED BY <1>2, <1>3 DEF Disconnect

LEMMA ClientFraming ==
  ASSUME SyncInv, TypeOK', UNCHANGED serverVars, NEW c \in Clients,
         Progress(c) \/ NoticeEnd(c, server = "running") \/ Fault(c)
  PROVE  Framing(c)'
<1>1. /\ Framing(c) /\ TypeOK /\ cl' = cl /\ c \in Clients
      /\ snd[c].phase = "idle" => cl[c].state = "free"
      /\ snd \in [Clients -> Sender]
  BY DEF SyncInv, ListInv, serverVars, BacklogFresh, TypeOK, SenderTypeOK
<1>2. \A i \in 1 .. Len(backlog') :
        \/ i \in 1 .. Len(backlog) /\ backlog'[i] = backlog[i]
        \/ backlog'[i] = c /\ Connect(c)
  BY <1>1, BacklogGrows
\* Steps that only move c from one waiting phase to another.
<1>3. ASSUME UNCHANGED <<toServer, backlog>>,
             snd[c].phase # "idle",
             snd'[c].phase \notin {"idle", "hello"},
             conn'[c] = conn[c] \/ (conn[c] = "open" /\ conn'[c] = "closed"),
             \A k \in Nat : NameOnly(c, k) => NameOnly(c, k)'
      PROVE  Framing(c)'
  <2>1. Framed(c) => Framed(c)'
    BY <1>1, <1>3 DEF Framed, Untouched, Remains
  <2>2. cl[c].inbuf \in Nat
    BY <1>1 DEF TypeOK, ServerTypeOK, Struct
  <2>3. NameOnly(c, cl[c].inbuf) => NameOnly(c, cl[c].inbuf)'
    <3>1. PICK x \in Nat : x = cl[c].inbuf
      BY <2>2
    <3> QED BY <1>1, <1>3, <3>1
  <2> QED BY <1>1, <1>3, <2>1, <2>3 DEF Framing
<1>4. CASE Connect(c)
  <2>1. /\ NameOnly(c, 0) /\ snd'[c].phase = "hello" /\ cl[c].state = "free"
        /\ UNCHANGED <<toServer, toClient>>
    BY <1>1, <1>4 DEF Connect, Framing, Sender
  <2>2. NameOnly(c, 0)'
    <3>1. snd[c].phase = "idle"
      BY <1>4 DEF Connect
    <3>2. toServer'[c] = << >> /\ toClient'[c] = << >>
      BY <2>1, <3>1 DEF NameOnly
    <3> QED BY <2>1, <3>2 DEF NameOnly
  <2> QED BY <1>1, <2>1, <2>2 DEF Framing, Opened
<1>5. CASE SendName(c)
  <2>1. /\ snd[c].phase = "hello" /\ snd'[c].phase = "waitC"
        /\ UNCHANGED <<conn, backlog, toClient>>
        /\ toServer[c] \in Seq(Frame)
        /\ \/ toServer'[c] = toServer[c]
           \/ toServer'[c] = Append(toServer[c], NameFrame(c))
    BY <1>1, <1>5 DEF SendName, Send, Sender, TypeOK, NetTypeOK
  <2>2. ASSUME NEW k \in Nat, NameOnly(c, k) PROVE NameOnly(c, k)'
    <3>1. toClient[c] = << >> /\ toServer[c] = << >> /\ k = 0
      BY <2>1, <2>2 DEF NameOnly
    <3>2. NameLen[c] + 2 \in Nat \ {0} /\ NameLen[c] + 2 - 0 = NameLen[c] + 2
      BY NetAssumption
    <3>3. CASE toServer'[c] = Append(toServer[c], NameFrame(c))
      <4>1. /\ Len(toServer'[c]) = 1
            /\ toServer'[c][1] = NameFrame(c)
        BY <3>1, <3>3
      <4> QED BY <2>1, <3>1, <3>2, <4>1 DEF NameOnly, Remains, NameFrame
    <3>4. CASE toServer'[c] = toServer[c]
      BY <2>1, <3>1, <3>4 DEF NameOnly
    <3> QED BY <2>1, <3>3, <3>4
  <2>3. cl[c].state = "initial" => NameOnly(c, cl[c].inbuf)'
    <3>1. cl[c].inbuf \in Nat
      BY <1>1 DEF TypeOK, ServerTypeOK, Struct
    <3>2. PICK x \in Nat : x = cl[c].inbuf
      BY <3>1
    <3> QED BY <1>1, <2>2, <3>2 DEF Framing
  <2>4. cl[c].state \notin Opened
    BY <1>1, <2>1 DEF Framing, Framed
  <2> QED BY <1>1, <2>1, <2>2, <2>3, <2>4 DEF Framing
<1>6. ASSUME NEW f \in Frame, Send(c, f), f.mark # LF, f.left = FullLen(f.mark),
             snd[c].phase = "send", snd'[c].phase \in {"waitAck", "waitEot"},
             UNCHANGED <<conn, backlog, toClient>>
      PROVE  Framing(c)'
  <2>1. \A k : ~ NameOnly(c, k)
    BY <1>6 DEF NameOnly
  <2>2. Framed(c) => Framed(c)'
    BY <1>1, <1>6, SendFraming
  <2> QED BY <1>1, <1>6, <2>1, <2>2 DEF Framing
<1>7. ASSUME NEW m \in Marks, NEW d \in Damage, SendBlock(c, m, d)
      PROVE  Framing(c)'
  <2>1. /\ snd[c].phase = "send" /\ snd'[c].phase = "waitAck"
        /\ snd[c].next \in Nat
    BY <1>1, <1>7 DEF SendBlock, Sender
  <2> DEFINE f == BlockFrame(m, FileBlock(snd[c].next, d))
  <2>2. f \in Frame /\ f.mark \in {SOH, STX} /\ f.left = FullLen(f.mark)
        /\ f.mark # LF
    BY <2>1, FileBlockType, FrameType, SenderAssumption
       DEF BlockFrame, FullLen, SOH, STX, EOT, LF
  <2> HIDE DEF f
  <2>3. Send(c, f) /\ UNCHANGED <<conn, backlog, toClient>>
    BY <1>7 DEF SendBlock, f
  <2> QED BY <1>6, <2>1, <2>2, <2>3
<1>8. CASE SendEot(c)
  <2>1. /\ snd[c].phase = "send" /\ snd'[c].phase = "waitEot"
        /\ Send(c, EotFrame) /\ UNCHANGED <<conn, backlog, toClient>>
    BY <1>1, <1>8 DEF SendEot, Sender
  <2>2. EotFrame \in Frame /\ EotFrame.mark # LF
        /\ EotFrame.left = FullLen(EotFrame.mark)
    BY FrameType DEF EotFrame, FullLen, EOT, LF
  <2> QED BY <1>6, <2>1, <2>2
<1>9. CASE ReceiveC(c) \/ ReceiveAck(c) \/ ReceiveNak(c) \/ ReceiveDone(c)
  <2>1. /\ toClient[c] # << >> /\ UNCHANGED <<toServer, backlog>>
        /\ snd[c].phase # "idle" /\ snd'[c].phase \in {"send", "done"}
        /\ conn'[c] = conn[c] \/ (conn[c] = "open" /\ conn'[c] = "closed")
    BY <1>1, <1>9 DEF ReceiveC, ReceiveAck, ReceiveNak, ReceiveDone, Receive,
                      Sender, TypeOK, NetTypeOK
  <2>2. \A k \in Nat : ~ NameOnly(c, k)
    BY <2>1 DEF NameOnly
  <2> QED BY <1>3, <2>1, <2>2
<1>10. CASE Timeout(c) \/ NoticeEnd(c, server = "running")
  <2>1. /\ UNCHANGED <<toServer, backlog, conn, toClient>>
        /\ snd[c].phase # "idle"
        /\ \/ snd[c].phase = "waitAck" /\ snd'[c].phase = "send"
           \/ snd'[c].phase = "gone"
    BY <1>1, <1>10 DEF Timeout, NoticeEnd, netVars, Sender
  <2>2. ASSUME NEW k \in Nat, NameOnly(c, k) PROVE NameOnly(c, k)'
    BY <2>1, <2>2 DEF NameOnly, Remains
  <2> QED BY <1>3, <2>1, <2>2
<1>11. CASE Disconnect(c)
  BY <1>11, DisconnectFraming
<1> QED BY <1>4, <1>5, <1>7, <1>8, <1>9, <1>10, <1>11 DEF Progress, Fault

----------------------------------------------------------------------------

LEMMA InitSyncInv == Init => SyncInv
<1> SUFFICES ASSUME Init PROVE SyncInv
  OBVIOUS
<1>1. ASSUME NEW c \in Clients PROVE Framing(c)
  BY DEF Init, NetInit, ServerInit, SenderInit, FreeStruct, Framing, NameOnly,
         Opened
<1> QED BY <1>1, InitListInv DEF SyncInv

\* Accept hands a connection from the backlog to a new struct.
LEMMA AcceptFraming ==
  ASSUME SyncInv, TypeOK', UNCHANGED snd, Accept, NEW d \in Clients
  PROVE  Framing(d)'
<1> DEFINE c == Head(backlog)
<1>1. /\ backlog \in Seq(Clients) /\ backlog # << >> /\ c = backlog[1]
      /\ 1 \in 1 .. Len(backlog) /\ c \in Clients /\ cl \in [Clients -> Struct]
  BY HeadTailProperties DEF Accept, SyncInv, ListInv, TypeOK, NetTypeOK,
     ServerTypeOK
<1>2. /\ UNCHANGED <<conn, toServer, toClient>>
      /\ cl'[c].state = "initial" /\ cl'[c].inbuf = 0
      /\ \A e \in Clients \ {c} : cl'[e] = cl[e]
  BY <1>1 DEF Accept, FreeStruct
<1>3. \A i \in 1 .. Len(backlog') : /\ backlog'[i] = backlog[i + 1]
                                   /\ i + 1 \in 1 .. Len(backlog)
  BY <1>1, HeadTailProperties DEF Accept
<1>4. Framing(d)
  BY DEF SyncInv
<1>5. \A i \in 1 .. Len(backlog') : backlog'[i] = d => NameOnly(d, 0)
  BY <1>3, <1>4 DEF Framing
<1> HIDE DEF c
<1>6. CASE d # c
  BY <1>2, <1>4, <1>5, <1>6, OtherClient
<1>7. CASE d = c
  <2>1. NameOnly(d, 0)
    BY <1>1, <1>4, <1>7 DEF Framing
  <2>2. NameOnly(d, 0)' /\ NameOnly(d, cl[d].inbuf)'
    BY <1>2, <1>7, <2>1 DEF NameOnly, Remains
  <2> QED BY <1>2, <1>7, <2>2 DEF Framing, Opened
<1> QED BY <1>6, <1>7

LEMMA SyncInvPreserved == SyncInv /\ [Next]_vars => SyncInv'
<1> SUFFICES ASSUME SyncInv, [Next]_vars PROVE SyncInv'
  OBVIOUS
<1>0. ListInv /\ ListInv' /\ TypeOK /\ TypeOK' /\ \A d \in Clients : Framing(d)
  BY ListInvPreserved DEF SyncInv, ListInv
<1> SUFFICES ASSUME NEW d \in Clients PROVE Framing(d)'
  BY <1>0 DEF SyncInv
<1>1. ASSUME UNCHANGED <<cl, snd, netVars>>
      PROVE  Framing(d)'
  BY <1>0, <1>1, OtherClient DEF netVars, Framing
<1>2. CASE ServerActs
  <2>1. CASE Accept
    BY <1>0, <1>2, <2>1, AcceptFraming DEF ServerActs
  <2>2. CASE Poll \/ EndScan
    BY <1>1, <1>2, <2>2 DEF Poll, EndScan, ServerActs
  <2>3. ASSUME NEW c \in Clients, Serve(c)
        PROVE  Framing(d)'
    <3>1. CASE c = d
      BY <1>0, <1>2, <2>3, <3>1, ServeFraming DEF ServerActs
    <3>2. CASE c # d
      BY <1>0, <1>2, <2>3, <3>2, ServeLocal, OtherClient DEF ServerActs, Framing
    <3> QED BY <3>1, <3>2
  <2> QED BY <1>2, <2>1, <2>2, <2>3 DEF ServerActs, ServerStep
<1>3. ASSUME NEW c \in Clients, ClientActs(c) \/ FaultHappens(c)
      PROVE  Framing(d)'
  <2>1. /\ Progress(c) \/ NoticeEnd(c, server = "running") \/ Fault(c)
        /\ UNCHANGED serverVars
    BY <1>3 DEF ClientActs, FaultHappens
  <2>2. CASE c = d
    BY <1>0, <2>1, <2>2, ClientFraming
  <2>3. CASE c # d
    <3>1. \A i \in 1 .. Len(backlog') : backlog'[i] = d => NameOnly(d, 0)
      BY <1>0, <2>1, <2>3, BacklogGrows DEF Framing
    <3>2. cl' = cl
      BY <2>1 DEF serverVars
    <3> QED BY <1>0, <2>1, <2>3, <3>1, <3>2, ClientLocal, OtherClient
  <2> QED BY <2>2, <2>3
<1>4. CASE UNCHANGED vars
  BY <1>1, <1>4 DEF vars, serverVars
<1> QED BY <1>2, <1>3, <1>4 DEF Next

LEMMA SyncInvImpliesInSync == SyncInv => InSync
<1> SUFFICES ASSUME SyncInv, NEW c \in Allocated
             PROVE  LET q == toServer[c] IN
    /\ cl[c].state = "initial" =>
         q = << >> \/ CutIn(c, Head(q).left, NameLen[c] + 2 - cl[c].inbuf)
    /\ cl[c].state \in {"pre_block", "check_block", "finished"} /\ q # << >> =>
         CASE Head(q).mark \in {SOH, STX} ->
                CutIn(c, Head(q).left, 1 + BlockSize(Head(q).mark))
           [] OTHER -> Head(q).left = 1
    /\ cl[c].state = "pre_block" => cl[c].inbuf = 0
    /\ cl[c].state = "get_block" /\ q # << >> =>
         /\ Head(q).mark \in {SOH, STX}
         /\ cl[c].blocksize = BlockSize(Head(q).mark)
         /\ CutIn(c, Head(q).left, cl[c].blocksize - cl[c].inbuf)
  BY DEF InSync
<1>1. /\ c \in Clients /\ Framing(c) /\ toServer[c] \in Seq(Frame)
      /\ toServer[c] # << >> => Head(toServer[c]) = toServer[c][1]
  BY DEF SyncInv, ListInv, TypeOK, NetTypeOK, Allocated
<1>2. \A left, full : Remains(c, 1, left, full) => CutIn(c, left, full)
  BY DEF Remains, CutIn
<1>3. CASE cl[c].state = "initial"
  BY <1>1, <1>2, <1>3 DEF Framing, NameOnly
<1>4. CASE cl[c].state = "get_block"
  BY <1>1, <1>2, <1>4 DEF Framing, Framed, Opened
<1>5. CASE cl[c].state \in {"pre_block", "check_block", "finished"}
  <2>1. Framed(c)
    BY <1>1, <1>5 DEF Framing, Opened
  <2>2. toServer[c] # << >> =>
          CASE Head(toServer[c]).mark \in {SOH, STX} ->
                 CutIn(c, Head(toServer[c]).left,
                       1 + BlockSize(Head(toServer[c]).mark))
            [] OTHER -> Head(toServer[c]).left = 1
    <3> SUFFICES ASSUME toServer[c] # << >>
                 PROVE  CASE toServer[c][1].mark \in {SOH, STX} ->
                               CutIn(c, toServer[c][1].left,
                                     1 + BlockSize(toServer[c][1].mark))
                          [] OTHER -> toServer[c][1].left = 1
      BY <1>1
    <3>1. CASE toServer[c][1].mark = LF /\ toServer[c][1].left = 1
      BY <3>1 DEF LF, SOH, STX
    <3>2. CASE Untouched(c, 1)
      <4>1. /\ toServer[c][1].mark \in {SOH, STX, EOT}
            /\ Remains(c, 1, toServer[c][1].left,
                       FullLen(toServer[c][1].mark))
        <5>1. toServer[c][1] \in Frame
          BY <1>1
        <5> QED BY <3>2, <5>1 DEF Untouched, Frame
      <4>2. CASE toServer[c][1].mark = EOT
        BY <4>1, <4>2 DEF Remains, FullLen, EOT, SOH, STX
      <4>3. CASE toServer[c][1].mark \in {SOH, STX}
        BY <1>2, <4>1, <4>3 DEF FullLen, EOT, SOH, STX
      <4> QED BY <4>1, <4>2, <4>3
    <3> QED BY <1>5, <2>1, <3>1, <3>2 DEF Framed
  <2> QED BY <1>5, <2>1, <2>2 DEF Framed
<1> QED BY <1>3, <1>4, <1>5

\* However reads are split, and whatever is damaged, sent again or cut off, the
\* server and its clients agree where frames begin (xmodemserver.c:154-205).
THEOREM SyncCorrect == Spec => []InSync
BY InitSyncInv, SyncInvPreserved, SyncInvImpliesInSync, PTL DEF Spec
=============================================================================
