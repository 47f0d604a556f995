--------------------------- MODULE CountdownProofs ----------------------------
(***************************************************************************)
(* Proofs about Countdown, for every first counter, width of a number,     *)
(* set of numbers typed and room of the connection: the counter never      *)
(* becomes negative, and a client that reads to the end of a count that    *)
(* was not reset shows its 0 last.                                         *)
(***************************************************************************)
EXTENDS Countdown, SequenceTheorems, TLAPS

\* What the client goes to read was reported by select, and nobody else takes it.
ReportedIsThere ==
  /\ ServerRuns
  /\ client = "socket" \/ (client = "stdin" /\ "socket" \in rset)
  => toClient # <<>>

\* While the server runs, the client ends only by a read cut short.
EndsResetting == ServerRuns /\ ~ClientRuns => reset

\* A client that has read the end has read everything before it.
ReadToTheEnd == client = "exited" => toClient = <<>>

\* After the end of a count its 0 is the last number on its way, or was shown.
ZeroComesLast ==
  server = "kaboom" /\ ~reset =>
    /\ toClient = <<>> => shown = {0}
    /\ toClient # <<>> => toClient[Len(toClient)] = 0

CountInv ==
  /\ TypeOK
  /\ ReportedIsThere /\ EndsResetting /\ ReadToTheEnd /\ ZeroComesLast

Numbers == 0 .. IntMod - 1

Flags == ReportedIsThere /\ EndsResetting /\ ReadToTheEnd /\ ZeroComesLast

\* A number on its way has 16 bits, and 0 stays 0.
LEMMA WireNumber ==
  /\ \A number \in Int : Wire(number) \in Numbers
  /\ Wire(0) = 0
BY CountdownAssumption DEF Wire, Numbers

\* What survives of a queue is the queue, or nothing of it.
LEMMA SurvivingQueue ==
  ASSUME NEW queue, NEW broken \in BOOLEAN, NEW rest \in Surviving(queue, broken)
  PROVE  /\ rest = queue \/ rest = <<>>
         /\ ~ broken => rest = queue
BY DEF Surviving

\* A number is sent only when there is room for it.
LEMMA SentFits ==
  ASSUME NEW queue \in Seq(Numbers), NEW number \in Numbers, Len(queue) < Room
  PROVE  /\ Append(queue, number) \in Seq(Numbers)
         /\ Len(Append(queue, number)) <= Room
         /\ Append(queue, number) # <<>>
         /\ Append(queue, number)[Len(Append(queue, number))] = number
BY CountdownAssumption

\* A number is read off the front, and the last one stays last.
LEMMA ReadOff ==
  ASSUME NEW queue \in Seq(Numbers), queue # <<>>
  PROVE  /\ Head(queue) \in Numbers /\ Tail(queue) \in Seq(Numbers)
         /\ Len(Tail(queue)) = Len(queue) - 1
         /\ Tail(queue) = <<>> => Head(queue) = queue[Len(queue)]
         /\ Tail(queue) # <<>> => Tail(queue)[Len(Tail(queue))] = queue[Len(queue)]
<1>1. Head(queue) \in Numbers /\ Tail(queue) \in Seq(Numbers) /\ Len(Tail(queue)) = Len(queue) - 1
  BY HeadTailProperties
<1>2. Len(queue) \in Nat \ {0} /\ Len(Tail(queue)) \in Nat
  BY EmptySeq, <1>1
<1>3. Tail(queue) = <<>> => Head(queue) = queue[Len(queue)]
  <2> SUFFICES ASSUME Tail(queue) = <<>> PROVE Head(queue) = queue[Len(queue)]
    OBVIOUS
  <2>1. Len(Tail(queue)) = 0
    BY EmptySeq
  <2>2. Len(queue) = 1
    BY <1>1, <1>2, <2>1
  <2> QED BY <2>2
<1>4. ASSUME Tail(queue) # <<>> PROVE Tail(queue)[Len(Tail(queue))] = queue[Len(queue)]
  <2>1. Len(Tail(queue)) \in 1 .. Len(Tail(queue))
    BY <1>1, <1>2, <1>4, EmptySeq
  <2>2. Tail(queue)[Len(Tail(queue))] = queue[Len(Tail(queue)) + 1]
    BY <2>1, <1>1, HeadTailProperties
  <2>3. Len(Tail(queue)) + 1 = Len(queue)
    BY <1>1, <1>2
  <2> QED BY <2>2, <2>3
<1> QED BY <1>1, <1>3, <1>4

\* TypeOK in three parts: the processes, who types, and the connection.
ProcessTypes ==
  /\ server \in {"select", "write", "kaboom", "error"}
  /\ counter \in 0 .. IntMod - 1
  /\ client \in {"select", "stdin", "socket", "exited", "cut", "killed"}
  /\ rset \subseteq {"stdin", "socket"}
  /\ shown \subseteq 0 .. IntMod - 1
TypingTypes ==
  /\ stdin \in Seq(Inputs) /\ typed \in 0 .. MaxLines /\ eof \in BOOLEAN
  /\ buf \subseteq Inputs
NetTypes ==
  /\ reset \in BOOLEAN
  /\ toServer \in Seq(0 .. IntMod - 1) /\ Len(toServer) <= Room
  /\ toClient \in Seq(0 .. IntMod - 1) /\ Len(toClient) <= Room

LEMMA NothingFits ==
  /\ <<>> \in Seq(Inputs)
  /\ <<>> \in Seq(0 .. IntMod - 1)
  /\ Len(<<>>) <= Room
<1>1. Len(<<>>) = 0
  OBVIOUS
<1> QED BY <1>1, EmptySeq, CountdownAssumption

LEMMA TypeParts == TypeOK <=> ProcessTypes /\ TypingTypes /\ NetTypes
BY DEF TypeOK, ProcessTypes, TypingTypes, NetTypes

LEMMA TypePartsNext == TypeOK' <=> ProcessTypes' /\ TypingTypes' /\ NetTypes'
BY TypeParts, PTL

LEMMA InitCount == Init => CountInv
<1> SUFFICES ASSUME Init PROVE CountInv OBVIOUS
<1>1. IntMod \in Nat /\ Start \in Int /\ 0 <= Start /\ Start <= IntMod - 1 /\ Room \in Nat /\ MaxLines \in Nat
  BY CountdownAssumption
<1>2. TypeOK
  <2>1. ProcessTypes
    BY <1>1 DEF Init, ProcessTypes
  <2>2. TypingTypes
    <3>1. typed \in 0 .. MaxLines
      BY <1>1 DEF Init
    <3> QED BY <3>1, NothingFits DEF Init, TypingTypes
  <2>3. NetTypes
    BY NothingFits DEF Init, NetTypes
  <2> QED BY <2>1, <2>2, <2>3, TypeParts
<1>3. Flags
  BY DEF Init, Flags, ReportedIsThere, EndsResetting, ReadToTheEnd, ZeroComesLast, ClientRuns
<1> QED BY <1>2, <1>3 DEF CountInv, Flags

\* The steps of the server.
LEMMA TimeoutCount == ASSUME CountInv, Timeout PROVE CountInv'
<1>1. TypeOK'
  BY CountdownAssumption DEF CountInv, Timeout, Ticking, TypeOK, clientVars, typing, net
<1>2. Flags'
  BY DEF CountInv, Timeout, Flags, ReportedIsThere, EndsResetting, ReadToTheEnd,
         ZeroComesLast, ClientRuns, ServerRuns, clientVars, typing, net
<1> QED BY <1>1, <1>2 DEF CountInv, Flags

LEMMA WriteCount == ASSUME CountInv, ServerWrite PROVE CountInv'
<1> DEFINE sent == IF ClientRuns THEN Append(toClient, Wire(counter)) ELSE toClient
<1>0. /\ TypeOK /\ server = "write" /\ ClientRuns \in BOOLEAN /\ (toServer # <<>>) \in BOOLEAN
      /\ toClient \in Seq(Numbers) /\ counter \in Numbers /\ counter \in Nat
  BY CountdownAssumption DEF CountInv, ServerWrite, TypeOK, ClientRuns, Numbers
<1>1. sent \in Seq(Numbers) /\ Len(sent) <= Room /\ (ClientRuns => sent # <<>>)
        /\ (ClientRuns => sent[Len(sent)] = Wire(counter)) /\ (~ClientRuns => sent = toClient)
  <2>1. Wire(counter) \in Numbers
    BY <1>0, WireNumber
  <2>2. CASE ClientRuns
    BY <1>0, <2>1, <2>2, SentFits DEF ServerWrite
  <2>3. CASE ~ ClientRuns
    BY <1>0, <2>3 DEF TypeOK
  <2> QED BY <2>2, <2>3
<1> HIDE DEF sent
<1>2. CASE counter <= 0
  <2>1. counter = 0 /\ Wire(counter) = 0 /\ ServerExits("kaboom", sent)
    BY <1>0, <1>2, WireNumber DEF ServerWrite, sent
  <2>2. toClient' = sent \/ toClient' = <<>>
    BY <1>0, <2>1, SurvivingQueue DEF ServerExits
  <2>3. toServer = <<>> => toClient' = sent
    BY <1>0, <2>1, SurvivingQueue DEF ServerExits
  <2>4. TypeOK'
    <3>1. ProcessTypes' /\ TypingTypes'
      BY <1>0, <2>1, TypeParts
      DEF ServerWrite, ServerExits, ProcessTypes, TypingTypes, clientVars, typing
    <3>2. NetTypes'
      <4>1. toClient' \in Seq(Numbers) /\ Len(toClient') <= Room
        BY <1>1, <2>2, NothingFits DEF Numbers
      <4> QED BY <1>0, <2>1, <4>1, TypeParts DEF ServerWrite, ServerExits, NetTypes, Numbers
    <3> QED BY <3>1, <3>2, TypePartsNext
  <2>5. ZeroComesLast'
    <3> SUFFICES ASSUME ~ reset' PROVE toClient' # <<>> /\ toClient'[Len(toClient')] = 0
      BY DEF ZeroComesLast
    <3>1. ~ reset /\ toServer = <<>>
      BY <2>1 DEF ServerExits
    <3>2. ClientRuns
      BY <3>1, <1>0 DEF CountInv, EndsResetting, ServerRuns
    <3> QED BY <1>1, <2>1, <2>3, <3>1, <3>2
  <2>6. ~ ServerRuns'
    BY <2>1 DEF ServerExits, ServerRuns
  <2>7. ReportedIsThere' /\ EndsResetting'
    BY <2>6 DEF ReportedIsThere, EndsResetting
  <2>8. ReadToTheEnd'
    BY <1>1, <2>2 DEF CountInv, ReadToTheEnd, ServerWrite, clientVars, ClientRuns
  <2> QED BY <2>4, <2>5, <2>7, <2>8 DEF CountInv
<1>3. CASE counter > 0
  <2>1. server' = "select" /\ toClient' = sent /\ reset' = reset
    BY <1>0, <1>3 DEF ServerWrite, sent
  <2>2. TypeOK'
    BY <1>0, <1>1, <2>1 DEF ServerWrite, TypeOK, clientVars, typing, Numbers
  <2>3. Flags'
    BY <1>0, <1>1, <2>1 DEF CountInv, ServerWrite, Flags, ReportedIsThere, EndsResetting,
       ReadToTheEnd, ZeroComesLast, ClientRuns, ServerRuns, clientVars, typing
  <2> QED BY <2>2, <2>3 DEF CountInv, Flags
<1> QED BY <1>0, <1>2, <1>3

LEMMA ServerReadCount == ASSUME CountInv, ServerRead PROVE CountInv'
<1>1. Head(toServer) \in Numbers /\ Tail(toServer) \in Seq(Numbers)
        /\ Len(Tail(toServer)) = Len(toServer) - 1
  BY ReadOff DEF CountInv, TypeOK, ServerRead, Numbers
<1>2. TypeOK'
  BY <1>1, CountdownAssumption DEF CountInv, ServerRead, TypeOK, clientVars, typing, Numbers
<1>3. Flags'
  BY DEF CountInv, ServerRead, Flags, ReportedIsThere, EndsResetting, ReadToTheEnd,
         ZeroComesLast, ClientRuns, ServerRuns, clientVars, typing
<1> QED BY <1>2, <1>3 DEF CountInv, Flags

\* The server ends without the end of the count.
LEMMA ErrorCount ==
  ASSUME CountInv, ServerReadsEnd \/ ServerReadsPart \/ ServerKilled
  PROVE  CountInv'
<1>1. /\ ServerExits("error", toClient) /\ UNCHANGED <<counter, clientVars, typing, toServer>>
      /\ (toServer # <<>>) \in BOOLEAN
  BY DEF ServerReadsEnd, ServerReadsPart, ServerKilled
<1>2. toClient' = toClient \/ toClient' = <<>>
  BY <1>1, SurvivingQueue DEF ServerExits
<1>3. TypeOK'
  <2>1. ProcessTypes' /\ TypingTypes'
    BY <1>1, TypeParts
    DEF CountInv, ServerExits, ProcessTypes, TypingTypes, clientVars, typing
  <2>2. NetTypes'
    <3>1. toClient' \in Seq(0 .. IntMod - 1) /\ Len(toClient') <= Room
      BY <1>2, NothingFits DEF CountInv, TypeOK
    <3> QED BY <1>1, <3>1, TypeParts DEF CountInv, ServerExits, NetTypes
  <2> QED BY <2>1, <2>2, TypePartsNext
<1>4. Flags'
  BY <1>1, <1>2 DEF CountInv, ServerExits, Flags, ReportedIsThere, EndsResetting, ReadToTheEnd,
         ZeroComesLast, ClientRuns, ServerRuns, clientVars, typing
<1> QED BY <1>3, <1>4 DEF CountInv, Flags

\* The steps of the client and of who types.
LEMMA TypeCount == ASSUME CountInv, Type \/ CloseInput PROVE CountInv'
<1>1. TypeOK'
  <2>1. ProcessTypes' /\ NetTypes'
    BY TypeParts DEF CountInv, Type, CloseInput, ProcessTypes, NetTypes, clientVars, net
  <2>2. CASE Type
    <3>1. typed' \in 0 .. MaxLines
      BY <2>2, CountdownAssumption DEF CountInv, Type, TypeOK
    <3> QED BY <2>1, <2>2, <3>1, TypeParts, TypePartsNext DEF CountInv, Type, TypingTypes, clientVars
  <2>3. CASE CloseInput
    BY <2>1, <2>3, TypeParts, TypePartsNext DEF CountInv, CloseInput, TypingTypes, clientVars
  <2> QED BY <2>2, <2>3
<1>2. Flags'
  BY DEF CountInv, Type, CloseInput, Flags, ReportedIsThere, EndsResetting, ReadToTheEnd,
         ZeroComesLast, ClientRuns, ServerRuns, clientVars, typing, net
<1> QED BY <1>1, <1>2 DEF CountInv, Flags

LEMMA SelectCount == ASSUME CountInv, ClientSelect PROVE CountInv'
<1>1. /\ rset' \subseteq {"stdin", "socket"} /\ rset' # {}
      /\ "socket" \in rset' => toClient # <<>> \/ ~ServerRuns
  BY DEF ClientSelect
<1>2. client' \in {"stdin", "socket"} /\ (client' = "socket" => "socket" \in rset')
  BY <1>1 DEF ClientSelect
<1>3. TypeOK'
  BY <1>1, <1>2 DEF CountInv, ClientSelect, TypeOK, typing, net
<1>4. Flags'
  BY <1>1, <1>2 DEF CountInv, ClientSelect, Flags, ReportedIsThere, EndsResetting, ReadToTheEnd,
         ZeroComesLast, ClientRuns, ServerRuns, typing, net
<1> QED BY <1>3, <1>4 DEF CountInv, Flags

LEMMA ClientWriteCount == ASSUME CountInv, ClientWrite PROVE CountInv'
<1>1. PICK number \in Inputs :
        /\ ReadLine(number) /\ buf' = {number}
        /\ toServer' = IF ServerRuns THEN Append(toServer, Wire(number)) ELSE toServer
  BY DEF ClientWrite
<1>2. stdin' \in Seq(Inputs)
  <2>1. stdin \in Seq(Inputs)
    BY DEF CountInv, TypeOK
  <2>2. \A lines \in 1 .. Len(stdin) : SubSeq(stdin, lines + 1, Len(stdin)) \in Seq(Inputs)
    BY <2>1, SubSeqProperties
  <2> QED BY <1>1, <2>1, <2>2 DEF ReadLine
<1>3. toServer' \in Seq(Numbers) /\ Len(toServer') <= Room
  <2>1. toServer \in Seq(Numbers) /\ Len(toServer) <= Room /\ Wire(number) \in Numbers
    BY WireNumber, CountdownAssumption DEF CountInv, TypeOK, Numbers
  <2> QED BY <1>1, <2>1, SentFits DEF ClientWrite
<1>4. /\ toClient' = toClient \/ toClient' = <<>>
      /\ ServerRuns => toClient' = toClient
  BY SurvivingQueue DEF ClientWrite, ServerRuns
<1>5. client' \in {"socket", "select"} /\ (client' = "socket" => "socket" \in rset)
  BY DEF ClientWrite, NextCheck
<1>6. /\ client = "stdin" /\ reset' = (reset \/ ~ServerRuns)
      /\ UNCHANGED <<server, counter, rset, shown, typed, eof>>
  BY DEF ClientWrite
<1>7. TypeOK'
  <2>1. ProcessTypes'
    BY <1>5, <1>6, TypeParts DEF CountInv, ProcessTypes
  <2>2. TypingTypes'
    BY <1>1, <1>2, <1>6, TypeParts DEF CountInv, TypingTypes
  <2>3. NetTypes'
    <3>1. toClient' \in Seq(0 .. IntMod - 1) /\ Len(toClient') <= Room
      BY <1>4, NothingFits DEF CountInv, TypeOK
    <3> QED BY <1>3, <1>6, <3>1, TypeParts DEF CountInv, NetTypes, Numbers
  <2> QED BY <2>1, <2>2, <2>3, TypePartsNext
<1>8. Flags'
  BY <1>4, <1>5, <1>6 DEF CountInv, Flags, ReportedIsThere, EndsResetting, ReadToTheEnd,
         ZeroComesLast, ClientRuns, ServerRuns
<1> QED BY <1>7, <1>8 DEF CountInv, Flags

LEMMA SocketReadCount == ASSUME CountInv, SocketRead PROVE CountInv'
<1>1. /\ Head(toClient) \in Numbers /\ Tail(toClient) \in Seq(Numbers)
      /\ Len(Tail(toClient)) = Len(toClient) - 1
      /\ Tail(toClient) = <<>> => Head(toClient) = toClient[Len(toClient)]
      /\ Tail(toClient) # <<>> => Tail(toClient)[Len(Tail(toClient))] = toClient[Len(toClient)]
  BY ReadOff DEF CountInv, TypeOK, SocketRead, Numbers
<1>2. TypeOK'
  BY SMTT(30), <1>1, CountdownAssumption DEF CountInv, SocketRead, TypeOK, typing, Numbers
<1>3. ZeroComesLast'
  BY <1>1 DEF CountInv, SocketRead, ZeroComesLast
<1>4. ReportedIsThere' /\ EndsResetting' /\ ReadToTheEnd'
  BY DEF CountInv, SocketRead, ReportedIsThere, EndsResetting, ReadToTheEnd,
         ClientRuns, ServerRuns
<1> QED BY <1>2, <1>3, <1>4 DEF CountInv

\* The client ends.
LEMMA ClientEndsCount ==
  ASSUME CountInv, ClientKilled \/ ClientReadsEnd \/ ClientReadsPart
  PROVE  CountInv'
<1>1. CASE ClientKilled \/ ClientReadsEnd
  <2>1. TypeOK'
    BY <1>1 DEF CountInv, ClientKilled, ClientReadsEnd, TypeOK, typing, net
  <2>2. ~ ServerRuns
    BY <1>1 DEF CountInv, ReportedIsThere, ClientKilled, ClientReadsEnd
  <2>3. Flags'
    BY <1>1, <2>2 DEF CountInv, ClientKilled, ClientReadsEnd, Flags, ReportedIsThere, EndsResetting,
       ReadToTheEnd, ZeroComesLast, ClientRuns, ServerRuns, typing, net
  <2> QED BY <2>1, <2>3 DEF CountInv, Flags
<1>2. CASE ClientReadsPart
  <2>1. toServer' = toServer \/ toServer' = <<>>
    BY <1>2, SurvivingQueue DEF ClientReadsPart
  <2>2. TypeOK'
    <3>1. ProcessTypes' /\ TypingTypes'
      BY <1>2, TypeParts DEF CountInv, ClientReadsPart, ProcessTypes, TypingTypes, typing
    <3>2. toServer' \in Seq(0 .. IntMod - 1) /\ Len(toServer') <= Room
      BY <2>1, NothingFits DEF CountInv, TypeOK
    <3>3. NetTypes'
      BY <1>2, <3>2, TypeParts DEF CountInv, ClientReadsPart, NetTypes
    <3> QED BY <3>1, <3>3, TypePartsNext
  <2>3. Flags'
    BY <1>2 DEF CountInv, ClientReadsPart, Flags, ReportedIsThere, EndsResetting, ReadToTheEnd,
       ZeroComesLast, ClientRuns, ServerRuns, typing
  <2> QED BY <2>2, <2>3 DEF CountInv, Flags
<1> QED BY <1>1, <1>2

LEMMA CountInvariant == Spec => []CountInv
<1>1. CountInv /\ [Next]_vars => CountInv'
  <2> SUFFICES ASSUME CountInv, [Next]_vars PROVE CountInv' OBVIOUS
  <2>1. CASE UNCHANGED vars
    BY <2>1 DEF CountInv, vars, clientVars, typing, net, TypeOK, ReportedIsThere, EndsResetting,
                ReadToTheEnd, ZeroComesLast, ServerRuns, ClientRuns
  <2>2. CASE Timeout \/ ServerWrite \/ ServerRead \/ ServerReadsEnd \/ ServerReadsPart \/ ServerKilled
    BY <2>2, TimeoutCount, WriteCount, ServerReadCount, ErrorCount
  <2>3. CASE ClientSelect \/ ClientWrite \/ SocketRead \/ ClientKilled \/ ClientReadsEnd
               \/ ClientReadsPart \/ Type \/ CloseInput
    BY <2>3, SelectCount, ClientWriteCount, SocketReadCount, ClientEndsCount, TypeCount
  <2> QED BY <2>1, <2>2, <2>3 DEF Next, ServerActs, ClientActs
<1> QED BY InitCount, <1>1, PTL DEF Spec

\* The counter stays a number of 16 bits, never negative, whatever is typed, and no
\* more numbers are on their way than the connection holds (countdown.c:43-78).
THEOREM CountdownTypes == Spec => []TypeOK
<1>1. CountInv => TypeOK BY DEF CountInv
<1> QED BY CountInvariant, <1>1, PTL

\* A client that reads to the end of a count shows its 0 last, unless the
\* connection was reset (countdown.c:58-66, client.c:76-96).
THEOREM ZeroShown == Spec => []ShowsZero
<1>1. CountInv => ShowsZero
  BY DEF CountInv, ShowsZero, ReadToTheEnd, ZeroComesLast
<1> QED BY CountInvariant, <1>1, PTL
=============================================================================
