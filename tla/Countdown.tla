------------------------------- MODULE Countdown ------------------------------
(***************************************************************************)
(* ex8: countdown.c counts down once every two seconds in which its client *)
(* sends nothing, and tells the client; client.c sends the numbers that    *)
(* are typed, which the count goes on from, and shows those it is told.    *)
(* Both end with the connection: a read that does not return a whole int   *)
(* (the end, an error, or a part of one) ends the program.                 *)
(***************************************************************************)
EXTENDS Integers, Sequences

CONSTANTS
  Start,      \* the first counter: 10 in the code
  IntMod,     \* htons and ntohs keep 16 bits: 65536 in the code
  Inputs,     \* the numbers that may be typed, as atoi returns them
  MaxLines,   \* a bound on the lines typed
  Room        \* the numbers a connection holds on their way

ASSUME CountdownAssumption ==
  /\ IntMod \in Nat \ {0} /\ Start \in 1 .. IntMod - 1
  /\ Inputs \subseteq Int /\ Inputs # {}
  /\ MaxLines \in Nat /\ Room \in Nat \ {0}

VARIABLES
  server,     \* "select", "write" (line 64), "kaboom" or "error"
  counter,
  client,     \* "select", "stdin" (70), "socket" (85), "exited", "cut" or "killed"
  rset,       \* what the client's select reported
  stdin,      \* the lines typed and not yet read,
  typed,      \* how many were typed,
  eof,        \* and whether the input was closed
  buf,        \* the number in the client's buf, {} before the first read
  toServer,   \* the numbers on their way
  toClient,
  reset,      \* was the connection reset, for data that nobody read
  shown       \* the number that the client showed last, {} before the first

clientVars == <<client, rset, buf, shown>>
typing == <<stdin, typed, eof>>
net == <<toServer, toClient, reset>>
vars == <<server, counter, clientVars, typing, net>>

ServerRuns == server \in {"select", "write"}
ClientRuns == client \in {"select", "stdin", "socket"}

Init ==
  /\ server = "select" /\ counter = Start
  /\ client = "select" /\ rset = {} /\ buf = {} /\ shown = {}
  /\ stdin = <<>> /\ typed = 0 /\ eof = FALSE
  /\ toServer = <<>> /\ toClient = <<>> /\ reset = FALSE

-----------------------------------------------------------------------------
\* countdown.c

Ticking_AboveOne == counter > 1    \* mutant
Ticking == counter > 0

\* select returns 0.  Nothing is readable then, not even the connection's end.
Timeout ==
  /\ server = "select" /\ toServer = <<>> /\ ClientRuns
  /\ IF Ticking THEN counter' = counter - 1 /\ server' = "write"
     ELSE UNCHANGED <<counter, server>>
  /\ UNCHANGED <<clientVars, typing, net>>

\* A process that ends with numbers unread resets the connection; what is on its
\* way to the other side may be lost then.
Surviving(queue, broken) == IF broken THEN {queue, <<>>} ELSE {queue}

ServerExits(how, sent) ==
  /\ server' = how /\ reset' = (reset \/ toServer # <<>>)
  /\ toClient' \in Surviving(sent, toServer # <<>>)

Wire_Whole(number) == number    \* mutant
Wire(number) == number % IntMod

\* Mutant: the last number is not sent.
ServerWrite_KaboomFirst ==
  /\ server = "write" /\ (ClientRuns => Len(toClient) < Room)
  /\ IF counter <= 0 THEN ServerExits("kaboom", toClient)
     ELSE server' = "select" /\ toClient' = Append(toClient, Wire(counter)) /\ UNCHANGED reset
  /\ UNCHANGED <<counter, clientVars, typing, toServer>>

\* A write to a client that is gone is lost.
ServerWrite ==
  /\ server = "write" /\ (ClientRuns => Len(toClient) < Room)
  /\ LET sent == IF ClientRuns THEN Append(toClient, Wire(counter)) ELSE toClient
     IN  IF counter <= 0 THEN ServerExits("kaboom", sent)
         ELSE server' = "select" /\ toClient' = sent /\ UNCHANGED reset
  /\ UNCHANGED <<counter, clientVars, typing, toServer>>

ServerRead ==
  /\ server = "select" /\ toServer # <<>>
  /\ counter' = Head(toServer) /\ toServer' = Tail(toServer)
  /\ UNCHANGED <<server, clientVars, typing, toClient, reset>>

\* "Client closed or error": the end, or a part of a number.
ServerReadsEnd ==
  /\ server = "select" /\ toServer = <<>> /\ ~ClientRuns
  /\ ServerExits("error", toClient)
  /\ UNCHANGED <<counter, clientVars, typing, toServer>>

ServerReadsPart ==
  /\ server = "select" /\ toServer # <<>>
  /\ ServerExits("error", toClient)
  /\ UNCHANGED <<counter, clientVars, typing, toServer>>

\* SIGPIPE, which neither program handles.
ServerKilled ==
  /\ server = "write" /\ ~ClientRuns /\ reset
  /\ ServerExits("error", toClient)
  /\ UNCHANGED <<counter, clientVars, typing, toServer>>

-----------------------------------------------------------------------------
\* client.c

Type ==
  /\ typed < MaxLines /\ ~eof
  /\ \E number \in Inputs : stdin' = Append(stdin, number)
  /\ typed' = typed + 1
  /\ UNCHANGED <<server, counter, clientVars, eof, net>>

CloseInput ==
  /\ ~eof /\ eof' = TRUE
  /\ UNCHANGED <<server, counter, clientVars, stdin, typed, net>>

\* The input is looked at first; rset is not asked for again before the socket.
ClientSelect ==
  /\ client = "select"
  /\ rset' = {fd \in {"stdin", "socket"} :
                IF fd = "stdin" THEN stdin # <<>> \/ eof
                ELSE toClient # <<>> \/ ~ServerRuns}
  /\ rset' # {}
  /\ client' = IF "stdin" \in rset' THEN "stdin" ELSE "socket"
  /\ UNCHANGED <<server, counter, buf, shown, typing, net>>

NextCheck == IF "socket" \in rset THEN "socket" ELSE "select"

\* One read takes one line of a terminal, and may take several of a pipe, of
\* which atoi sees the first.  At the end of the input it takes none, and atoi
\* sees what buf held before.
ReadLine(number) ==
  \/ /\ stdin # <<>> /\ number = Head(stdin)
     /\ \E lines \in 1 .. Len(stdin) :
          stdin' = SubSeq(stdin, lines + 1, Len(stdin))
  \/ /\ stdin = <<>>
     /\ number \in IF buf = {} THEN Inputs ELSE buf
     /\ UNCHANGED stdin

\* The first write to a server that is gone is lost and resets the connection.
ClientWrite ==
  /\ client = "stdin" /\ (ServerRuns => Len(toServer) < Room)
  /\ \E number \in Inputs :
       /\ ReadLine(number) /\ buf' = {number}
       /\ toServer' = IF ServerRuns THEN Append(toServer, Wire(number)) ELSE toServer
  /\ reset' = (reset \/ ~ServerRuns)
  /\ toClient' \in Surviving(toClient, ~ServerRuns)
  /\ client' = NextCheck
  /\ UNCHANGED <<server, counter, rset, shown, typed, eof>>

ClientKilled ==
  /\ client = "stdin" /\ ~ServerRuns /\ reset
  /\ client' = "killed"
  /\ UNCHANGED <<server, counter, rset, buf, shown, typing, net>>

SocketRead ==
  /\ client = "socket" /\ toClient # <<>>
  /\ shown' = {Head(toClient)} /\ toClient' = Tail(toClient)
  /\ client' = "select"
  /\ UNCHANGED <<server, counter, rset, buf, typing, toServer, reset>>

\* "Server Terminated, closing connection": again the end, or a part.
ClientReadsEnd ==
  /\ client = "socket" /\ toClient = <<>>
  /\ client' = "exited"
  /\ UNCHANGED <<server, counter, rset, buf, shown, typing, net>>

ClientReadsPart ==
  /\ client = "socket" /\ toClient # <<>>
  /\ client' = "cut" /\ reset' = TRUE
  /\ toServer' \in Surviving(toServer, TRUE)
  /\ UNCHANGED <<server, counter, rset, buf, shown, typing, toClient>>

-----------------------------------------------------------------------------
ServerActs ==
  Timeout \/ ServerWrite \/ ServerRead \/ ServerReadsEnd \/ ServerKilled
ClientActs ==
  ClientSelect \/ ClientWrite \/ ClientKilled \/ SocketRead \/ ClientReadsEnd

Next ==
  \/ ServerActs \/ ClientActs
  \/ ServerReadsPart \/ ClientReadsPart
  \/ Type \/ CloseInput

Spec == Init /\ [][Next]_vars

\* Each process runs when it can: the clock reaches two seconds when nothing
\* comes.  Nobody has to type, to close the input or to cut a read short.
FairSpec == Spec /\ WF_vars(ServerActs) /\ WF_vars(ClientActs)

-----------------------------------------------------------------------------
\* The types; the counter is always a number of 16 bits, so it cannot become
\* negative, whatever is typed.
TypeOK ==
  /\ server \in {"select", "write", "kaboom", "error"}
  /\ counter \in 0 .. IntMod - 1
  /\ client \in {"select", "stdin", "socket", "exited", "cut", "killed"}
  /\ rset \subseteq {"stdin", "socket"} /\ reset \in BOOLEAN
  /\ stdin \in Seq(Inputs) /\ typed \in 0 .. MaxLines /\ eof \in BOOLEAN
  /\ buf \subseteq Inputs
  /\ toServer \in Seq(0 .. IntMod - 1) /\ Len(toServer) <= Room
  /\ toClient \in Seq(0 .. IntMod - 1) /\ Len(toClient) <= Room
  /\ shown \subseteq 0 .. IntMod - 1

\* A client that reads to the end of a count shows its 0 last, unless a number
\* it sent crossed the end and reset the connection.
ShowsZero ==
  server = "kaboom" /\ client = "exited" /\ ~reset => shown = {0}

\* Both programs end, unless 0 (modulo 2^16) was typed, at which the counter
\* stops until another number comes, or the input was closed, after which the
\* client sends its last number again and again.
Stopped == ServerRuns /\ (counter = 0 \/ eof)
BothEndUnlessStopped == <>(~ServerRuns /\ ~ClientRuns) \/ <>[]Stopped
=============================================================================
