------------------------------ MODULE LineBuffer ------------------------------
(***************************************************************************)
(* ex7/bufserver.c: one connection at a time is read into buf, and what is *)
(* in front of a network newline is printed and removed.  The search       *)
(* starts at after but runs for inbuf characters, so it looks past what    *)
(* was received: at what earlier lines and connections left in buf, and    *)
(* beyond its end.  The buffer is not cleared between connections, and     *)
(* printf stops at a NUL the client sent.                                  *)
(***************************************************************************)
EXTENDS Integers, Sequences

CONSTANTS
  Size,       \* sizeof(buf): 30 in the code
  MaxBytes    \* a bound on the bytes that all clients send together

ASSUME BufferAssumption == Size \in Nat \ {0} /\ MaxBytes \in Nat

VARIABLES
  pc,         \* "accept", "read" (the call at line 91) or "crashed"
  buf,        \* the array, from index 0
  inbuf,      \* how many bytes of it are in use
  left,       \* the bytes that may still be sent
  printed,    \* what printf wrote of each of this connection's lines,
  lines,      \* and all of it, with the newlines as they were sent;
  reads,      \* what each read of it returned,
  received    \* and what they returned together

output == <<printed, lines>>
arrived == <<reads, received>>
vars == <<pc, buf, inbuf, left, output, arrived>>

NUL == "NUL"
Bytes == {"x", NUL, "CR", "LF"}    \* "x" is any other character
Unknown == "?"                \* a byte nobody wrote: it may be any of them
NewLine == <<"CR", "LF">>

Init ==
  /\ pc = "accept"
  /\ buf = [j \in 0 .. Size - 1 |-> Unknown] /\ inbuf = 0
  /\ left = MaxBytes
  /\ printed = <<>> /\ lines = <<>> /\ reads = <<>> /\ received = <<>>

\* Mutant: the count of the last connection is kept.
Accept_KeepInbuf ==
  /\ pc = "accept" /\ left > 0
  /\ pc' = "read"
  /\ printed' = <<>> /\ lines' = <<>> /\ reads' = <<>> /\ received' = <<>>
  /\ UNCHANGED <<buf, inbuf, left>>

Accept ==
  /\ pc = "accept" /\ left > 0
  /\ pc' = "read" /\ inbuf' = 0
  /\ printed' = <<>> /\ lines' = <<>> /\ reads' = <<>> /\ received' = <<>>
  /\ UNCHANGED <<buf, left>>

room == Size - inbuf

\* read returns any part of what was sent that there is room for, at after.
Incoming == UNION {[1 .. n -> Bytes] : n \in (1 .. room) \cap (1 .. left)}
Filled(data) ==
  [j \in 0 .. Size - 1 |->
     IF j - inbuf \in 0 .. Len(data) - 1 THEN data[j - inbuf + 1] ELSE buf[j]]

\* What find_network_newline(after, n) may return when memory is b, with the
\* bytes beyond b unknown: the first newline that is certain, or one before it
\* that is made of unknown bytes.
FindNewline(b, after, n) ==
  LET At(j) == IF j < Size THEN b[j] ELSE Unknown
      IsNewline(c) == At(after + c) = "CR" /\ At(after + c + 1) = "LF"
      MayBe(c) == At(after + c) \in {"CR", Unknown} /\ At(after + c + 1) \in {"LF", Unknown}
      NoneBefore(c) == \A d \in 0 .. c - 1 : ~IsNewline(d)
  IN  {c \in 0 .. n - 1 : MayBe(c) /\ NoneBefore(c)}
        \cup {c \in {-1} : NoneBefore(n)}

\* Mutant: the search ends one character early.
Where_Short(data) == FindNewline(Filled(data), inbuf, Len(data) - 2)
Where(data) == FindNewline(Filled(data), inbuf, inbuf + Len(data))

Receive(data) ==
  /\ pc = "read"
  /\ left' = left - Len(data)
  /\ reads' = Append(reads, data) /\ received' = received \o data

NoNewline(data) ==
  /\ Receive(data) /\ -1 \in Where(data)
  /\ inbuf' = inbuf + Len(data) /\ buf' = Filled(data)
  /\ UNCHANGED <<pc, output>>

\* Mutants: one byte, or three, are taken for the line's end.
Rest_One(data, where) == Len(data) - where - 1
Rest_Three(data, where) == Len(data) - where - 3
Rest(data, where) == Len(data) - where - 2

\* How many bytes of b printf writes for a %s: those before the first NUL.
Shown(b) == CHOOSE n \in 0 .. Size - 1 : b[n] = NUL /\ \A j \in 0 .. n - 1 : b[j] # NUL

\* A newline character and a NUL are put in the place of the newline, and printf
\* writes buf up to a NUL: this one, or one that was received before it, and then
\* the rest of the line is lost.  What follows the line moves to the front.
PrintLine(data) ==
  /\ Receive(data)
  /\ \E where \in Where(data) \ {-1} :
       LET end == inbuf + where
           marked == [Filled(data) EXCEPT ![end] = "LF", ![end + 1] = NUL]
           message == [j \in 1 .. Shown(marked) |-> marked[j - 1]]
       IN  /\ Rest(data, where) >= 0
           /\ printed' = Append(printed, message)
           /\ lines' = lines \o IF Shown(marked) = end + 1
                                THEN SubSeq(message, 1, end) \o NewLine ELSE message
           /\ inbuf' = Rest(data, where)
           /\ buf' = [j \in 0 .. Size - 1 |->
                        IF j < inbuf' THEN marked[end + 2 + j] ELSE marked[j]]
  /\ UNCHANGED pc

\* A newline that is not all of this read's bytes makes inbuf negative, and
\* memmove is given a size of almost 2^64.
Crash(data) ==
  /\ Receive(data)
  /\ \E where \in Where(data) \ {-1} : Rest(data, where) < 0
  /\ pc' = "crashed"
  /\ UNCHANGED <<buf, inbuf, output>>

\* read returns 0 or -1: the client is gone, or there is no room to read into.
Hangup ==
  /\ pc = "read"
  /\ pc' = "accept"
  /\ UNCHANGED <<buf, inbuf, left, output, arrived>>

Next ==
  \/ Accept \/ Hangup
  \/ \E data \in Incoming : NoNewline(data) \/ PrintLine(data) \/ Crash(data)

Spec == Init /\ [][Next]_vars

-----------------------------------------------------------------------------
Held == [j \in 1 .. inbuf |-> buf[j - 1]]

\* The types; what is held was received, it is no stray byte.
TypeOK ==
  /\ pc \in {"accept", "read", "crashed"}
  /\ inbuf \in 0 .. Size /\ left \in 0 .. MaxBytes
  /\ buf \in [0 .. Size - 1 -> Bytes \cup {NUL, Unknown}]
  /\ Held \in Seq(Bytes)
  /\ printed \in Seq(Seq(Bytes)) /\ lines \in Seq(Bytes)
  /\ reads \in Seq(Seq(Bytes)) /\ received \in Seq(Bytes)

NoNUL(s) == \A j \in 1 .. Len(s) : s[j] # NUL

\* However reads cut the stream, what was printed, with each newline as it was
\* sent, and the bytes in use are what was received, in order: none is lost,
\* repeated or overwritten when a line is removed.  Only of a client that sends
\* no NUL: of a line with one the part before it is printed, and no newline.
NothingLost ==
  pc = "read" /\ NoNUL(received) => lines \o Held = received

Text(s) == \A j \in 1 .. Len(s) : s[j] = "x"
IsLine(s) ==
  Len(s) >= 2 /\ Text(SubSeq(s, 1, Len(s) - 2)) /\ s[Len(s) - 1] = "CR" /\ s[Len(s)] = "LF"

Message(s) == s # <<>> /\ s[Len(s)] = "LF" /\ Text(SubSeq(s, 1, Len(s) - 1))

\* As long as no read goes past the end of a line, or stops between the two
\* bytes of it, each message is one line, put together from as many reads as it
\* took, and printed as soon as it is complete.
OneLineEach ==
  pc = "read" /\ (\A r \in 1 .. Len(reads) : Text(reads[r]) \/ IsLine(reads[r]))
    => Text(Held) /\ \A l \in 1 .. Len(printed) : Message(printed[l])

\* A client each line of which comes in one read cannot bring the server down,
\* whatever earlier clients left in the buffer.
WholeLinesNeverCrash ==
  (\A r \in 1 .. Len(reads) : IsLine(reads[r])) => pc # "crashed"
=============================================================================
