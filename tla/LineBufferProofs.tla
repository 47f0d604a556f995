--------------------------- MODULE LineBufferProofs ---------------------------
(***************************************************************************)
(* Proofs about LineBuffer, for a buffer of any size and any bytes: what   *)
(* is printed and what is held are what was received, up to a NUL, and     *)
(* what holds of them and of the server as long as reads do not go past    *)
(* the end of a line.                                                      *)
(***************************************************************************)
EXTENDS LineBuffer, SequenceTheorems, WellFoundedInduction, TLAPS

\* The bytes in use, followed by those of a read.
Joined(data) == Held \o data

\* A server that has only read whole lines runs, and holds nothing back.
NothingHeldBack ==
  (\A r \in 1 .. Len(reads) : IsLine(reads[r])) =>
    pc # "crashed" /\ (pc = "read" => inbuf = 0)

LineInv == TypeOK /\ NothingLost /\ OneLineEach /\ NothingHeldBack

-----------------------------------------------------------------------------
\* What a read returns fits behind the bytes in use.
LEMMA DataFits ==
  ASSUME TypeOK, NEW data \in Incoming
  PROVE  /\ data \in Seq(Bytes) /\ Len(data) \in Nat \ {0} /\ Len(data) <= left
         /\ Size \in Nat /\ inbuf \in Nat /\ inbuf + Len(data) <= Size
         /\ \A j \in 1 .. Len(data) : data[j] \in Bytes
<1>1. PICK n \in (1 .. room) \cap (1 .. left) : data \in [1 .. n -> Bytes]
  BY DEF Incoming
<1>2. n \in Nat \ {0} /\ n <= left /\ Size \in Nat /\ inbuf \in Nat /\ inbuf + n <= Size
  BY <1>1, BufferAssumption DEF TypeOK, room
<1>3. data \in Seq(Bytes) /\ Len(data) = n
  BY <1>1, <1>2
<1> QED BY <1>1, <1>2, <1>3

\* The array after a read holds the bytes in use and then those read.
LEMMA FilledJoins ==
  ASSUME TypeOK, NEW data \in Incoming
  PROVE  /\ Joined(data) \in Seq(Bytes) /\ Len(Joined(data)) = inbuf + Len(data)
         /\ Filled(data) \in [0 .. Size - 1 -> Bytes \cup {NUL, Unknown}]
         /\ \A j \in 0 .. inbuf + Len(data) - 1 :
              Filled(data)[j] = Joined(data)[j + 1] /\ Joined(data)[j + 1] \in Bytes
         /\ \A j \in 1 .. inbuf : Joined(data)[j] = Held[j]
         /\ \A c \in 0 .. Len(data) - 1 : Filled(data)[inbuf + c] = data[c + 1]
<1>1. /\ data \in Seq(Bytes) /\ Len(data) \in Nat \ {0} /\ Size \in Nat /\ inbuf \in Nat
      /\ inbuf + Len(data) <= Size /\ \A j \in 1 .. Len(data) : data[j] \in Bytes
  BY DataFits
<1>2. Held \in Seq(Bytes) /\ Len(Held) = inbuf /\ \A j \in 1 .. inbuf : Held[j] = buf[j - 1]
  BY <1>1 DEF TypeOK, Held
<1>3. /\ Joined(data) \in Seq(Bytes) /\ Len(Joined(data)) = inbuf + Len(data)
      /\ \A i \in 1 .. inbuf + Len(data) :
           Joined(data)[i] = IF i <= inbuf THEN Held[i] ELSE data[i - inbuf]
  <2>1. /\ Held \o data \in Seq(Bytes) /\ Len(Held \o data) = Len(Held) + Len(data)
        /\ \A i \in 1 .. Len(Held) + Len(data) :
             (Held \o data)[i] = IF i <= Len(Held) THEN Held[i] ELSE data[i - Len(Held)]
    <3> HIDE DEF Held
    <3> QED BY ZenonT(40), <1>1, <1>2, ConcatProperties
  <2> HIDE DEF Held
  <2> QED BY <1>2, <2>1 DEF Joined
<1>4. Filled(data) \in [0 .. Size - 1 -> Bytes \cup {NUL, Unknown}]
  BY <1>1 DEF Filled, TypeOK
<1>5. ASSUME NEW j \in 0 .. inbuf + Len(data) - 1
      PROVE  Filled(data)[j] = Joined(data)[j + 1] /\ Joined(data)[j + 1] \in Bytes
  <2>1. j \in 0 .. Size - 1 /\ j + 1 \in 1 .. inbuf + Len(data)
    BY <1>1
  <2>2. Joined(data)[j + 1] \in Bytes
    BY <1>3, <2>1, ElementOfSeq
  <2>3. CASE j < inbuf
    <3>1. Filled(data)[j] = buf[j] /\ j + 1 \in 1 .. inbuf
      BY <1>1, <2>1, <2>3 DEF Filled
    <3>2. Held[j + 1] = buf[j]
      BY <1>1, <1>2, <3>1
    <3> QED BY <1>1, <1>3, <2>1, <2>2, <2>3, <3>1, <3>2
  <2>4. CASE ~ (j < inbuf)
    <3>1. Filled(data)[j] = data[j - inbuf + 1] /\ j + 1 - inbuf = j - inbuf + 1
      BY <1>1, <2>1, <2>4 DEF Filled
    <3> QED BY <1>1, <1>3, <2>1, <2>2, <2>4, <3>1
  <2> QED BY <2>3, <2>4
<1>6. \A j \in 1 .. inbuf : Joined(data)[j] = Held[j]
  BY <1>1, <1>3
<1>7. ASSUME NEW c \in 0 .. Len(data) - 1
      PROVE  Filled(data)[inbuf + c] = data[c + 1]
  <2>1. inbuf + c \in 0 .. Size - 1 /\ inbuf + c - inbuf = c
    BY <1>1
  <2> QED BY SMTT(30), <1>1, <2>1 DEF Filled
<1> QED BY <1>3, <1>4, <1>5, <1>6, <1>7

\* The byte at index j of memory after a read.
ByteAt(data, j) == IF j < Size THEN Filled(data)[j] ELSE Unknown
NewlineAt(data, c) ==
  ByteAt(data, inbuf + c) = "CR" /\ ByteAt(data, inbuf + c + 1) = "LF"

\* What the search's answer says of memory.
LEMMA SearchMeans ==
  ASSUME NEW data, NEW n \in Int, inbuf \in Int, NEW where \in FindNewline(Filled(data), inbuf, n)
  PROVE  \/ /\ where \in 0 .. n - 1
            /\ ByteAt(data, inbuf + where) \in {"CR", Unknown}
            /\ ByteAt(data, inbuf + where + 1) \in {"LF", Unknown}
            /\ \A d \in 0 .. where - 1 : ~ NewlineAt(data, d)
         \/ /\ where = -1
            /\ \A d \in 0 .. n - 1 : ~ NewlineAt(data, d)
BY DEF FindNewline, ByteAt, NewlineAt

\* The bytes of a read are in the array.
LEMMA ByteOfData ==
  ASSUME TypeOK, NEW data \in Incoming, NEW c \in 0 .. Len(data) - 1
  PROVE  /\ ByteAt(data, inbuf + c) = data[c + 1]
         /\ data[c + 1] \in Bytes
<1>1. /\ Len(data) \in Nat \ {0} /\ Size \in Nat /\ inbuf \in Nat /\ inbuf + Len(data) <= Size
      /\ \A j \in 1 .. Len(data) : data[j] \in Bytes
  BY DataFits
<1>2. Filled(data)[inbuf + c] = data[c + 1]
  BY FilledJoins
<1>3. inbuf + c < Size /\ c + 1 \in 1 .. Len(data)
  BY <1>1
<1> QED BY <1>1, <1>2, <1>3 DEF ByteAt

\* A newline the search finds in this read's bytes is one.
LEMMA FoundInData ==
  ASSUME TypeOK, NEW data \in Incoming, NEW where \in Where(data) \ {-1},
         where + 1 < Len(data)
  PROVE  /\ where \in Nat
         /\ data[where + 1] = "CR" /\ data[where + 2] = "LF"
<1>1. Len(data) \in Nat /\ inbuf \in Nat
  BY DataFits
<1>2. /\ where \in 0 .. inbuf + Len(data) - 1
      /\ ByteAt(data, inbuf + where) \in {"CR", Unknown}
      /\ ByteAt(data, inbuf + where + 1) \in {"LF", Unknown}
  BY <1>1, SearchMeans DEF Where
<1>3. where \in Nat /\ where \in 0 .. Len(data) - 1 /\ where + 1 \in 0 .. Len(data) - 1
  BY <1>1, <1>2
<1>4. ByteAt(data, inbuf + where) = data[where + 1] /\ data[where + 1] \in Bytes
  BY <1>3, ByteOfData
<1>5. inbuf + (where + 1) = inbuf + where + 1 /\ where + 1 + 1 = where + 2
  BY <1>1, <1>3
<1>6. ByteAt(data, inbuf + where + 1) = data[where + 2] /\ data[where + 2] \in Bytes
  <2>1. ByteAt(data, inbuf + (where + 1)) = data[where + 1 + 1] /\ data[where + 1 + 1] \in Bytes
    BY <1>3, ByteOfData
  <2> QED BY <2>1, <1>5
<1> QED BY <1>2, <1>3, <1>4, <1>6 DEF Bytes, Unknown, NUL

\* In a read of one whole line the search finds its newline and no other.
LEMMA FoundInLine ==
  ASSUME TypeOK, NEW data \in Incoming, IsLine(data), NEW where \in Where(data)
  PROVE  where = Len(data) - 2
<1> DEFINE last == Len(data) - 2
<1>1. /\ data \in Seq(Bytes) /\ Len(data) \in Nat \ {0} /\ inbuf \in Nat
      /\ \A j \in 1 .. Len(data) : data[j] \in Bytes
  BY DataFits
<1>2. last \in Nat /\ data[last + 1] = "CR" /\ data[last + 2] = "LF"
  BY <1>1 DEF IsLine
<1>3. \A j \in 1 .. last : data[j] = "x"
  BY <1>1, SubSeqProperties DEF IsLine, Text
<1>4. NewlineAt(data, last)
  <2>1. last \in 0 .. Len(data) - 1 /\ last + 1 \in 0 .. Len(data) - 1
    BY <1>1, <1>2
  <2>2. ByteAt(data, inbuf + last) = data[last + 1]
    BY <2>1, ByteOfData
  <2>3. ByteAt(data, inbuf + (last + 1)) = data[last + 1 + 1]
    BY <2>1, ByteOfData
  <2>4. inbuf + (last + 1) = inbuf + last + 1 /\ last + 1 + 1 = last + 2
    BY <1>1, <1>2
  <2> QED BY <1>2, <2>2, <2>3, <2>4 DEF NewlineAt
<1>5. last \in 0 .. inbuf + Len(data) - 1
  BY <1>1, <1>2
<1>6. ASSUME where \in 0 .. last - 1, ByteAt(data, inbuf + where) \in {"CR", Unknown}
      PROVE  FALSE
  <2>1. where \in 0 .. Len(data) - 1 /\ where + 1 \in 1 .. last
    BY <1>1, <1>2, <1>6
  <2>2. ByteAt(data, inbuf + where) = "x"
    BY <1>3, <2>1, ByteOfData
  <2> QED BY <1>6, <2>2 DEF Unknown
<1> HIDE DEF last
<1>7. where = last
  <2>1. inbuf + Len(data) \in Int /\ where \in FindNewline(Filled(data), inbuf, inbuf + Len(data))
    BY <1>1 DEF Where
  <2>2. CASE where \in 0 .. inbuf + Len(data) - 1 /\ ByteAt(data, inbuf + where) \in {"CR", Unknown}
               /\ \A d \in 0 .. where - 1 : ~ NewlineAt(data, d)
    BY <1>1, <1>2, <1>4, <1>6, <2>2
  <2>3. ~ \A d \in 0 .. inbuf + Len(data) - 1 : ~ NewlineAt(data, d)
    BY <1>4, <1>5
  <2> QED BY <1>1, <2>1, <2>2, <2>3, SearchMeans
<1> QED BY <1>7 DEF last
-----------------------------------------------------------------------------
\* printf stops at the first NUL, at the latest at one that is known.
LEMMA ShownToNUL ==
  ASSUME NEW b, Size \in Nat, NEW n \in 0 .. Size - 1, b[n] = NUL
  PROVE  /\ Shown(b) \in 0 .. n /\ b[Shown(b)] = NUL
         /\ \A j \in 0 .. Shown(b) - 1 : b[j] # NUL
<1> DEFINE Ends == {j \in 0 .. Size - 1 : b[j] = NUL}
<1>1. Ends \subseteq Nat /\ Ends # {}
  OBVIOUS
<1>2. PICK m \in Ends : \A y \in Ends : ~ (<<y, m>> \in OpToRel(<, Nat))
  BY <1>1, WFMin, NatLessThanWellFounded
<1>3. ASSUME NEW y \in Ends PROVE m <= y
  <2>1. m \in Nat /\ y \in Nat
    BY <1>1
  <2>2. ~ (y < m)
    BY <1>2, <2>1 DEF OpToRel
  <2> QED BY <2>1, <2>2
<1>4. m \in 0 .. Size - 1 /\ b[m] = NUL /\ \A j \in 0 .. m - 1 : b[j] # NUL
  BY <1>3
<1>5. /\ Shown(b) \in 0 .. Size - 1 /\ b[Shown(b)] = NUL
      /\ \A j \in 0 .. Shown(b) - 1 : b[j] # NUL
  BY <1>4 DEF Shown
<1> QED BY <1>5

\* What was printed and what is held after it, put together, are what there was, if
\* there was no NUL.
LEMMA LinePrinted ==
  ASSUME TypeOK, NEW data \in Incoming, PrintLine(data)
  PROVE  \E where \in Where(data) \ {-1}, message \in Seq(Bytes), shown \in Seq(Bytes) :
           /\ where \in Nat /\ where + 1 < Len(data)
           /\ printed' = Append(printed, shown) /\ lines' \in Seq(Bytes)
           /\ NoNUL(Joined(data)) => /\ lines' = lines \o (message \o NewLine)
                                    /\ Len(shown) = inbuf + where + 1
                                    /\ shown[inbuf + where + 1] = "LF"
                                    /\ SubSeq(shown, 1, inbuf + where) = message
           /\ Len(message) = inbuf + where
           /\ \A j \in 1 .. Len(message) : message[j] = Joined(data)[j]
           /\ inbuf' = Len(data) - where - 2 /\ Held' \in Seq(Bytes)
           /\ Joined(data) = (message \o NewLine) \o Held'
           /\ buf' \in [0 .. Size - 1 -> Bytes \cup {NUL, Unknown}]
<1>1. PICK where \in Where(data) \ {-1} :
        LET end == inbuf + where
            marked == [Filled(data) EXCEPT ![end] = "LF", ![end + 1] = NUL]
            message == [j \in 1 .. Shown(marked) |-> marked[j - 1]]
        IN  /\ Rest(data, where) >= 0
            /\ printed' = Append(printed, message)
            /\ lines' = lines \o IF Shown(marked) = end + 1
                                 THEN SubSeq(message, 1, end) \o NewLine ELSE message
            /\ inbuf' = Rest(data, where)
            /\ buf' = [j \in 0 .. Size - 1 |->
                         IF j < inbuf' THEN marked[end + 2 + j] ELSE marked[j]]
  BY DEF PrintLine
<1> DEFINE end == inbuf + where
           marked == [Filled(data) EXCEPT ![end] = "LF", ![end + 1] = NUL]
           message == [j \in 1 .. end |-> marked[j - 1]]
           shown == [j \in 1 .. Shown(marked) |-> marked[j - 1]]
<1>2. /\ Rest(data, where) >= 0
      /\ printed' = Append(printed, shown)
      /\ lines' = lines \o IF Shown(marked) = end + 1
                           THEN SubSeq(shown, 1, end) \o NewLine ELSE shown
      /\ inbuf' = Rest(data, where)
      /\ buf' = [j \in 0 .. Size - 1 |->
                   IF j < inbuf' THEN marked[end + 2 + j] ELSE marked[j]]
  BY <1>1
<1>3. /\ data \in Seq(Bytes) /\ Len(data) \in Nat /\ Size \in Nat /\ inbuf \in Nat
      /\ inbuf + Len(data) <= Size
  BY DataFits
<1>4. where \in Int
  BY <1>3, SearchMeans DEF Where
<1>5. where + 1 < Len(data) /\ inbuf' = Len(data) - where - 2
  BY <1>2, <1>3, <1>4 DEF Rest
<1>6. where \in Nat /\ data[where + 1] = "CR" /\ data[where + 2] = "LF"
  BY <1>5, FoundInData
<1>7. /\ end \in Nat /\ end + 1 \in Nat /\ inbuf' \in Nat
      /\ end + 2 + inbuf' = inbuf + Len(data)
  BY <1>3, <1>5, <1>6
<1>8. /\ Joined(data) \in Seq(Bytes) /\ Len(Joined(data)) = inbuf + Len(data)
      /\ Filled(data) \in [0 .. Size - 1 -> Bytes \cup {NUL, Unknown}]
      /\ \A j \in 0 .. inbuf + Len(data) - 1 :
           Filled(data)[j] = Joined(data)[j + 1] /\ Joined(data)[j + 1] \in Bytes
      /\ \A c \in 0 .. Len(data) - 1 : Filled(data)[inbuf + c] = data[c + 1]
  BY FilledJoins
<1> HIDE DEF end
<1>9. /\ marked \in [0 .. Size - 1 -> Bytes \cup {NUL, Unknown}]
      /\ marked[end] = "LF" /\ marked[end + 1] = NUL
      /\ \A j \in 0 .. Size - 1 : j # end /\ j # end + 1 => marked[j] = Filled(data)[j]
  <2>1. end \in 0 .. Size - 1 /\ end + 1 \in 0 .. Size - 1 /\ end # end + 1
    BY <1>3, <1>7
  <2>2. "LF" \in Bytes
    BY DEF Bytes
  <2>3. Filled(data) \in [0 .. Size - 1 -> Bytes \cup {NUL, Unknown}]
    BY <1>8
  <2> QED BY <2>1, <2>2, <2>3
<1> HIDE DEF marked
<1>10. buf' \in [0 .. Size - 1 -> Bytes \cup {NUL, Unknown}]
  <2>1. \A j \in 0 .. Size - 1 : j < inbuf' => end + 2 + j \in 0 .. Size - 1
    BY <1>3, <1>7
  <2> QED BY <1>2, <1>9, <2>1
<1>11. /\ message \in Seq(Bytes) /\ Len(message) = end
       /\ \A j \in 1 .. end : message[j] = Joined(data)[j]
  <2>1. ASSUME NEW j \in 1 .. end
        PROVE  marked[j - 1] = Joined(data)[j] /\ Joined(data)[j] \in Bytes
    <3>1. /\ j - 1 \in 0 .. inbuf + Len(data) - 1 /\ j - 1 \in 0 .. Size - 1
          /\ j - 1 # end /\ j - 1 # end + 1 /\ j - 1 + 1 = j
      BY <1>3, <1>7
    <3> QED BY <1>8, <1>9, <3>1
  <2>2. message \in [1 .. end -> Bytes] /\ \A j \in 1 .. end : message[j] = Joined(data)[j]
    BY <2>1
  <2> HIDE DEF message
  <2> QED BY <1>7, <2>2
<1>12. /\ Held' \in Seq(Bytes) /\ Len(Held') = inbuf'
       /\ \A j \in 1 .. inbuf' : Held'[j] = Joined(data)[end + 2 + j]
  <2>1. ASSUME NEW j \in 1 .. inbuf'
        PROVE  /\ buf'[j - 1] = Joined(data)[end + 2 + j]
               /\ Joined(data)[end + 2 + j] \in Bytes
    <3>1. /\ j - 1 \in 0 .. Size - 1 /\ j - 1 < inbuf'
          /\ end + 2 + (j - 1) \in 0 .. Size - 1
          /\ end + 2 + (j - 1) \in 0 .. inbuf + Len(data) - 1
          /\ end + 2 + (j - 1) # end /\ end + 2 + (j - 1) # end + 1
          /\ end + 2 + (j - 1) + 1 = end + 2 + j
      BY <1>3, <1>7
    <3>2. buf'[j - 1] = marked[end + 2 + (j - 1)]
      BY <1>2, <3>1
    <3> QED BY <1>8, <1>9, <3>1, <3>2
  <2>2. Held' = [j \in 1 .. inbuf' |-> buf'[j - 1]]
    BY DEF Held
  <2>3. Held' \in [1 .. inbuf' -> Bytes] /\ \A j \in 1 .. inbuf' : Held'[j] = Joined(data)[end + 2 + j]
    BY <2>1, <2>2
  <2> QED BY <1>7, <2>3
<1> HIDE DEF message
<1>13. Joined(data)[end + 1] = "CR" /\ Joined(data)[end + 2] = "LF"
  <2>1. /\ where \in 0 .. Len(data) - 1 /\ where + 1 \in 0 .. Len(data) - 1
        /\ inbuf + where = end /\ inbuf + (where + 1) = end + 1 /\ where + 1 + 1 = where + 2
        /\ end \in 0 .. inbuf + Len(data) - 1 /\ end + 1 \in 0 .. inbuf + Len(data) - 1
        /\ end + 1 + 1 = end + 2
    BY <1>3, <1>5, <1>6 DEF end
  <2>2. Filled(data)[end] = "CR" /\ Filled(data)[end + 1] = "LF"
    BY <1>6, <1>8, <2>1
  <2> QED BY <1>8, <2>1, <2>2
<1>14. Joined(data) = (message \o NewLine) \o Held'
  <2>1. NewLine \in Seq(Bytes) /\ Len(NewLine) = 2 /\ NewLine[1] = "CR" /\ NewLine[2] = "LF"
    BY DEF NewLine, Bytes
  <2> DEFINE line == message \o NewLine
  <2>2. /\ line \in Seq(Bytes) /\ Len(line) = end + 2
        /\ \A i \in 1 .. end + 2 : line[i] = IF i <= end THEN message[i] ELSE NewLine[i - end]
    <3>1. /\ line \in Seq(Bytes) /\ Len(line) = Len(message) + Len(NewLine)
          /\ \A i \in 1 .. Len(message) + Len(NewLine) :
               line[i] = IF i <= Len(message) THEN message[i] ELSE NewLine[i - Len(message)]
      <4> HIDE DEF NewLine
      <4> QED BY ZenonT(40), <1>11, <2>1, ConcatProperties
    <3> HIDE DEF line
    <3> QED BY <1>11, <2>1, <3>1
  <2> HIDE DEF line
  <2>3. /\ line \o Held' \in Seq(Bytes) /\ Len(line \o Held') = inbuf + Len(data)
        /\ \A i \in 1 .. inbuf + Len(data) :
             (line \o Held')[i] = IF i <= end + 2 THEN line[i] ELSE Held'[i - (end + 2)]
    <3>1. /\ line \o Held' \in Seq(Bytes) /\ Len(line \o Held') = Len(line) + Len(Held')
          /\ \A i \in 1 .. Len(line) + Len(Held') :
               (line \o Held')[i] = IF i <= Len(line) THEN line[i] ELSE Held'[i - Len(line)]
      BY <1>12, <2>2, ConcatProperties
    <3>2. Len(line) = end + 2 /\ Len(line) + Len(Held') = inbuf + Len(data)
      BY <1>7, <1>12, <2>2
    <3> QED BY <3>1, <3>2
  <2>4. ASSUME NEW i \in 1 .. inbuf + Len(data) PROVE Joined(data)[i] = (line \o Held')[i]
    <3>1. CASE i <= end
      BY <1>7, <1>11, <2>2, <2>3, <3>1
    <3>2. CASE i = end + 1
      BY <1>7, <1>13, <2>1, <2>2, <2>3, <3>2
    <3>3. CASE i = end + 2
      BY <1>7, <1>13, <2>1, <2>2, <2>3, <3>3
    <3>4. CASE i > end + 2
      <4>1. i - (end + 2) \in 1 .. inbuf' /\ end + 2 + (i - (end + 2)) = i /\ ~ (i <= end + 2)
        BY <1>3, <1>7, <3>4
      <4> QED BY <1>12, <2>3, <4>1
    <3>5. i \in Int /\ (i <= end \/ i = end + 1 \/ i = end + 2 \/ i > end + 2)
      BY <1>3, <1>7
    <3> QED BY <3>1, <3>2, <3>3, <3>4, <3>5
  <2>5. Joined(data) = line \o Held'
    BY <1>8, <2>3, <2>4, SeqEqual
  <2> QED BY <2>5 DEF line
<1>15. /\ Shown(marked) \in 0 .. end + 1 /\ marked[Shown(marked)] = NUL
       /\ shown \in Seq(Bytes) /\ Len(shown) = Shown(marked)
       /\ \A j \in 1 .. Shown(marked) : shown[j] = marked[j - 1]
  <2>1. Shown(marked) \in 0 .. end + 1 /\ marked[Shown(marked)] = NUL
    <3>1. end + 1 \in 0 .. Size - 1
      BY <1>3, <1>7
    <3> QED BY <1>3, <1>9, <3>1, ShownToNUL
  <2>2. ASSUME NEW j \in 1 .. end + 1 PROVE marked[j - 1] \in Bytes
    <3>1. CASE j = end + 1
      BY <1>7, <1>9, <3>1 DEF Bytes
    <3>2. CASE j # end + 1
      <4>1. /\ j - 1 \in 0 .. inbuf + Len(data) - 1 /\ j - 1 \in 0 .. Size - 1
            /\ j - 1 # end /\ j - 1 # end + 1
        BY <1>3, <1>7, <3>2
      <4> QED BY <1>8, <1>9, <4>1
    <3> QED BY <3>1, <3>2
  <2>3. PICK n \in Nat : n = Shown(marked) /\ n <= end + 1
    BY <1>7, <2>1
  <2>4. shown \in [1 .. n -> Bytes] /\ \A j \in 1 .. n : shown[j] = marked[j - 1]
    BY <1>7, <2>2, <2>3
  <2> HIDE DEF shown
  <2> QED BY <2>1, <2>3, <2>4
<1> HIDE DEF shown
<1>16. lines' \in Seq(Bytes)
  <2>1. lines \in Seq(Bytes) /\ NewLine \in Seq(Bytes)
    BY DEF TypeOK, NewLine, Bytes
  <2>2. CASE Shown(marked) = end + 1
    <3>1. SubSeq(shown, 1, end) \in Seq(Bytes)
      BY <1>7, <1>15, <2>2, SubSeqProperties
    <3>2. lines' = lines \o (SubSeq(shown, 1, end) \o NewLine)
      BY <1>2, <2>2
    <3> QED BY <2>1, <3>1, <3>2, ConcatProperties
  <2>3. CASE Shown(marked) # end + 1
    <3>1. lines' = lines \o shown
      BY <1>2, <2>3
    <3> QED BY <1>15, <2>1, <3>1, ConcatProperties
  <2> QED BY <2>2, <2>3
<1>17. ASSUME NoNUL(Joined(data))
       PROVE  /\ lines' = lines \o (message \o NewLine)
              /\ Len(shown) = end + 1 /\ shown[end + 1] = "LF"
              /\ SubSeq(shown, 1, end) = message
  <2>1. ASSUME NEW j \in 0 .. end PROVE marked[j] # NUL
    <3>1. CASE j = end
      BY <1>9, <3>1 DEF NUL
    <3>2. CASE j # end
      <4>1. /\ j \in 0 .. inbuf + Len(data) - 1 /\ j \in 0 .. Size - 1 /\ j # end + 1
            /\ j + 1 \in 1 .. inbuf + Len(data)
        BY <1>3, <1>7, <3>2
      <4>2. marked[j] = Joined(data)[j + 1]
        BY <1>8, <1>9, <3>2, <4>1
      <4>3. Joined(data)[j + 1] # NUL
        BY <1>8, <1>17, <4>1 DEF NoNUL
      <4> QED BY <4>2, <4>3
    <3> QED BY <3>1, <3>2
  <2>2. Shown(marked) = end + 1
    BY <1>7, <1>15, <2>1
  <2>3. /\ SubSeq(shown, 1, end) \in Seq(Bytes) /\ Len(SubSeq(shown, 1, end)) = end
        /\ \A j \in 1 .. end : SubSeq(shown, 1, end)[j] = shown[j]
    <3>1. /\ SubSeq(shown, 1, end) \in Seq(Bytes)
          /\ Len(SubSeq(shown, 1, end)) = IF 1 <= end THEN end - 1 + 1 ELSE 0
          /\ \A j \in 1 .. end - 1 + 1 : SubSeq(shown, 1, end)[j] = shown[1 + j - 1]
      BY <1>7, <1>15, <2>2, SubSeqProperties
    <3> QED BY <1>7, <3>1
  <2>4. \A j \in 1 .. end : shown[j] = message[j]
    <3> SUFFICES ASSUME NEW j \in 1 .. end PROVE shown[j] = message[j]
      OBVIOUS
    <3>1. shown[j] = marked[j - 1]
      BY <1>7, <1>15, <2>2
    <3> QED BY <3>1 DEF message
  <2>5. SubSeq(shown, 1, end) = message
    BY <1>11, <2>3, <2>4, SeqEqual
  <2>6. shown[end + 1] = marked[end]
    BY <1>7, <1>15, <2>2
  <2> QED BY <1>2, <1>9, <1>15, <2>2, <2>5, <2>6
<1>18. end = inbuf + where
  BY DEF end
<1> HIDE DEF end
<1>19. message \in Seq(Bytes) /\ shown \in Seq(Bytes) /\ where \in Where(data) \ {-1}
  BY <1>11, <1>15
<1>20. /\ where \in Nat /\ where + 1 < Len(data)
       /\ printed' = Append(printed, shown) /\ lines' \in Seq(Bytes)
       /\ inbuf' = Len(data) - where - 2 /\ Held' \in Seq(Bytes)
       /\ Joined(data) = (message \o NewLine) \o Held'
       /\ buf' \in [0 .. Size - 1 -> Bytes \cup {NUL, Unknown}]
  BY <1>2, <1>5, <1>6, <1>10, <1>12, <1>14, <1>16
<1>21. Len(message) = inbuf + where /\ \A j \in 1 .. Len(message) : message[j] = Joined(data)[j]
  BY <1>11, <1>18
<1>22. NoNUL(Joined(data)) => /\ lines' = lines \o (message \o NewLine)
                             /\ Len(shown) = inbuf + where + 1
                             /\ shown[inbuf + where + 1] = "LF"
                             /\ SubSeq(shown, 1, inbuf + where) = message
  BY <1>17, <1>18
<1> QED BY ZenonT(40), <1>19, <1>20, <1>21, <1>22
\* Without a newline everything is held.
LEMMA AllHeld ==
  ASSUME TypeOK, NEW data \in Incoming, NoNewline(data)
  PROVE  /\ Held' = Joined(data) /\ Len(Held') = inbuf'
         /\ inbuf' \in 0 .. Size
         /\ buf' \in [0 .. Size - 1 -> Bytes \cup {NUL, Unknown}]
<1>1. /\ Len(data) \in Nat /\ Size \in Nat /\ inbuf \in Nat /\ inbuf + Len(data) <= Size
      /\ inbuf' = inbuf + Len(data) /\ buf' = Filled(data)
  BY DataFits DEF NoNewline
<1>2. /\ Joined(data) \in Seq(Bytes) /\ Len(Joined(data)) = inbuf'
      /\ buf' \in [0 .. Size - 1 -> Bytes \cup {NUL, Unknown}]
      /\ \A j \in 0 .. inbuf' - 1 : buf'[j] = Joined(data)[j + 1] /\ Joined(data)[j + 1] \in Bytes
  BY <1>1, FilledJoins
<1>3. PICK n \in Nat : n = inbuf'
  BY <1>1
<1>4. Held' = [j \in 1 .. n |-> buf'[j - 1]]
  BY <1>3 DEF Held
<1>5. ASSUME NEW j \in 1 .. n PROVE buf'[j - 1] = Joined(data)[j] /\ Joined(data)[j] \in Bytes
  <2>1. j - 1 \in 0 .. n - 1 /\ j - 1 + 1 = j
    OBVIOUS
  <2> QED BY <1>2, <1>3, <2>1
<1>6. Held' \in [1 .. n -> Bytes] /\ \A j \in 1 .. n : Held'[j] = Joined(data)[j]
  BY <1>4, <1>5
<1>7. Held' \in Seq(Bytes) /\ Len(Held') = n
  BY <1>6
<1>8. Held' = Joined(data)
  BY <1>2, <1>3, <1>6, <1>7, SeqEqual
<1> QED BY <1>1, <1>2, <1>3, <1>7, <1>8

\* What is said of every read is said of the last one and of those before it.
LEMMA ReadsGrow ==
  ASSUME TypeOK, NEW data \in Seq(Bytes), reads' = Append(reads, data)
  PROVE  /\ reads' \in Seq(Seq(Bytes))
         /\ \A r \in 1 .. Len(reads) : r \in 1 .. Len(reads') /\ reads'[r] = reads[r]
         /\ \E r \in 1 .. Len(reads') : reads'[r] = data
<1>1. reads \in Seq(Seq(Bytes)) /\ Len(reads) \in Nat
  BY DEF TypeOK
<1>2. /\ reads' \in Seq(Seq(Bytes)) /\ Len(reads') = Len(reads) + 1
      /\ \A r \in 1 .. Len(reads) : reads'[r] = reads[r]
      /\ reads'[Len(reads) + 1] = data
  BY <1>1, AppendProperties
<1>3. Len(reads) + 1 \in 1 .. Len(reads')
  BY <1>1, <1>2
<1> QED BY <1>1, <1>2, <1>3

-----------------------------------------------------------------------------
LEMMA InitLine == Init => LineInv
<1> SUFFICES ASSUME Init PROVE LineInv OBVIOUS
<1>1. Size \in Nat /\ MaxBytes \in Nat /\ inbuf = 0
  BY BufferAssumption DEF Init
<1>2. Held = <<>>
  BY <1>1 DEF Held
<1>3. <<>> \in Seq(Bytes) /\ <<>> \in Seq(Seq(Bytes))
  OBVIOUS
<1>4. buf \in [0 .. Size - 1 -> Bytes \cup {NUL, Unknown}]
  BY DEF Init
<1>5. pc \in {"accept", "read", "crashed"} /\ inbuf \in 0 .. Size /\ left \in 0 .. MaxBytes
  BY <1>1 DEF Init
<1>6. printed = <<>> /\ lines = <<>> /\ reads = <<>> /\ received = <<>> /\ pc = "accept"
  BY DEF Init
<1>7. TypeOK
  BY <1>2, <1>3, <1>4, <1>5, <1>6 DEF TypeOK
<1> QED BY <1>6, <1>7 DEF LineInv, NothingLost, OneLineEach, NothingHeldBack

LEMMA AcceptLine == ASSUME LineInv, Accept PROVE LineInv'
<1>1. inbuf' = 0 /\ pc' = "read" /\ UNCHANGED <<buf, left>>
      /\ printed' = <<>> /\ lines' = <<>> /\ reads' = <<>> /\ received' = <<>>
  BY DEF Accept
<1>2. Held' = <<>>
  BY <1>1 DEF Held
<1>3. <<>> \in Seq(Bytes) /\ <<>> \in Seq(Seq(Bytes)) /\ <<>> \o <<>> = <<>> /\ Len(<<>>) = 0
  BY ConcatEmptySeq
<1>4. 0 \in 0 .. Size
  BY BufferAssumption
<1>5. TypeOK'
  BY <1>1, <1>2, <1>3, <1>4 DEF LineInv, TypeOK
<1>6. NothingLost' /\ NothingHeldBack'
  BY <1>1, <1>2, <1>3 DEF NothingLost, NothingHeldBack
<1>7. OneLineEach'
  BY <1>1, <1>2, <1>3 DEF OneLineEach, Text
<1> QED BY <1>5, <1>6, <1>7 DEF LineInv

LEMMA HangupLine == ASSUME LineInv, Hangup \/ UNCHANGED vars PROVE LineInv'
<1>1. UNCHANGED <<buf, inbuf, left, printed, lines, reads, received>> /\ (pc' = "accept" \/ pc' = pc)
  BY DEF Hangup, vars, output, arrived
<1>2. Held' = Held
  BY <1>1 DEF Held
<1>3. TypeOK'
  BY <1>1, <1>2 DEF LineInv, TypeOK
<1> QED BY <1>1, <1>2, <1>3 DEF LineInv, NothingLost, OneLineEach, NothingHeldBack

\* A read's effect on what was received.
LEMMA ReceiveTypes ==
  ASSUME LineInv, NEW data \in Incoming, Receive(data)
  PROVE  /\ left' \in 0 .. MaxBytes /\ received' \in Seq(Bytes) /\ reads' \in Seq(Seq(Bytes))
         /\ NoNUL(received') => received' = lines \o Joined(data) /\ NoNUL(Joined(data))
         /\ \A r \in 1 .. Len(reads) : r \in 1 .. Len(reads') /\ reads'[r] = reads[r]
         /\ \E r \in 1 .. Len(reads') : reads'[r] = data
<1>1. data \in Seq(Bytes) /\ Len(data) \in Nat /\ Len(data) <= left
  BY DataFits DEF LineInv
<1>2. left' = left - Len(data) /\ reads' = Append(reads, data) /\ received' = received \o data
        /\ pc = "read"
  BY DEF Receive
<1>3. left' \in 0 .. MaxBytes
  BY <1>1, <1>2, BufferAssumption DEF LineInv, TypeOK
<1>4. lines \in Seq(Bytes) /\ Held \in Seq(Bytes) /\ received \in Seq(Bytes)
  BY DEF LineInv, TypeOK
<1>5. /\ received' \in Seq(Bytes) /\ Len(received') = Len(received) + Len(data)
      /\ \A j \in 1 .. Len(received) : received'[j] = received[j]
  BY <1>1, <1>2, <1>4, ConcatProperties
<1>6. ASSUME NoNUL(received')
      PROVE  received' = lines \o Joined(data) /\ NoNUL(Joined(data))
  <2>1. NoNUL(received)
    BY <1>1, <1>4, <1>5, <1>6 DEF NoNUL
  <2>2. received = lines \o Held
    BY <1>2, <2>1 DEF LineInv, NothingLost
  <2>3. (lines \o Held) \o data = lines \o (Held \o data)
    <3> HIDE DEF Held
    <3> QED BY SMTT(30), <1>1, <1>4, ConcatAssociative
  <2>4. received' = lines \o Joined(data)
    BY <1>2, <2>2, <2>3 DEF Joined
  <2>5. Joined(data) \in Seq(Bytes)
    BY FilledJoins DEF LineInv
  <2>6. /\ Len(lines) \in Nat /\ Len(Joined(data)) \in Nat
        /\ Len(received') = Len(lines) + Len(Joined(data))
        /\ \A j \in 1 .. Len(lines) + Len(Joined(data)) :
             received'[j] = IF j <= Len(lines) THEN lines[j] ELSE Joined(data)[j - Len(lines)]
    BY <1>4, <2>4, <2>5, ConcatProperties
  <2>7. ASSUME NEW j \in 1 .. Len(Joined(data)) PROVE Joined(data)[j] # NUL
    <3>1. /\ Len(lines) + j \in 1 .. Len(received') /\ ~ (Len(lines) + j <= Len(lines))
          /\ Len(lines) + j - Len(lines) = j
      BY <2>6
    <3>2. received'[Len(lines) + j] = Joined(data)[j]
      BY <2>6, <3>1
    <3> QED BY <1>6, <3>1, <3>2 DEF NoNUL
  <2> QED BY <2>4, <2>7 DEF NoNUL
<1> QED BY <1>1, <1>2, <1>3, <1>5, <1>6, ReadsGrow DEF LineInv

\* In a read of one whole line the search fails only if its newline is missed.
LEMMA LineIsFound ==
  ASSUME TypeOK, NEW data \in Incoming, IsLine(data)
  PROVE  -1 \notin Where(data) /\ \A where \in Where(data) : Rest(data, where) = 0
<1>1. Len(data) \in Nat /\ Len(data) >= 2
  BY DataFits DEF IsLine
<1> QED BY <1>1, FoundInLine DEF Rest

LEMMA NoNewlineLine ==
  ASSUME LineInv, NEW data \in Incoming, NoNewline(data) PROVE LineInv'
<1>1. /\ Receive(data) /\ -1 \in Where(data) /\ pc' = pc /\ pc = "read"
      /\ printed' = printed /\ lines' = lines
  BY DEF NoNewline, Receive, output
<1>2. /\ Held' = Joined(data) /\ inbuf' \in 0 .. Size
      /\ buf' \in [0 .. Size - 1 -> Bytes \cup {NUL, Unknown}]
  BY AllHeld DEF LineInv
<1>3. /\ left' \in 0 .. MaxBytes /\ received' \in Seq(Bytes) /\ reads' \in Seq(Seq(Bytes))
      /\ NoNUL(received') => received' = lines \o Joined(data) /\ NoNUL(Joined(data))
      /\ \A r \in 1 .. Len(reads) : r \in 1 .. Len(reads') /\ reads'[r] = reads[r]
      /\ \E r \in 1 .. Len(reads') : reads'[r] = data
  BY <1>1, ReceiveTypes
<1>4. ~ IsLine(data)
  BY <1>1, LineIsFound DEF LineInv
<1>5. /\ Joined(data) \in Seq(Bytes) /\ Len(Joined(data)) = inbuf + Len(data)
      /\ inbuf \in Nat /\ Len(data) \in Nat /\ data \in Seq(Bytes)
  BY FilledJoins, DataFits DEF LineInv
<1>6. TypeOK'
  BY <1>1, <1>2, <1>3, <1>5 DEF LineInv, TypeOK
<1>7. NothingLost'
  BY <1>1, <1>2, <1>3 DEF NothingLost
<1>8. OneLineEach'
  <2> SUFFICES ASSUME \A r \in 1 .. Len(reads') : Text(reads'[r]) \/ IsLine(reads'[r])
               PROVE  Text(Held') /\ \A l \in 1 .. Len(printed') : Message(printed'[l])
    BY DEF OneLineEach
  <2>1. Text(data) /\ Text(Held) /\ \A l \in 1 .. Len(printed) : Message(printed[l])
    BY <1>1, <1>3, <1>4 DEF LineInv, OneLineEach
  <2>2. Held \in Seq(Bytes) /\ Len(Held) = inbuf
    BY <1>5 DEF LineInv, TypeOK, Held
  <2>3. \A j \in 1 .. inbuf + Len(data) :
          Joined(data)[j] = IF j <= inbuf THEN Held[j] ELSE data[j - inbuf]
    BY <1>5, <2>2, ConcatProperties DEF Joined
  <2>4. Text(Joined(data))
    <3> SUFFICES ASSUME NEW j \in 1 .. inbuf + Len(data) PROVE Joined(data)[j] = "x"
      BY <1>5 DEF Text
    <3>1. CASE j <= inbuf
      BY <1>5, <2>1, <2>2, <2>3, <3>1 DEF Text
    <3>2. CASE ~ (j <= inbuf)
      BY <1>5, <2>1, <2>3, <3>2 DEF Text
    <3> QED BY <3>1, <3>2
  <2> QED BY <1>1, <1>2, <2>1, <2>4
<1>9. NothingHeldBack'
  BY <1>3, <1>4 DEF NothingHeldBack
<1> QED BY <1>6, <1>7, <1>8, <1>9 DEF LineInv

LEMMA PrintLineLine ==
  ASSUME LineInv, NEW data \in Incoming, PrintLine(data) PROVE LineInv'
<1>1. Receive(data) /\ pc' = pc /\ pc = "read"
  BY DEF PrintLine, Receive
<1>2. PICK where \in Where(data) \ {-1}, message \in Seq(Bytes), shown \in Seq(Bytes) :
           /\ where \in Nat /\ where + 1 < Len(data)
           /\ printed' = Append(printed, shown) /\ lines' \in Seq(Bytes)
           /\ NoNUL(Joined(data)) => /\ lines' = lines \o (message \o NewLine)
                                    /\ Len(shown) = inbuf + where + 1
                                    /\ shown[inbuf + where + 1] = "LF"
                                    /\ SubSeq(shown, 1, inbuf + where) = message
           /\ Len(message) = inbuf + where
           /\ \A j \in 1 .. Len(message) : message[j] = Joined(data)[j]
           /\ inbuf' = Len(data) - where - 2 /\ Held' \in Seq(Bytes)
           /\ Joined(data) = (message \o NewLine) \o Held'
           /\ buf' \in [0 .. Size - 1 -> Bytes \cup {NUL, Unknown}]
  BY LinePrinted DEF LineInv
<1>3. /\ left' \in 0 .. MaxBytes /\ received' \in Seq(Bytes) /\ reads' \in Seq(Seq(Bytes))
      /\ NoNUL(received') => received' = lines \o Joined(data) /\ NoNUL(Joined(data))
      /\ \A r \in 1 .. Len(reads) : r \in 1 .. Len(reads') /\ reads'[r] = reads[r]
      /\ \E r \in 1 .. Len(reads') : reads'[r] = data
  BY <1>1, ReceiveTypes
<1>4. /\ Joined(data) \in Seq(Bytes) /\ Len(Joined(data)) = inbuf + Len(data)
      /\ inbuf \in Nat /\ Len(data) \in Nat /\ data \in Seq(Bytes)
      /\ inbuf + Len(data) <= Size /\ Size \in Nat
  BY FilledJoins, DataFits DEF LineInv
<1>5. lines \in Seq(Bytes) /\ printed \in Seq(Seq(Bytes)) /\ NewLine \in Seq(Bytes)
        /\ message \o NewLine \in Seq(Bytes)
  BY <1>2, ConcatProperties DEF LineInv, TypeOK, NewLine, Bytes
<1>6. /\ printed' \in Seq(Seq(Bytes)) /\ Len(printed') = Len(printed) + 1 /\ Len(printed) \in Nat
      /\ \A l \in 1 .. Len(printed) : printed'[l] = printed[l]
      /\ printed'[Len(printed) + 1] = shown
  <2> DEFINE Texts == Seq(Bytes)
  <2>1. printed \in Seq(Texts) /\ shown \in Texts
    BY <1>2, <1>5
  <2> HIDE DEF Texts
  <2>2. /\ Append(printed, shown) \in Seq(Texts)
        /\ Len(Append(printed, shown)) = Len(printed) + 1 /\ Len(printed) \in Nat
        /\ \A l \in 1 .. Len(printed) : Append(printed, shown)[l] = printed[l]
        /\ Append(printed, shown)[Len(printed) + 1] = shown
    BY <2>1, AppendProperties
  <2> QED BY <1>2, <2>2 DEF Texts
<1>7. TypeOK'
  <2>1. inbuf' \in 0 .. Size
    <3>1. where \in Nat /\ where + 1 < Len(data) /\ inbuf' = Len(data) - where - 2
      BY <1>2
    <3> QED BY <1>4, <3>1
  <2>2. lines' \in Seq(Bytes) /\ Held' \in Seq(Bytes)
        /\ buf' \in [0 .. Size - 1 -> Bytes \cup {NUL, Unknown}]
    BY <1>2
  <2> QED BY <1>1, <1>3, <1>6, <2>1, <2>2 DEF LineInv, TypeOK
<1>8. NothingLost'
  <2> SUFFICES ASSUME NoNUL(received') PROVE lines' \o Held' = received'
    BY DEF NothingLost
  <2>1. ASSUME NEW line \in Seq(Bytes), NEW held \in Seq(Bytes)
        PROVE  (lines \o line) \o held = lines \o (line \o held)
    BY SMTT(30), <1>5, ConcatAssociative
  <2>2. (lines \o (message \o NewLine)) \o Held' = lines \o ((message \o NewLine) \o Held')
    BY <1>2, <1>5, <2>1
  <2>3. received' = lines \o Joined(data) /\ NoNUL(Joined(data))
    BY <1>3
  <2>4. lines' = lines \o (message \o NewLine) /\ Joined(data) = (message \o NewLine) \o Held'
    BY <1>2, <2>3
  <2> QED BY <2>2, <2>3, <2>4
<1>9. OneLineEach'
  <2> SUFFICES ASSUME \A r \in 1 .. Len(reads') : Text(reads'[r]) \/ IsLine(reads'[r])
               PROVE  Text(Held') /\ \A l \in 1 .. Len(printed') : Message(printed'[l])
    BY DEF OneLineEach
  <2>1. /\ Text(data) \/ IsLine(data)
        /\ Text(Held) /\ \A l \in 1 .. Len(printed) : Message(printed[l])
    BY <1>1, <1>3 DEF LineInv, OneLineEach
  <2>2. IsLine(data)
    <3>1. data[where + 1] = "CR" /\ where + 1 \in 1 .. Len(data)
      BY SMTT(30), <1>2, <1>4, FoundInData DEF LineInv
    <3> QED BY <2>1, <3>1 DEF Text
  <2>3. where = Len(data) - 2
    BY <2>2, FoundInLine DEF LineInv
  <2>4. Len(Held') = 0
    BY <1>2, <1>4, <2>3 DEF Held
  <2>5. Held \in Seq(Bytes) /\ Len(Held) = inbuf
    BY <1>4 DEF LineInv, TypeOK, Held
  <2>6. \A j \in 1 .. inbuf + Len(data) :
          Joined(data)[j] = IF j <= inbuf THEN Held[j] ELSE data[j - inbuf]
    BY <1>4, <2>5, ConcatProperties DEF Joined
  <2>7. \A j \in 1 .. where : data[j] = "x"
    BY SMTT(30), <1>2, <1>4, <2>2, <2>3, SubSeqProperties DEF IsLine, Text
  <2>8. Text(message)
    <3> SUFFICES ASSUME NEW j \in 1 .. inbuf + where PROVE message[j] = "x"
      BY <1>2 DEF Text
    <3>1. message[j] = IF j <= inbuf THEN Held[j] ELSE data[j - inbuf]
      <4>1. j \in 1 .. inbuf + Len(data) /\ message[j] = Joined(data)[j]
        BY SMTT(30), <1>2, <1>4
      <4> QED BY <2>6, <4>1
    <3>2. CASE j <= inbuf
      BY SMTT(30), <1>2, <1>4, <2>1, <2>5, <3>1, <3>2 DEF Text
    <3>3. CASE ~ (j <= inbuf)
      BY <1>2, <1>4, <2>7, <3>1, <3>3
    <3> QED BY <3>2, <3>3
  <2>9. NoNUL(Joined(data))
    <3> SUFFICES ASSUME NEW j \in 1 .. inbuf + Len(data) PROVE Joined(data)[j] # NUL
      BY <1>4 DEF NoNUL
    <3>1. CASE j <= inbuf
      <4>1. Joined(data)[j] = "x"
        BY <1>4, <2>1, <2>5, <2>6, <3>1 DEF Text
      <4> QED BY <4>1 DEF NUL
    <3>2. CASE ~ (j <= inbuf)
      <4>1. /\ Joined(data)[j] = data[j - inbuf] /\ j - inbuf \in 1 .. Len(data)
            /\ (j - inbuf \in 1 .. where \/ j - inbuf = where + 1 \/ j - inbuf = where + 2)
        <5>1. where \in Nat /\ Len(data) = where + 2 /\ inbuf \in Nat /\ j \in Int
              /\ 1 <= j /\ j <= inbuf + Len(data)
          BY <1>2, <1>4, <2>3
        <5>2. Joined(data)[j] = data[j - inbuf]
          BY <2>6, <3>2
        <5> QED BY <3>2, <5>1, <5>2
      <4>2. data[where + 1] = "CR" /\ data[where + 2] = "LF"
        BY SMTT(30), <1>2, <1>4, FoundInData DEF LineInv
      <4> QED BY <2>7, <4>1, <4>2 DEF NUL
    <3> QED BY <3>1, <3>2
  <2>10. Message(shown)
    <3>1. /\ Len(shown) = inbuf + where + 1 /\ shown[inbuf + where + 1] = "LF"
          /\ SubSeq(shown, 1, inbuf + where) = message
      BY <1>2, <2>9
    <3>2. Len(shown) - 1 = inbuf + where /\ Len(shown) # 0
      <4>1. inbuf + where \in Nat
        BY <1>2, <1>4
      <4> QED BY <3>1, <4>1
    <3>3. shown # <<>> /\ shown[Len(shown)] = "LF"
      BY <3>1, <3>2
    <3>4. SubSeq(shown, 1, Len(shown) - 1) = message
      BY <3>1, <3>2
    <3> QED BY <2>8, <3>3, <3>4 DEF Message
  <2>11. ASSUME NEW l \in 1 .. Len(printed') PROVE Message(printed'[l])
    <3>1. CASE l \in 1 .. Len(printed)
      BY <1>6, <2>1, <3>1
    <3>2. CASE l = Len(printed) + 1
      BY <1>6, <2>10, <3>2
    <3> QED BY <1>6, <3>1, <3>2
  <2>12. Text(Held')
    BY <2>4 DEF Text
  <2> QED BY <2>11, <2>12
<1>10. NothingHeldBack'
  <2> SUFFICES ASSUME \A r \in 1 .. Len(reads') : IsLine(reads'[r])
               PROVE  pc' # "crashed" /\ inbuf' = 0
    BY DEF NothingHeldBack
  <2>1. IsLine(data)
    BY <1>3
  <2>2. where = Len(data) - 2
    BY <2>1, FoundInLine DEF LineInv
  <2> QED BY <1>1, <1>2, <1>4, <2>2
<1> QED BY <1>7, <1>8, <1>9, <1>10 DEF LineInv

LEMMA CrashLine ==
  ASSUME LineInv, NEW data \in Incoming, Crash(data) PROVE LineInv'
<1>1. /\ Receive(data) /\ pc' = "crashed" /\ UNCHANGED <<buf, inbuf, printed, lines>>
      /\ \E where \in Where(data) \ {-1} : Rest(data, where) < 0
  BY DEF Crash, output
<1>2. /\ left' \in 0 .. MaxBytes /\ received' \in Seq(Bytes) /\ reads' \in Seq(Seq(Bytes))
      /\ \E r \in 1 .. Len(reads') : reads'[r] = data
  BY <1>1, ReceiveTypes
<1>3. Held' = Held
  BY <1>1 DEF Held
<1>4. ~ IsLine(data)
  BY <1>1, LineIsFound DEF LineInv
<1>5. TypeOK'
  BY <1>1, <1>2, <1>3 DEF LineInv, TypeOK
<1>6. NothingLost' /\ OneLineEach'
  BY <1>1 DEF NothingLost, OneLineEach
<1>7. NothingHeldBack'
  BY <1>2, <1>4 DEF NothingHeldBack
<1> QED BY <1>5, <1>6, <1>7 DEF LineInv

LEMMA LineInvariant == Spec => []LineInv
<1>1. LineInv /\ [Next]_vars => LineInv'
  BY AcceptLine, HangupLine, NoNewlineLine, PrintLineLine, CrashLine DEF Next
<1> QED BY InitLine, <1>1, PTL DEF Spec

\* The bytes in use fit the buffer, and none of them is one that nobody sent
\* (bufserver.c:88-125).
THEOREM BufferTypes == Spec => []TypeOK
<1>1. LineInv => TypeOK BY DEF LineInv
<1> QED BY LineInvariant, <1>1, PTL

\* However reads cut the stream of a client that sends no NUL, what printf wrote and
\* the bytes in use are what was received (bufserver.c:91-121).
THEOREM StreamKept == Spec => []NothingLost
<1>1. LineInv => NothingLost BY DEF LineInv
<1> QED BY LineInvariant, <1>1, PTL

\* As long as no read goes past the end of a line or cuts it, each message is one
\* line (bufserver.c:96-118).
THEOREM LinesApart == Spec => []OneLineEach
<1>1. LineInv => OneLineEach BY DEF LineInv
<1> QED BY LineInvariant, <1>1, PTL

\* Clients that send whole lines cannot bring the server down, whatever others left
\* in the buffer (bufserver.c:78-121).
THEOREM WholeLinesSafe == Spec => []WholeLinesNeverCrash
<1>1. LineInv => WholeLinesNeverCrash BY DEF LineInv, NothingHeldBack, WholeLinesNeverCrash
<1> QED BY LineInvariant, <1>1, PTL
=============================================================================
