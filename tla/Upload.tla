------------------------------- MODULE Upload -------------------------------
(***************************************************************************)
(* What xmodemserver promises a client, whatever happens on the way: its   *)
(* file is written block by block, each block once and in its order; the   *)
(* transfer is either reported as finished, when all of it is there, or    *)
(* given up, and nothing is written afterwards.                            *)
(***************************************************************************)
EXTENDS Naturals, Sequences

CONSTANTS
  Clients,    \* who uploads a file
  Blocks      \* Blocks[c]: how many blocks the file of c has

VARIABLES
  contents,   \* contents[c]: the blocks written to the file of c
  status      \* status[c]: how its transfer stands

uploadVars == <<contents, status>>

UploadInit ==
  /\ contents = [c \in Clients |-> << >>]
  /\ status = [c \in Clients |-> "open"]

\* The next block of c's file is written.
Store(c) ==
  /\ status[c] = "open"
  /\ Len(contents[c]) < Blocks[c]
  /\ contents' = [contents EXCEPT ![c] = Append(@, Len(@) + 1)]
  /\ UNCHANGED status

Complete(c) ==
  /\ status[c] = "open"
  /\ Len(contents[c]) = Blocks[c]
  /\ status' = [status EXCEPT ![c] = "complete"]
  /\ UNCHANGED contents

GiveUp(c) ==
  /\ status[c] = "open"
  /\ status' = [status EXCEPT ![c] = "given_up"]
  /\ UNCHANGED contents

UploadNext == \E c \in Clients : Store(c) \/ Complete(c) \/ GiveUp(c)

UploadSpec == UploadInit /\ [][UploadNext]_uploadVars
=============================================================================
