---------------------------- MODULE MCPacketStream -----------------------------
(* Instances of PacketStream for TLC.  With NumMod = 3 the longest file has one *)
(* block more than there are numbers; four packets repeat one of three.        *)
EXTENDS PacketStream

MCFiles == {<< >>, <<"text">>, <<"binary", "text">>, <<"text", "binary", "text">>,
            <<"text", "text", "text">>, <<"text", "text", "text", "text">>}
MCText == {<<"text", "text">>}
=============================================================================
