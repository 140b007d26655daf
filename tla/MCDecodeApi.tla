---------------------------- MODULE MCDecodeApi ----------------------------
(* A user of DecodeApi for TLC, who makes any call at any time: sends the  *)
(* packets in any order, each once after a flush, and announces the end.   *)
EXTENDS DecodeApi

Packets == 1 .. 3

User == \/ \E p \in Packets \ accepted : SendPacket(p)
        \/ SendPacket(0)
        \/ ReceiveFrame
        \/ busy = "none" /\ FlushBuffers

DecodeSpec == DecodeInit /\ [][User \/ DecodeLoop]_decodeVars
=============================================================================
