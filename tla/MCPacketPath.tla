---------------------------- MODULE MCPacketPath ----------------------------
(***************************************************************************)
(* PacketPath with bursts of two or three packets and two output ports.    *)
(***************************************************************************)
EXTENDS PacketPath, TLC

Symmetric == Permutations(Mbufs)
=============================================================================
