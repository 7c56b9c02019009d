--------------------------- MODULE MCPacketFramer ---------------------------
(***************************************************************************)
(* A stream of three packets with bodies of 2, 0 and 1 bytes: one shorter  *)
(* than a header, an empty one, and one with which the stream ends.  A     *)
(* piece of MaxChunk bytes may end in any of them.                         *)
(***************************************************************************)
EXTENDS PacketFramer

MCStart == <<0, 6, 10, 15>>

(* A stream of one packet: nothing is ever left behind it. *)
MCOnePacket == <<0, 6>>
=============================================================================
