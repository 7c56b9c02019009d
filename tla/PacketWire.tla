----------------------------- MODULE PacketWire -----------------------------
(***************************************************************************)
(* The stream the unpacker of src/TCP/code/pac.h reads: packets one after  *)
(* another, each a header of Hdr bytes that holds the length of the body,  *)
(* then the body.                                                          *)
(*                                                                         *)
(* A byte is represented by its offset in the stream, so that a byte that  *)
(* is lost, repeated, moved or invented is told apart from the right one.  *)
(***************************************************************************)
EXTENDS Integers, Sequences

CONSTANT
  Start   \* Start[k] is the offset of the header of packet k; the last
          \* element is the offset of the end of the stream

Hdr == 4  \* sizeof(int), the length that precedes a packet

ASSUME StartAssumption ==
  /\ Start \in Seq(Nat)
  /\ Len(Start) > 0
  /\ Start[1] = 0
  /\ \A j, k \in 1..Len(Start) : j < k => Start[j] + Hdr <= Start[k]

Packets      == 1..Len(Start) - 1
StreamEnd    == Start[Len(Start)]
PacketLen(k) == Start[k + 1] - Start[k] - Hdr

(* The n bytes of the stream from offset a on. *)
Run(a, n) == [i \in 1..n |-> a + i - 1]

(* The descriptor of packet k once it is complete. *)
Packet(k) == [length |-> PacketLen(k),
              loop   |-> PacketLen(k),
              buffer |-> Run(Start[k] + Hdr, PacketLen(k))]

(* The first n packets of the stream. *)
FirstPackets(n) == [k \in 1..n |-> Packet(k)]

(* Offset e lies strictly inside a header. *)
CutsHeader(e) == \E k \in Packets : Start[k] < e /\ e < Start[k] + Hdr

-----------------------------------------------------------------------------
(* int2byte and byte2int of pac.h: a 32-bit int and the four bytes of a    *)
(* header, the least significant first (bytes[0] is bytes[1] here).  The   *)
(* masks cut a byte out of the two's complement; 0xff000000 is unsigned,   *)
(* so that shifting the top byte brings in no sign bits.                   *)

Two8  == 256
Two16 == Two8 * Two8
Two24 == Two8 * Two16
Half  == 128 * Two24
Two32 == Half + Half

Byte  == 0..Two8 - 1
Word  == 0..Two32 - 1
Int32 == -Half..Half - 1

(* The bits of an int as an unsigned number, and back. *)
Unsigned(i) == IF i < 0 THEN i + Two32 ELSE i
Signed(u)   == IF u >= Half THEN u - Two32 ELSE u

(* A shift to the right by eight bits. *)
Rest(u) == u \div Two8

int2byte(i) ==
  LET u == Unsigned(i)
  IN  <<u % Two8, Rest(u) % Two8, Rest(Rest(u)) % Two8, Rest(Rest(Rest(u)))>>

byte2int(bytes) ==
  Signed(bytes[1] + Two8 * (bytes[2] + Two8 * (bytes[3] + Two8 * bytes[4])))
=============================================================================
