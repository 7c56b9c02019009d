---------------------------- MODULE PacketFramer ----------------------------
(***************************************************************************)
(* The unpacker of src/TCP/code/pac.h, driven by a caller as test.cpp      *)
(* drives it: the bytes of one stream in pieces through packet_in, the     *)
(* packets out through packet_out, packet_destory between two streams.     *)
(*                                                                         *)
(* packet_in is recursive: a piece may complete several packets.  pc says  *)
(* where the activation at work stands.  One thread runs this code (its    *)
(* state is file-static and not locked), so packet_out and packet_destory  *)
(* happen between two calls of packet_in.                                  *)
(***************************************************************************)
EXTENDS PacketWire

CONSTANTS
  MaxChunk,     \* the largest piece the caller hands over at once
  JunkLengths,  \* what four bytes that are not a header may decode to
  InnerBufferSize, \* the bytes allocated for pr->buffer
  NULL

VARIABLES
  fed,          \* bytes of the stream handed over by the calls that returned
  call,         \* size of the piece being unpacked, 0 between calls
  buffer,       \* the bytes the pointer "buffer" has in front of it
  size,         \* the int "size"; may become negative
  pc,           \* "idle", "enter", "header" or "body"
  pr,           \* the descriptor that keeps a remainder shorter than a header
  pd,           \* the descriptor of the packet being assembled
  pendingQueue, \* the packets unpacked and not yet taken
  out,          \* (history) the packets packet_out returned
  cut           \* (history) a piece of this stream ended inside a header

vars == <<fed, call, buffer, size, pc, pr, pd, pendingQueue, out, cut>>

Stream == INSTANCE PacketStream WITH received <- fed

Junk == -1      \* a byte nobody wrote

Desc == [length : Nat, loop : Nat, buffer : Seq(Int)]

ASSUME ConstantsAssumption ==
  /\ MaxChunk \in Nat
  /\ JunkLengths \subseteq Nat
  /\ NULL \notin Desc

(* "The inner buffer must be larger than a packet" (pac.h:112): what has   *)
(* to fit is the largest piece behind the largest remainder.               *)
ASSUME BufferAssumption ==
  /\ InnerBufferSize \in Nat
  /\ MaxChunk + Hdr - 1 <= InnerBufferSize

(* The remainder is shorter than a header: only the first Hdr - 1 bytes of *)
(* pr->buffer are ever read before they are written.                       *)
Held == [loop : 0..Hdr - 1, buffer : [1..Hdr - 1 -> Int]]

TypeOK ==
  /\ fed \in Nat
  /\ call \in Nat
  /\ fed + call <= StreamEnd
  /\ buffer \in Seq(Int)
  /\ size \in Int
  /\ pc \in {"idle", "enter", "header", "body"}
  /\ pr \in {NULL} \cup Held
  /\ pd \in {NULL} \cup Desc
  /\ pendingQueue \in Seq(Desc)
  /\ out \in Seq(Desc)
  /\ cut \in BOOLEAN

Init ==
  /\ fed = 0
  /\ call = 0
  /\ buffer = << >>
  /\ size = 0
  /\ pc = "idle"
  /\ pr = NULL
  /\ pd = NULL
  /\ pendingQueue = << >>
  /\ out = << >>
  /\ cut = FALSE

PacketIn(n) ==
  /\ pc = "idle"
  /\ fed + n <= StreamEnd
  /\ call' = n
  /\ buffer' = Run(fed, n)
  /\ size' = n
  /\ pc' = "enter"
  /\ cut' = (cut \/ CutsHeader(fed + n))
  /\ UNCHANGED <<fed, pr, pd, pendingQueue, out>>

(* packet_in returns to its caller. *)
Return ==
  /\ pc' = "idle"
  /\ fed' = fed + call
  /\ call' = 0
  /\ buffer' = << >>
  /\ size' = 0

(* An activation begins: the remainder kept from the last call comes first *)
(* and the piece is copied behind it.                                      *)
Remainder == pr # NULL /\ pr.loop > 0

(* Mutant: the remainder is still counted after it was merged. *)
MergeKeepsLoop ==
  LET merged == SubSeq(pr.buffer, 1, pr.loop) \o buffer
  IN  /\ Remainder
      /\ buffer' = merged
      /\ size' = size + pr.loop
      /\ pr' = [pr EXCEPT !.buffer = [i \in 1..Hdr - 1 |->
                              IF i <= Len(merged) THEN merged[i]
                                                  ELSE pr.buffer[i]]]

Merge ==
  LET merged == SubSeq(pr.buffer, 1, pr.loop) \o buffer
  IN  /\ Remainder
      /\ buffer' = merged
      /\ size' = size + pr.loop
      /\ pr' = [loop   |-> 0,
                buffer |-> [i \in 1..Hdr - 1 |->
                              IF i <= Len(merged) THEN merged[i]
                                                  ELSE pr.buffer[i]]]

NoMerge == ~Remainder /\ size # 0 /\ UNCHANGED <<buffer, size, pr>>

Enter ==
  /\ pc = "enter"
  /\ \/ /\ ~Remainder
        /\ size = 0
        /\ Return
        /\ UNCHANGED pr
     \/ /\ Merge \/ NoMerge
        /\ pc' = IF pd = NULL THEN "header" ELSE "body"
        /\ UNCHANGED <<fed, call>>
  /\ UNCHANGED <<pd, pendingQueue, out, cut>>

(* byte2int: the length a header holds, or whatever other bytes make. *)
Decoded(bytes) ==
  IF \E k \in Packets : bytes = Run(Start[k], Hdr)
  THEN {PacketLen(k) : k \in {j \in Packets : bytes = Run(Start[j], Hdr)}}
  ELSE JunkLengths

(* The four bytes are read whether or not the piece has four. *)
ReadHeader ==
  /\ pc = "header"
  /\ \E len \in Decoded(SubSeq(buffer, 1, IF size < Hdr THEN size ELSE Hdr)) :
       pd' = [length |-> len, loop |-> 0, buffer |-> << >>]
  /\ buffer' = IF size < Hdr THEN << >> ELSE SubSeq(buffer, Hdr + 1, size)
  /\ size' = size - Hdr
  /\ pc' = "body"
  /\ UNCHANGED <<fed, call, pr, pendingQueue, out, cut>>

(* Nothing is left behind the header. *)
NoBody ==
  /\ pc = "body"
  /\ size <= 0
  /\ Return
  /\ UNCHANGED <<pr, pd, pendingQueue, out, cut>>

(* All that is left belongs to the packet, which needs more. *)
Fill ==
  /\ pc = "body"
  /\ size > 0
  /\ pd.loop + size < pd.length
  /\ pd' = [length |-> pd.length,
            loop   |-> pd.loop + size,
            buffer |-> pd.buffer \o buffer]
  /\ Return
  /\ UNCHANGED <<pr, pendingQueue, out, cut>>

(* A remainder too short for a header: its size is recorded in pr, its     *)
(* bytes are not copied there.                                             *)
Hold(rest) ==
  /\ 0 < rest /\ rest < Hdr
  /\ pr' = [loop   |-> rest,
            buffer |-> IF pr = NULL THEN [i \in 1..Hdr - 1 |-> Junk]
                                    ELSE pr.buffer]
  /\ Return

(* Mutant: what follows a complete packet is dropped, not unpacked. *)
CompleteDropsRest ==
  LET remain == pd.length - pd.loop
  IN  /\ pc = "body"
      /\ size > 0
      /\ pd.loop + size >= pd.length
      /\ pendingQueue' =
           Append(pendingQueue,
                  [length |-> pd.length,
                   loop   |-> pd.length,
                   buffer |-> pd.buffer \o SubSeq(buffer, 1, remain)])
      /\ pd' = NULL
      /\ Return
      /\ UNCHANGED <<pr, out, cut>>

(* The packet is complete and goes to the queue; what follows it starts    *)
(* another activation.                                                     *)
Complete ==
  LET remain == pd.length - pd.loop
      rest   == size - remain
  IN  /\ pc = "body"
      /\ size > 0
      /\ pd.loop + size >= pd.length
      /\ pendingQueue' =
           Append(pendingQueue,
                  [length |-> pd.length,
                   loop   |-> pd.length,
                   buffer |-> pd.buffer \o SubSeq(buffer, 1, remain)])
      /\ pd' = NULL
      /\ \/ rest = 0 /\ Return /\ UNCHANGED pr
         \/ Hold(rest)
         \/ /\ rest >= Hdr
            /\ buffer' = SubSeq(buffer, remain + 1, size)
            /\ size' = rest
            /\ pc' = "enter"
            /\ UNCHANGED <<fed, call, pr>>
      /\ UNCHANGED <<out, cut>>

(* Mutant: the newest packet is taken from the queue, not the oldest. *)
PacketOutNewest ==
  LET n == Len(pendingQueue)
  IN  /\ pc = "idle"
      /\ n > 0
      /\ out' = Append(out, pendingQueue[n])
      /\ pendingQueue' = SubSeq(pendingQueue, 1, n - 1)
      /\ UNCHANGED <<fed, call, buffer, size, pc, pr, pd, cut>>

PacketOut ==
  /\ pc = "idle"
  /\ pendingQueue # << >>
  /\ out' = Append(out, Head(pendingQueue))
  /\ pendingQueue' = Tail(pendingQueue)
  /\ UNCHANGED <<fed, call, buffer, size, pc, pr, pd, cut>>

(* Mutant: a packet in the making survives the end of its stream. *)
PacketDestoryKeepsPartial ==
  /\ pc = "idle"
  /\ pendingQueue' = << >>
  /\ pr' = NULL
  /\ fed' = 0
  /\ out' = << >>
  /\ cut' = FALSE
  /\ UNCHANGED <<call, buffer, size, pc, pd>>

(* Everything is freed; the caller goes on with a new stream. *)
PacketDestory ==
  /\ pc = "idle"
  /\ pendingQueue' = << >>
  /\ pr' = NULL
  /\ pd' = NULL
  /\ fed' = 0
  /\ out' = << >>
  /\ cut' = FALSE
  /\ UNCHANGED <<call, buffer, size, pc>>

Unpack == Enter \/ ReadHeader \/ NoBody \/ Fill \/ Complete

Next ==
  \/ \E n \in 0..MaxChunk : PacketIn(n)
  \/ Unpack
  \/ PacketOut
  \/ PacketDestory

(* A call runs to its end; a caller that keeps calling packet_in comes     *)
(* back to the queue again and again, as test.cpp:19 does.                 *)
Fairness == WF_vars(Unpack) /\ SF_vars(PacketOut)

Spec == Init /\ [][Next]_vars /\ Fairness

-----------------------------------------------------------------------------

(* The packets unpacked so far are the first packets of the stream, byte   *)
(* for byte, in order, none lost and none twice, however the pieces given  *)
(* to packet_in were cut: "unpacks" as pac.h:2 claims.                     *)
AlwaysFramed ==
  LET got == out \o pendingQueue
  IN  Len(got) < Len(Start) /\ got = FirstPackets(Len(got))

(* AlwaysFramed as long as no piece of this stream ended inside a header.  *)
(* An earlier stream that was cut and given up has no influence.           *)
Framed == ~cut => AlwaysFramed

(* When packet_in returns, a packet whose last byte was handed over is in  *)
(* the queue: it does not wait for a later call, unless it is empty and    *)
(* nothing follows its header yet.                                         *)
Prompt ==
  pc = "idle" /\ ~cut =>
    \A k \in Packets : Stream!Due(k) => k <= Len(out) + Len(pendingQueue)

(* No memcpy writes behind the end of pr->buffer: a remainder is merged    *)
(* once, by the call that follows it, and the activations that call goes   *)
(* through for the other packets in its piece do not merge again.          *)
Fits ==
  pc = "enter" /\ Remainder => pr.loop + size <= InnerBufferSize

(* What keeps it so: a remainder and the bytes in front of the pointer are *)
(* together never more than one piece and one remainder.                   *)
Room ==
  size + (IF pr = NULL THEN 0 ELSE pr.loop) <= MaxChunk + Hdr - 1

(* Where the unpacker stands in the stream, at every step of a call: the   *)
(* buffer holds the bytes that follow those it has dealt with, and pd the  *)
(* part of the next packet it has seen.  No remainder is kept before the   *)
(* first cut.                                                              *)
Current  == Len(out) + Len(pendingQueue) + 1
Position == fed + call - size

InStep ==
  /\ pr = NULL
  /\ ~CutsHeader(fed + call)
  /\ size >= 0
  /\ buffer = Run(Position, size)
  /\ pd = NULL => Position = Start[Current]
  /\ pd # NULL =>
       /\ Current \in Packets
       /\ pd.length = PacketLen(Current)
       /\ pd.loop < pd.length \/ pd.loop = 0
       /\ pd.buffer = Run(Start[Current] + Hdr, pd.loop)
       /\ Position = Start[Current] + Hdr + pd.loop
  /\ AlwaysFramed

(* What holds of an activation even after a cut: the buffer has the bytes  *)
(* that size counts, and pd never more bytes than its length.              *)
Shape ==
  /\ Len(buffer) = IF size < 0 THEN 0 ELSE size
  /\ size < 0 => pc = "body"
  /\ pc = "idle" => call = 0 /\ size = 0
  /\ pc = "header" => pd = NULL /\ size > 0
  /\ pc = "body" => pd # NULL
  /\ pd # NULL => pd.loop <= pd.length

IInv ==
  /\ TypeOK
  /\ Shape
  /\ ~cut => InStep

(* To its caller the unpacker is the abstract stream of packets: until a   *)
(* header is cut a packet comes out only once it is whole, in order, and   *)
(* every packet that is due comes out.                                     *)
ImplementsStream == Stream!Spec
=============================================================================
