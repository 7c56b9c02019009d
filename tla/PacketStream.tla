---------------------------- MODULE PacketStream ----------------------------
(***************************************************************************)
(* What the unpacker of src/TCP/code/pac.h promises its caller: the stream *)
(* arrives in pieces cut anywhere, and the caller gets back the packets,   *)
(* whole, in order, each once -- as long as no piece ends inside a header. *)
(***************************************************************************)
EXTENDS PacketWire

VARIABLES
  received,  \* the number of bytes the caller has handed over
  cut,       \* a piece ended inside a header: the promise is void
  out        \* the packets the caller has taken, in order

vars == <<received, cut, out>>

(* Every byte of packet k has been handed over. *)
Whole(k) == Start[k + 1] <= received

(* ... and so has one byte past its header: pac.h looks at the body only   *)
(* when there is a byte to look at, so an empty packet waits for the next. *)
Due(k) == Whole(k) /\ Start[k] + Hdr < received

Init == received = 0 /\ cut = FALSE /\ out = << >>

Receive(n) ==
  /\ received + n <= StreamEnd
  /\ received' = received + n
  /\ UNCHANGED <<cut, out>>

CutHeader == cut' = TRUE /\ UNCHANGED <<received, out>>

Take(k) ==
  /\ ~cut
  /\ k = Len(out) + 1
  /\ Whole(k)
  /\ out' = Append(out, Packet(k))
  /\ UNCHANGED <<received, cut>>

(* After a cut the caller may be given anything. *)
TakeAnything == cut /\ UNCHANGED <<received, cut>>

(* The connection is given up; the next stream starts from its beginning. *)
Reset == received' = 0 /\ cut' = FALSE /\ out' = << >>

Next ==
  \/ \E n \in 1..StreamEnd : Receive(n)
  \/ CutHeader
  \/ \E k \in Packets : Take(k)
  \/ TakeAnything
  \/ Reset

Fairness == \A k \in Packets : WF_vars(Due(k) /\ Take(k))

Spec == Init /\ [][Next]_vars /\ Fairness
=============================================================================
