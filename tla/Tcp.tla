-------------------------------- MODULE Tcp --------------------------------
(***************************************************************************)
(* The part of the operating system the programs of src/IO_Multiplexing    *)
(* stand on: TCP connections between client processes and one listening    *)
(* server.  It is not in the repository; it is modelled from the calls the *)
(* programs make (socket, listen, connect, accept, send, recv, close).     *)
(*                                                                         *)
(* A client process has one connection, so a connection is named by its    *)
(* client.  st[e] is what end e knows of it:                               *)
(*   "est"     the other end is open                                       *)
(*   "fin"     the other end closed: recv returns 0 after the data in rx   *)
(*   "reset"   the other end answered with a reset: an error is pending    *)
(*   "broken"  as "reset", and the next send raises SIGPIPE                *)
(*   "closed"  end e itself closed its descriptor                          *)
(* Data sent is at once readable at the other end: every delay on the way  *)
(* is a delay of the reader, which the interleaving already covers.        *)
(***************************************************************************)
EXTENDS Integers, Sequences, FiniteSets

CONSTANTS
  Clients,  \* the client processes
  Backlog   \* the argument of listen(): 5 in every server

ASSUME BacklogAssumption == Backlog \in Nat

VARIABLES
  conn,     \* the connection of each client
  backlog   \* the established connections the server has not accepted

tcpVars == <<conn, backlog>>

Ends     == {"srv", "cli"}
Other(e) == IF e = "srv" THEN "cli" ELSE "srv"

Both(x) == [srv |-> x, cli |-> x]

NoConn   == [st |-> Both("none"), rx |-> Both(<< >>)]
NewConn  == [st |-> Both("est"), rx |-> Both(<< >>)]

States == {"none", "est", "fin", "reset", "broken", "closed"}

TcpInit == conn = [c \in Clients |-> NoConn] /\ backlog = << >>

(* recv would not block. *)
Readable(k, e) == k.rx[e] # << >> \/ k.st[e] \in {"fin", "reset", "broken"}

(* What one recv returns: all that is there; nothing stands for <= 0. *)
Received(k, e) == k.rx[e]

AfterRecv(k, e) ==
  IF k.rx[e] = << >> /\ k.st[e] = "reset"
  THEN [k EXCEPT !.st[e] = "broken"]
  ELSE [k EXCEPT !.rx[e] = << >>]

(* A send to an end that closed is answered by a reset. *)
AfterSend(k, e, data) ==
  IF k.st[e] = "est" THEN [k EXCEPT !.rx[Other(e)] = @ \o data]
                     ELSE [k EXCEPT !.st[e] = "broken"]

SendKills(k, e) == k.st[e] = "broken"

(* Closing with data unread resets the connection. *)
AfterClose(k, e) ==
  LET o == Other(e)
  IN  IF k.st[o] = "closed" THEN NoConn
      ELSE [k EXCEPT !.st[e] = "closed",
                     !.rx[e] = << >>,
                     !.st[o] = IF @ # "est" THEN @
                               ELSE IF k.rx[e] = << >> THEN "fin" ELSE "reset"]

(* connect() succeeds while the queue of the listening socket has room:    *)
(* Linux lets in one more than the argument of listen().                   *)
Connect(c) ==
  /\ conn[c] = NoConn
  /\ Len(backlog) <= Backlog
  /\ conn' = [conn EXCEPT ![c] = NewConn]
  /\ backlog' = Append(backlog, c)
=============================================================================
