---------------------------- MODULE ReplyClient ----------------------------
(***************************************************************************)
(* select/client.cpp and poll/client.cpp: the two differ only in the call  *)
(* that waits for the socket.  A timeout of the wait changes nothing.      *)
(***************************************************************************)
EXTENDS ClientProcess

CONSTANT ReplyClients

ASSUME ReplyAssumption == ReplyClients \subseteq Clients

GotYourMessage(c) == <<c, "got your message", 0>>

(* The answer comes after a sleep of 5 seconds. *)
ReplyAnswer(c) == pc[c] = "reply" /\ Send(c, GotYourMessage(c), "wait")

(* Mutant: the loop goes on when the server closed. *)
ReplyEndStays(c) ==
  /\ GetsEnd(c)
  /\ conn' = [conn EXCEPT ![c] = AfterRecv(@, "cli")]
  /\ UNCHANGED <<backlog, pc, sent>>

(* The server closed: the client leaves its loop and closes too. *)
ReplyEnd(c) == GetsEnd(c) /\ Exit(c)

ReplyStep(c) == SayHello(c) \/ Receive(c) \/ ReplyAnswer(c) \/ ReplyEnd(c)
=============================================================================
