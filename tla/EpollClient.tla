---------------------------- MODULE EpollClient ----------------------------
(***************************************************************************)
(* epoll/client.cpp: after hello it answers every message with a counter.  *)
(* Its socket is registered edge triggered until the first ModFd, level    *)
(* triggered from then on.                                                 *)
(***************************************************************************)
EXTENDS ClientProcess

CONSTANTS
  EpollClients,
  Wrap           \* bound: cnt is counted modulo Wrap

ASSUME EpollAssumption ==
  /\ EpollClients \subseteq Clients
  /\ Wrap \in Nat \ {0}

VARIABLE cnt

EpollClientInit == cnt = [c \in EpollClients |-> 0]

OpenEpoll(c) == Open(c) /\ cnt' = [cnt EXCEPT ![c] = 0]

EpollHello(c)   == SayHello(c) /\ UNCHANGED cnt
EpollReceive(c) == Receive(c) /\ UNCHANGED cnt

Counter(c) == <<c, "cnt", cnt[c]>>

EpollAnswer(c) ==
  /\ pc[c] = "reply"
  /\ Send(c, Counter(c), "wait")
  /\ cnt' = [cnt EXCEPT ![c] = (@ + 1) % Wrap]

(* Mutant: a recv that found nothing yet is taken for the end. *)
EpollEndEarly(c) ==
  /\ Waiting(c)
  /\ conn[c].rx["cli"] = << >>
  /\ conn' = [conn EXCEPT ![c] = AfterRecv(@, "cli")]
  /\ pc' = [pc EXCEPT ![c] = IF @ = "first" THEN "asleep" ELSE @]
  /\ UNCHANGED <<backlog, sent, cnt>>

(* The server closed.  "break" at line 93 leaves the for loop only: the    *)
(* client goes back to epoll_wait.  An edge is not reported twice, so the  *)
(* client sleeps; a level is, so it comes here again and again.            *)
EpollEnd(c) ==
  /\ GetsEnd(c)
  /\ conn' = [conn EXCEPT ![c] = AfterRecv(@, "cli")]
  /\ pc' = [pc EXCEPT ![c] = IF @ = "first" THEN "asleep" ELSE @]
  /\ UNCHANGED <<backlog, sent, cnt>>

EpollStep(c) ==
  EpollHello(c) \/ EpollReceive(c) \/ EpollAnswer(c) \/ EpollEnd(c)
=============================================================================
