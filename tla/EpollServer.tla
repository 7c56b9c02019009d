---------------------------- MODULE EpollServer ----------------------------
(***************************************************************************)
(* epoll/server.cpp: one thread, one epoll instance, an echo per message.  *)
(*                                                                         *)
(* epoll_wait fills v with the descriptors that are ready; the loop over v *)
(* handles them one by one, and while it does clients go on.  A connection *)
(* is registered edge triggered by AddFd and level triggered from its      *)
(* first ModFd on; as its first event is handled by a ModFd or a close, no *)
(* edge of it is lost and its registration is modelled by the level.  The  *)
(* listening socket stays edge triggered: edge is TRUE while a connection  *)
(* that arrived has not been reported.                                     *)
(***************************************************************************)
EXTENDS Tcp

CONSTANTS
  MaxFds,   \* descriptors the process may open for connections
  NULL

ASSUME FdAssumption == MaxFds \in Nat \ {0} /\ NULL \notin Clients

VARIABLES
  alive,     \* the server process exists
  peer,      \* the client at the other end of each open descriptor
  interest,  \* what a descriptor is registered for: "none", "in" or "out"
  events,    \* the entries of v not yet handled
  m,         \* the text kept for each descriptor; survives its close
  edge       \* the listening socket has an edge to report

serverVars == <<alive, peer, interest, events, m, edge>>

Fds    == 1..MaxFds
Listen == 0

Event(f, ev) == [fd |-> f, ev |-> ev]

ServerInit ==
  /\ alive = TRUE
  /\ peer = [f \in Fds |-> NULL]
  /\ interest = [f \in Fds |-> "none"]
  /\ events = {}
  /\ m = [f \in Fds |-> << >>]
  /\ edge = FALSE

FreeFds == {f \in Fds : peer[f] = NULL}

(* A descriptor is always the lowest one free. *)
LowestFree == CHOOSE f \in FreeFds : \A g \in FreeFds : f <= g

(* What epoll_wait reports.  Answers are short and never fill a send       *)
(* buffer, so a socket is always writable.                                 *)
ReadyEvents ==
  (IF edge /\ backlog # << >> THEN {Event(Listen, "in")} ELSE {})
    \cup {Event(f, "in") : f \in {g \in Fds : interest[g] = "in"
                                       /\ Readable(conn[peer[g]], "srv")}}
    \cup {Event(f, "out") : f \in {g \in Fds : interest[g] = "out"}}

EpollWait ==
  /\ alive
  /\ events = {}
  /\ ReadyEvents # {}
  /\ events' = ReadyEvents
  /\ edge' = FALSE
  /\ UNCHANGED <<conn, backlog, alive, peer, interest, m>>

Handles(f, ev) ==
  /\ alive
  /\ Event(f, ev) \in events
  /\ events' = events \ {Event(f, ev)}
  /\ UNCHANGED <<alive, edge>>

(* One accept for one event (line 125). *)
HandleAccept ==
  /\ Handles(Listen, "in")
  /\ FreeFds # {}
  /\ peer' = [peer EXCEPT ![LowestFree] = Head(backlog)]
  /\ interest' = [interest EXCEPT ![LowestFree] = "in"]
  /\ backlog' = Tail(backlog)
  /\ UNCHANGED <<conn, m>>

(* Mutant: with a full descriptor table the oldest connection is closed to *)
(* make room.                                                              *)
AcceptEvicts ==
  /\ Handles(Listen, "in")
  /\ FreeFds = {}
  /\ conn' = [conn EXCEPT ![peer[1]] = AfterClose(@, "srv")]
  /\ peer' = [peer EXCEPT ![1] = NULL]
  /\ interest' = [interest EXCEPT ![1] = "none"]
  /\ UNCHANGED <<backlog, m>>

(* accept fails, and AddFd(epfd, -1) fails in its turn. *)
AcceptFails ==
  /\ Handles(Listen, "in")
  /\ FreeFds = {}
  /\ UNCHANGED <<conn, backlog, peer, interest, m>>

(* Mutant: the text of the first message on a descriptor is kept. *)
HandleMessageKeepsText(f) ==
  /\ Handles(f, "in")
  /\ Received(conn[peer[f]], "srv") # << >>
  /\ m' = IF m[f] = << >> THEN [m EXCEPT ![f] = Received(conn[peer[f]], "srv")]
          ELSE m
  /\ conn' = [conn EXCEPT ![peer[f]] = AfterRecv(@, "srv")]
  /\ interest' = [interest EXCEPT ![f] = "out"]
  /\ UNCHANGED <<backlog, peer>>

(* Mutant: the text is appended to what the descriptor had. *)
HandleMessageAppends(f) ==
  /\ Handles(f, "in")
  /\ Received(conn[peer[f]], "srv") # << >>
  /\ Len(m[f]) < 3
  /\ m' = [m EXCEPT ![f] = @ \o Received(conn[peer[f]], "srv")]
  /\ conn' = [conn EXCEPT ![peer[f]] = AfterRecv(@, "srv")]
  /\ interest' = [interest EXCEPT ![f] = "out"]
  /\ UNCHANGED <<backlog, peer>>

(* Mutant: the ModFd to EPOLLOUT is forgotten. *)
HandleMessageNoMod(f) ==
  /\ Handles(f, "in")
  /\ Received(conn[peer[f]], "srv") # << >>
  /\ m' = [m EXCEPT ![f] = Received(conn[peer[f]], "srv")]
  /\ conn' = [conn EXCEPT ![peer[f]] = AfterRecv(@, "srv")]
  /\ UNCHANGED <<backlog, peer, interest>>

(* A message came: the answer waits for the next EPOLLOUT. *)
HandleMessage(f) ==
  /\ Handles(f, "in")
  /\ Received(conn[peer[f]], "srv") # << >>
  /\ m' = [m EXCEPT ![f] = Received(conn[peer[f]], "srv")]
  /\ conn' = [conn EXCEPT ![peer[f]] = AfterRecv(@, "srv")]
  /\ interest' = [interest EXCEPT ![f] = "out"]
  /\ UNCHANGED <<backlog, peer>>

(* Mutant: DelFd without close. *)
HandleEndLeaks(f) ==
  /\ Handles(f, "in")
  /\ Received(conn[peer[f]], "srv") = << >>
  /\ conn' = [conn EXCEPT ![peer[f]] = AfterRecv(@, "srv")]
  /\ interest' = [interest EXCEPT ![f] = "none"]
  /\ UNCHANGED <<backlog, peer, m>>

(* recv returned 0 or failed: the client left. *)
HandleEnd(f) ==
  /\ Handles(f, "in")
  /\ Received(conn[peer[f]], "srv") = << >>
  /\ conn' = [conn EXCEPT ![peer[f]] = AfterClose(AfterRecv(@, "srv"), "srv")]
  /\ peer' = [peer EXCEPT ![f] = NULL]
  /\ interest' = [interest EXCEPT ![f] = "none"]
  /\ UNCHANGED <<backlog, m>>

(* Mutant: the ModFd back to EPOLLIN is forgotten. *)
HandleOutStays(f) ==
  /\ Handles(f, "out")
  /\ conn' = [conn EXCEPT ![peer[f]] = AfterSend(@, "srv", m[f])]
  /\ UNCHANGED <<backlog, peer, interest, m>>

HandleOut(f) ==
  /\ Handles(f, "out")
  /\ conn' = [conn EXCEPT ![peer[f]] = AfterSend(@, "srv", m[f])]
  /\ interest' = [interest EXCEPT ![f] = "in"]
  /\ UNCHANGED <<backlog, peer, m>>

(* Ctrl+C: the kernel closes every descriptor; connections that were not   *)
(* accepted are reset.                                                     *)
Accepted(c) == \E f \in Fds : peer[f] = c

AfterReset(k) ==
  LET end == AfterClose(k, "srv")
  IN  IF end.st["cli"] = "fin" THEN [end EXCEPT !.st["cli"] = "reset"] ELSE end

ServerInterrupt ==
  /\ alive
  /\ alive' = FALSE
  /\ conn' = [c \in Clients |->
                IF Accepted(c) THEN AfterClose(conn[c], "srv")
                ELSE IF conn[c] # NoConn THEN AfterReset(conn[c])
                ELSE conn[c]]
  /\ backlog' = << >>
  /\ peer' = [f \in Fds |-> NULL]
  /\ interest' = [f \in Fds |-> "none"]
  /\ events' = {}
  /\ m' = [f \in Fds |-> << >>]
  /\ edge' = FALSE

ServerStep ==
  \/ EpollWait
  \/ HandleAccept
  \/ AcceptFails
  \/ \E f \in Fds : HandleMessage(f) \/ HandleEnd(f) \/ HandleOut(f)
=============================================================================
