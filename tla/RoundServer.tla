---------------------------- MODULE RoundServer ----------------------------
(***************************************************************************)
(* select/server.cpp and poll/server.cpp: one thread that goes in rounds.  *)
(* A round asks which descriptors are readable, accepts at most one        *)
(* connection, then reads from each readable descriptor and answers it, or *)
(* closes it.  The sockets are blocking.                                   *)
(*                                                                         *)
(* program says which of the two runs.  They differ in what a descriptor   *)
(* accepted in a round has for its readiness in that round: select's       *)
(* read_fds has no bit for it; poll's new pollfd has its revents           *)
(* uninitialised (poll/server.cpp:95).                                     *)
(***************************************************************************)
EXTENDS Tcp

CONSTANTS
  MaxFds,    \* descriptors the process may open for connections
  NULL

ASSUME FdAssumption == MaxFds \in Nat \ {0} /\ NULL \notin Clients

VARIABLES
  program,   \* "select" or "poll"
  alive,     \* the server process exists
  peer,      \* the client at the other end of each open descriptor
  watched,   \* accept_fds, pollfds: the descriptors the next round asks for
  ready,     \* the descriptors reported and not yet dealt with
  answering  \* the descriptor read from and not yet answered, 0 for none

serverVars == <<program, alive, peer, watched, ready, answering>>

Fds     == 1..MaxFds
Listen  == 0
Welcome == <<"server", "welcome to join", 0>>

ServerInit ==
  /\ program \in {"select", "poll"}
  /\ alive = TRUE
  /\ peer = [f \in Fds |-> NULL]
  /\ watched = {}
  /\ ready = {}
  /\ answering = 0

FreeFds    == {f \in Fds : peer[f] = NULL}
LowestFree == CHOOSE f \in FreeFds : \A g \in FreeFds : f <= g

(* A round begins.  A timeout of select or poll begins the next one.       *)
Wait ==
  LET readable == {f \in watched : Readable(conn[peer[f]], "srv")}
                    \cup (IF backlog # << >> THEN {Listen} ELSE {})
  IN  /\ alive
      /\ ready = {}
      /\ answering = 0
      /\ readable # {}
      /\ ready' = readable
      /\ UNCHANGED <<conn, backlog, program, alive, peer, watched, answering>>

(* Mutant: the new descriptor does not join the list. *)
AcceptUnwatched ==
  /\ alive
  /\ Listen \in ready
  /\ FreeFds # {}
  /\ peer' = [peer EXCEPT ![LowestFree] = Head(backlog)]
  /\ backlog' = Tail(backlog)
  /\ ready' = ready \ {Listen}
  /\ UNCHANGED <<conn, program, alive, watched, answering>>

(* Mutant: the new descriptor is read in the round that accepts it. *)
AcceptReads ==
  /\ alive
  /\ Listen \in ready
  /\ FreeFds # {}
  /\ peer' = [peer EXCEPT ![LowestFree] = Head(backlog)]
  /\ watched' = watched \cup {LowestFree}
  /\ backlog' = Tail(backlog)
  /\ ready' = (ready \ {Listen}) \cup {LowestFree}
  /\ UNCHANGED <<conn, program, alive, answering>>

(* The listening socket comes first.  Garbage in revents may make the new  *)
(* descriptor look readable.                                               *)
Accept ==
  /\ alive
  /\ Listen \in ready
  /\ FreeFds # {}
  /\ peer' = [peer EXCEPT ![LowestFree] = Head(backlog)]
  /\ watched' = watched \cup {LowestFree}
  /\ backlog' = Tail(backlog)
  /\ \/ ready' = ready \ {Listen}
     \/ program = "poll" /\ ready' = (ready \ {Listen}) \cup {LowestFree}
  /\ UNCHANGED <<conn, program, alive, answering>>

(* accept returned -1, which joins the list until the end of the round.    *)
(* poll: recv and close fail on it, or it is not looked at.  select:       *)
(* FD_ISSET(-1) reads a bit that stands for no descriptor.                 *)
AcceptFails ==
  /\ alive
  /\ Listen \in ready
  /\ FreeFds = {}
  /\ ready' = ready \ {Listen}
  /\ UNCHANGED <<conn, backlog, program, alive, peer, watched, answering>>

Reads(f) == alive /\ Listen \notin ready /\ answering = 0 /\ f \in ready

(* recv on a blocking socket: if nothing came it waits here. *)
ReadMessage(f) ==
  /\ Reads(f)
  /\ Received(conn[peer[f]], "srv") # << >>
  /\ conn' = [conn EXCEPT ![peer[f]] = AfterRecv(@, "srv")]
  /\ answering' = f
  /\ UNCHANGED <<backlog, program, alive, peer, watched, ready>>

(* Mutant: the descriptor is answered again and again. *)
AnswerRepeats ==
  /\ alive
  /\ answering # 0
  /\ conn' = [conn EXCEPT ![peer[answering]] = AfterSend(@, "srv", <<Welcome>>)]
  /\ UNCHANGED <<backlog, program, alive, peer, watched, ready, answering>>

Answer ==
  /\ alive
  /\ answering # 0
  /\ conn' = [conn EXCEPT ![peer[answering]] = AfterSend(@, "srv", <<Welcome>>)]
  /\ ready' = ready \ {answering}
  /\ answering' = 0
  /\ UNCHANGED <<backlog, program, alive, peer, watched>>

(* Mutant: the descriptor leaves the list and is not closed. *)
ReadEndLeaks(f) ==
  /\ Reads(f)
  /\ Readable(conn[peer[f]], "srv")
  /\ Received(conn[peer[f]], "srv") = << >>
  /\ conn' = [conn EXCEPT ![peer[f]] = AfterRecv(@, "srv")]
  /\ watched' = watched \ {f}
  /\ ready' = ready \ {f}
  /\ UNCHANGED <<backlog, program, alive, peer, answering>>

(* recv returned 0 or failed: the client left. *)
ReadEnd(f) ==
  /\ Reads(f)
  /\ Readable(conn[peer[f]], "srv")
  /\ Received(conn[peer[f]], "srv") = << >>
  /\ conn' = [conn EXCEPT ![peer[f]] = AfterClose(AfterRecv(@, "srv"), "srv")]
  /\ peer' = [peer EXCEPT ![f] = NULL]
  /\ watched' = watched \ {f}
  /\ ready' = ready \ {f}
  /\ UNCHANGED <<backlog, program, alive, answering>>

Accepted(c) == \E f \in Fds : peer[f] = c

(* The process ends and the kernel closes every descriptor; connections    *)
(* that were not accepted are reset.                                       *)
Die ==
  LET end(c) == AfterClose(conn[c], "srv")
  IN  /\ alive
      /\ alive' = FALSE
      /\ conn' = [c \in Clients |->
                    IF conn[c] = NoConn THEN NoConn
                    ELSE IF Accepted(c) \/ end(c).st["cli"] # "fin" THEN end(c)
                    ELSE [end(c) EXCEPT !.st["cli"] = "reset"]]
      /\ backlog' = << >>
      /\ peer' = [f \in Fds |-> NULL]
      /\ watched' = {}
      /\ ready' = {}
      /\ answering' = 0
      /\ UNCHANGED program

(* A build with _FORTIFY_SOURCE checks the argument of FD_ISSET and aborts *)
(* on -1 (select/server.cpp:106).                                          *)
AcceptAborts ==
  program = "select" /\ Listen \in ready /\ FreeFds = {} /\ Die

ServerStep ==
  \/ Wait
  \/ Accept
  \/ AcceptFails
  \/ AcceptAborts
  \/ Answer
  \/ \E f \in Fds : ReadMessage(f) \/ ReadEnd(f)
=============================================================================
