----------------------------- MODULE EpollEcho -----------------------------
(***************************************************************************)
(* The service of README.md:52-67 of src/IO_Multiplexing: epoll_server     *)
(* with any mix of select, poll and epoll clients.                         *)
(***************************************************************************)
EXTENDS EpollServer, AllClients

vars == <<tcpVars, serverVars, allClientVars>>

TypeOK ==
  /\ conn \in [Clients -> [st : [Ends -> States], rx : [Ends -> Seq(Messages)]]]
  /\ backlog \in Seq(Clients)
  /\ alive \in BOOLEAN
  /\ peer \in [Fds -> Clients \cup {NULL}]
  /\ interest \in [Fds -> {"none", "in", "out"}]
  /\ events \subseteq {Event(f, ev) : f \in Fds \cup {Listen}, ev \in {"in", "out"}}
  /\ m \in [Fds -> Seq(Messages)]
  /\ edge \in BOOLEAN
  /\ AllClientsTypeOK

Init == TcpInit /\ ServerInit /\ AllClientsInit

(* A connection request reaches the listening socket: an edge. *)
Arrive(c) ==
  /\ alive
  /\ OpenAny(c)
  /\ edge' = TRUE
  /\ UNCHANGED <<alive, peer, interest, events, m>>

ClientStep(c) == StepAny(c) /\ UNCHANGED serverVars

ClientInterrupt(c) == InterruptAny(c) /\ UNCHANGED serverVars

Serve == ServerStep /\ UNCHANGED allClientVars

Stop == ServerInterrupt /\ UNCHANGED allClientVars

Next ==
  \/ \E c \in Clients : Arrive(c) \/ ClientStep(c) \/ ClientInterrupt(c)
  \/ Serve
  \/ Stop

(* Processes that can take a step take one; nobody must connect, and       *)
(* nobody must be interrupted.                                             *)
Fairness == WF_vars(Serve) /\ \A c \in Clients : WF_vars(ClientStep(c))

Spec == Init /\ [][Next]_vars /\ Fairness

-----------------------------------------------------------------------------

(* The answer the server holds for client c. *)
Kept(c) ==
  IF \E f \in Fds : peer[f] = c /\ interest[f] = "out"
  THEN m[CHOOSE f \in Fds : peer[f] = c /\ interest[f] = "out"]
  ELSE << >>

(* Whatever is under way between a client and the server. *)
UnderWay(c) == conn[c].rx["srv"] \o Kept(c) \o conn[c].rx["cli"]

(* A client that waits has exactly one message under way, the one it sent  *)
(* last -- never a message of the client that had the descriptor before,   *)
(* of another connection, or twice the same -- and one that does not wait  *)
(* has none.                                                               *)
OneInFlight ==
  \A c \in Clients :
    /\ Waiting(c) /\ ServerOpen(c) => UnderWay(c) = <<sent[c]>>
    /\ pc[c] \in {"hello", "reply", "asleep"} => UnderWay(c) = << >>

(* Every event the loop still has to handle is about the descriptor it was *)
(* reported for: closing and accepting in the same round never make one    *)
(* refer to another connection, or to none.                                *)
NoStaleEvent ==
  \A e \in events :
    IF e.fd = Listen THEN backlog # << >>
    ELSE /\ peer[e.fd] # NULL
         /\ interest[e.fd] = e.ev
         /\ e.ev = "in" => Readable(conn[peer[e.fd]], "srv")

(* No process is about to send on a connection that would raise SIGPIPE:   *)
(* send is called without MSG_NOSIGNAL and a signal would end the server.  *)
NoSigpipe ==
  /\ \A f \in Fds : interest[f] = "out" => ~SendKills(conn[peer[f]], "srv")
  /\ ClientsSafe

(* The end of a client that left reaches the loop, whenever it left -- in  *)
(* the accept queue, with a message unread, or while the answer to one was *)
(* kept: its descriptor is registered for EPOLLIN and readable, or for     *)
(* EPOLLOUT, whose answer goes nowhere and puts it back to EPOLLIN.        *)
EndIsSeen ==
  \A f \in Fds : peer[f] # NULL /\ pc[peer[f]] = "off" =>
    \/ interest[f] = "out"
    \/ interest[f] = "in" /\ Readable(conn[peer[f]], "srv")

(* No client waits for something nobody will look at: it can read itself,  *)
(* or its connection is still to be accepted, or it has a descriptor that  *)
(* is registered for what it is ready for, EPOLLOUT when the server owes   *)
(* it an answer and EPOLLIN when there is something to read.  Who sleeps   *)
(* for good misses nothing.                                                *)
NoLostWakeup ==
  /\ SleepsAfterEnd
  /\ \A c \in Clients : Waiting(c) =>
       \/ Readable(conn[c], "cli")
       \/ \E i \in 1..Len(backlog) : backlog[i] = c
       \/ \E f \in Fds :
            /\ peer[f] = c
            /\ \/ interest[f] = "out"
               \/ interest[f] = "in" /\ Readable(conn[c], "srv")

(* A client that was accepted gets an answer to every message.             *)
Answered ==
  \A c \in Clients :
    Accepted(c) /\ Waiting(c) ~> pc[c] \in {"reply", "off"} \/ ~alive

(* The descriptor of a client that left is closed.                         *)
Released ==
  \A c \in Clients : Accepted(c) /\ pc[c] = "off" ~> ~Accepted(c)

(* A client that connects and says hello gets an answer, as running        *)
(* several clients at once (README.md:58) supposes.                        *)
EveryoneServed ==
  \A c \in Clients : pc[c] = "first" ~> pc[c] \in {"reply", "off"} \/ ~alive

(* To each client the service is a conversation in turns with an echo.     *)
Talk(c) ==
  IF ~Waiting(c) THEN "client"
  ELSE IF conn[c].rx["cli"] # << >> THEN "answer"
  ELSE IF ServerOpen(c) THEN "server" ELSE "client"

Echo(text) == text

Service ==
  INSTANCE Conversations WITH
    Words <- ({"hello", "got your message"} \X {0})
               \cup ({"cnt"} \X (0..Wrap - 1)),
    Reply <- Echo,
    turn  <- [c \in Clients |-> Talk(c)],
    word  <- [c \in Clients |->
                IF Talk(c) = "client" THEN << >> ELSE UnderWay(c)]

ImplementsConversations == Service!Spec
=============================================================================
