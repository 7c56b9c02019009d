---------------------------- MODULE RoundService ----------------------------
(***************************************************************************)
(* The select server or the poll server of src/IO_Multiplexing with any    *)
(* mix of select, poll and epoll clients.                                  *)
(***************************************************************************)
EXTENDS RoundServer, AllClients

vars == <<tcpVars, serverVars, allClientVars>>

TypeOK ==
  /\ conn \in [Clients -> [st : [Ends -> States],
                           rx : [Ends -> Seq(Messages \cup {Welcome})]]]
  /\ backlog \in Seq(Clients)
  /\ program \in {"select", "poll"}
  /\ alive \in BOOLEAN
  /\ peer \in [Fds -> Clients \cup {NULL}]
  /\ watched \subseteq Fds
  /\ ready \subseteq Fds \cup {Listen}
  /\ answering \in Fds \cup {0}
  /\ AllClientsTypeOK

Init == TcpInit /\ ServerInit /\ AllClientsInit

Arrive(c) == alive /\ OpenAny(c) /\ UNCHANGED serverVars

ClientStep(c) == StepAny(c) /\ UNCHANGED serverVars

ClientInterrupt(c) == InterruptAny(c) /\ UNCHANGED serverVars

Serve == ServerStep /\ UNCHANGED allClientVars

Stop == Die /\ UNCHANGED allClientVars

Next ==
  \/ \E c \in Clients : Arrive(c) \/ ClientStep(c) \/ ClientInterrupt(c)
  \/ Serve
  \/ Stop

(* Processes that can take a step take one; nobody must connect, and       *)
(* nobody must be interrupted.                                             *)
Fairness == WF_vars(Serve) /\ \A c \in Clients : WF_vars(ClientStep(c))

Spec == Init /\ [][Next]_vars /\ Fairness

-----------------------------------------------------------------------------

(* The message of client c that was read and not yet answered. *)
Held(c) ==
  IF answering # 0 /\ peer[answering] = c THEN <<sent[c]>> ELSE << >>

UnderWay(c) == conn[c].rx["srv"] \o Held(c) \o conn[c].rx["cli"]

(* The descriptors the server asks for are those it has open, and every    *)
(* connection has exactly one or is in the accept queue: none is asked     *)
(* for, read or closed twice, and none forgotten, although descriptors are *)
(* closed and accepted in the same round.                                  *)
WatchesOpen ==
  /\ alive => \A c \in Clients :
       Cardinality({f \in Fds : peer[f] = c})
         + Cardinality({i \in 1..Len(backlog) : backlog[i] = c})
         = IF ServerOpen(c) THEN 1 ELSE 0
  /\ watched = {f \in Fds : peer[f] # NULL}
  /\ ready \ {Listen} \subseteq watched
  /\ answering # 0 => answering \in ready

(* A server that trusts select never waits in recv or accept: what it was  *)
(* told in this round still holds when it comes to it.  A poll server may  *)
(* wait in recv for a client it has just accepted, and for no other.       *)
ReadsWhatIsReady ==
  /\ Listen \in ready => backlog # << >>
  /\ \A f \in ready \ {Listen, answering} :
       \/ Readable(conn[peer[f]], "srv")
       \/ program = "poll" /\ pc[peer[f]] = "hello"

(* No client waits for something nobody will look at: it can read itself,  *)
(* or its connection is still to be accepted, or the server is about to    *)
(* answer it, or its descriptor is among those the next round asks for and *)
(* there is something to read.  Who sleeps for good misses nothing.        *)
NoLostWakeup ==
  /\ SleepsAfterEnd
  /\ \A c \in Clients : Waiting(c) =>
       \/ Readable(conn[c], "cli")
       \/ \E i \in 1..Len(backlog) : backlog[i] = c
       \/ \E f \in watched :
            peer[f] = c /\ (answering = f \/ Readable(conn[c], "srv"))

(* Each client that says hello gets an answer, and an answer to every      *)
(* later message, unless the server ends, and the connection with it, or   *)
(* the client is not accepted because every descriptor is taken.           *)
Served ==
  \A c \in Clients :
    Waiting(c) ~> \/ pc[c] \in {"reply", "off"}
                  \/ ~ServerOpen(c)
                  \/ FreeFds = {} /\ ~Accepted(c)

(* The descriptor of a client that left is closed.                         *)
Released ==
  \A c \in Clients : Accepted(c) /\ pc[c] = "off" ~> ~Accepted(c)

(* When the server is gone the select and poll clients leave.              *)
RepliersLeave == \A c \in ReplyClients : ~alive ~> pc[c] = "off"

(* To each client the service is a conversation in turns with a welcome    *)
(* for every message.                                                      *)
Talk(c) ==
  IF ~Waiting(c) THEN "client"
  ELSE IF conn[c].rx["cli"] # << >> THEN "answer"
  ELSE IF ServerOpen(c) THEN "server" ELSE "client"

Greeting(text) == <<Welcome>>

Service ==
  INSTANCE Conversations WITH
    Words <- ({"hello", "got your message"} \X {0})
               \cup ({"cnt"} \X (0..Wrap - 1)),
    Reply <- Greeting,
    turn  <- [c \in Clients |-> Talk(c)],
    word  <- [c \in Clients |->
                IF Talk(c) = "client" THEN << >> ELSE UnderWay(c)]

ImplementsConversations == Service!Spec
=============================================================================
