----------------------------- MODULE AllClients -----------------------------
(***************************************************************************)
(* The clients README.md:58-67 of src/IO_Multiplexing runs together: any   *)
(* number of select, poll and epoll clients.                               *)
(***************************************************************************)
EXTENDS EpollClient, ReplyClient

ASSUME KindsAssumption ==
  /\ EpollClients \cup ReplyClients = Clients
  /\ EpollClients \cap ReplyClients = {}

allClientVars == <<clientVars, cnt>>

Messages ==
  {Hello(c) : c \in Clients} \cup {GotYourMessage(c) : c \in ReplyClients}
    \cup (EpollClients \X {"cnt"} \X (0..Wrap - 1))

AllClientsTypeOK ==
  /\ pc \in [Clients -> PCs]
  /\ sent \in [Clients -> Messages]
  /\ cnt \in [EpollClients -> 0..Wrap - 1]

AllClientsInit == ClientInit /\ EpollClientInit

OpenAny(c) ==
  \/ c \in ReplyClients /\ Open(c) /\ UNCHANGED cnt
  \/ c \in EpollClients /\ OpenEpoll(c)

StepAny(c) ==
  \/ c \in ReplyClients /\ ReplyStep(c) /\ UNCHANGED cnt
  \/ c \in EpollClients /\ EpollStep(c)

InterruptAny(c) == Interrupt(c) /\ UNCHANGED cnt

(* The server has not closed its end of the connection of c. *)
ServerOpen(c) == conn[c].st["srv"] \notin {"none", "closed"}

(* No client is about to send on a connection that would raise SIGPIPE. *)
ClientsSafe ==
  \A c \in Clients : pc[c] \in {"hello", "reply"} => ~SendKills(conn[c], "cli")

(* A client that waits for an event that will not come (the "break" of     *)
(* epoll/client.cpp:93) misses no answer: it was given all there was, and  *)
(* its server has closed the connection for good.                          *)
SleepsAfterEnd ==
  \A c \in Clients :
    pc[c] = "asleep" => ~ServerOpen(c) /\ conn[c].rx["cli"] = << >>
=============================================================================
