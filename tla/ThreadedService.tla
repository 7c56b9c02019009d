-------------------------- MODULE ThreadedService --------------------------
(***************************************************************************)
(* The threaded server, or 01_blockIO.cpp, and its clients.  There is no   *)
(* client for them in the repository: a client connects, says something,   *)
(* and leaves when it likes.                                               *)
(***************************************************************************)
EXTENDS ThreadedServer

vars == <<tcpVars, serverVars>>

Hello == "hello"

TypeOK ==
  /\ conn \in [Clients -> [st : [Ends -> States], rx : [Ends -> {<< >>, <<Hello>>}]]]
  /\ backlog \in Seq(Clients)
  /\ program \in {"thread", "block"}
  /\ peer \in [Fds -> Clients \cup {NULL}]
  /\ nonblock \subseteq Fds
  /\ fdList \in Seq(Numbers)
  /\ main \in {"accept", "fcntl", "push", "pushing", "recv", "close"}
  /\ got \in Numbers
  /\ reader \in {"range", "next", "recv", "asleep", "close", "lost", "crashed"}
  /\ range \in Seq(Numbers)
  /\ astray \in BOOLEAN
  /\ fd \in Numbers
  /\ from \in Clients \cup {NULL}

Init == TcpInit /\ ServerInit

Arrive(c) == Alive /\ Connect(c) /\ UNCHANGED serverVars

Say(c) ==
  /\ conn[c].st["cli"] = "est"
  /\ conn[c].rx["srv"] = << >>
  /\ conn' = [conn EXCEPT ![c] = AfterSend(@, "cli", <<Hello>>)]
  /\ UNCHANGED <<backlog, serverVars>>

Leave(c) ==
  /\ conn[c].st["cli"] \notin {"none", "closed"}
  /\ conn' = [conn EXCEPT ![c] = AfterClose(@, "cli")]
  /\ UNCHANGED <<backlog, serverVars>>

Next ==
  \/ \E c \in Clients : Arrive(c) \/ Say(c) \/ Leave(c)
  \/ MainStep
  \/ ReaderStep

(* Both threads are scheduled; nobody must connect, speak or leave.  A pass *)
(* that went astray does not go on for ever: memory is finite.             *)
Fairness ==
  /\ WF_vars(MainStep)
  /\ WF_vars(ReaderStep)
  /\ SF_vars(EndOfPass \/ Crash)

Spec == Init /\ [][Next]_vars /\ Fairness

-----------------------------------------------------------------------------

Accepted(c) == \E f \in Fds : peer[f] = c
Queued(c)   == \E i \in 1..Len(backlog) : backlog[i] = c

(* A connection that is open is in the list, or main is about to push it:  *)
(* although numbers are given again and entries are never removed, the     *)
(* reader misses none.                                                     *)
Listed ==
  program = "thread" => \A f \in Fds :
    peer[f] # NULL => \/ \E i \in 1..Len(fdList) : fdList[i] = f
                      \/ f = got /\ main # "accept"

(* The connection a message came from is the one that is closed, whatever  *)
(* main does between recv and close, and also when the range of the reader *)
(* has gone astray.                                                        *)
ClosesWhatItRead ==
  /\ reader = "close" => fd \in Fds /\ peer[fd] = from
  /\ main = "close" => got \in Fds /\ peer[got] = from

(* recv can block in one place only: on the connection main has accepted   *)
(* and not yet made non-blocking, which the reader finds before it is      *)
(* pushed because the number was in fdList for an earlier connection, or   *)
(* because its pass went astray.  A number's first connection is never     *)
(* met while it blocks.  Who sleeps does so on an open connection: nobody  *)
(* closes it meanwhile, so its client can end the wait.                    *)
BlocksOnReused ==
  /\ reader = "recv" /\ Open /\ fd \notin nonblock =>
       /\ main = "fcntl" /\ got = fd
       /\ astray \/ \E i \in 1..Len(fdList) : fdList[i] = fd
  /\ reader = "asleep" => Open

(* A message on an accepted connection is read, unless the reader is lost, *)
(* the program crashed, or the reader sleeps for a client that is silent.  *)
Heard ==
  \A c \in Clients :
    program = "thread" /\ Accepted(c) /\ conn[c].rx["srv"] # << >>
      ~> conn[c].rx["srv"] = << >> \/ reader \in {"lost", "crashed", "asleep"}

(* 01_blockIO.cpp reads a message that comes before the connection is      *)
(* accepted, for which it needs a descriptor: those of the clients that    *)
(* spoke too late are never closed.                                        *)
HeardIfEarly ==
  \A c \in Clients :
    program = "block" /\ Queued(c) /\ conn[c].rx["srv"] # << >>
      ~> conn[c].rx["srv"] = << >> \/ FreeFds = {}
=============================================================================
