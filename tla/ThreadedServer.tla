--------------------------- MODULE ThreadedServer ---------------------------
(***************************************************************************)
(* 02_IO_Multiple.cpp and 03_select.cpp (the same program): one thread     *)
(* accepts connections and pushes their descriptors to fdList, another     *)
(* goes through fdList for ever, reads from each, and closes those it got  *)
(* a message from.  No entry is ever removed, and nothing is locked.       *)
(*                                                                         *)
(* 01_blockIO.cpp has the first thread only: it tries to read from a       *)
(* connection once, as soon as it is accepted, and closes it if there was  *)
(* a message.  program says which of the two runs.                         *)
(*                                                                         *)
(* Undefined behaviour is a choice.  A range taken during a push, or whose *)
(* memory a push has given back, is astray: its entries are any numbers,   *)
(* it ends anywhere, or the program crashes.  A compiler may read the      *)
(* bounds of an empty fdList once for all passes: the reader is lost then. *)
(***************************************************************************)
EXTENDS Tcp

CONSTANTS
  MaxFds,   \* descriptors the process may open for connections
  MaxList,  \* bound: pushes
  NULL

ASSUME ThreadedAssumption ==
  /\ MaxFds \in Nat \ {0}
  /\ MaxList \in Nat
  /\ NULL \notin Clients

VARIABLES
  program,   \* "thread" or "block"
  peer,      \* the client at the other end of each open descriptor
  nonblock,  \* the descriptors with O_NONBLOCK
  fdList,
  main,      \* "accept", "fcntl", "push" or "pushing"; "recv" and "close" in
             \* 01_blockIO.cpp
  got,       \* clientSocket of main
  reader,    \* "range", "next", "recv", "asleep", "close", "lost", "crashed"
  range,     \* the entries the pass has yet to look at
  astray,    \* they are not those of fdList any more
  fd,        \* the entry the pass is at
  from       \* the client whose message was read from it

listVars   == <<fdList, range, astray>>
mainVars   == <<main, got>>
readerVars == <<reader, fd, from>>
serverVars == <<program, peer, nonblock, listVars, mainVars, readerVars>>

Fds     == 1..MaxFds
Numbers == Fds \cup {-1}   \* -1 for every number that is no connection

ServerInit ==
  /\ program \in {"thread", "block"}
  /\ peer = [f \in Fds |-> NULL]
  /\ nonblock = {}
  /\ fdList = << >>
  /\ main = "accept"
  /\ got = -1
  /\ reader = "range"
  /\ range = << >>
  /\ astray = FALSE
  /\ fd = -1
  /\ from = NULL

Alive == reader # "crashed"

FreeFds    == {f \in Fds : peer[f] = NULL}
LowestFree == CHOOSE f \in FreeFds : \A g \in FreeFds : f <= g

MainGoes(at, to) == Alive /\ main = at /\ main' = to /\ UNCHANGED program

Accept ==
  /\ MainGoes("accept", "fcntl")
  /\ Len(fdList) < MaxList
  /\ FreeFds # {}
  /\ backlog # << >>
  /\ got' = LowestFree
  /\ peer' = [peer EXCEPT ![LowestFree] = Head(backlog)]
  /\ backlog' = Tail(backlog)
  /\ UNCHANGED <<conn, nonblock, listVars, readerVars>>

(* Mutant: make room by closing the oldest connection. *)
AcceptFailsEvicts ==
  /\ MainGoes("accept", "fcntl")
  /\ Len(fdList) < MaxList
  /\ FreeFds = {}
  /\ got' = -1
  /\ peer' = [peer EXCEPT ![1] = NULL]
  /\ conn' = [conn EXCEPT ![peer[1]] = AfterClose(@, "srv")]
  /\ nonblock' = nonblock \ {1}
  /\ UNCHANGED <<backlog, listVars, readerVars>>

(* Without a free descriptor accept fails at once; -1 is pushed as well. *)
AcceptFails ==
  /\ MainGoes("accept", "fcntl")
  /\ Len(fdList) < MaxList
  /\ FreeFds = {}
  /\ got' = -1
  /\ UNCHANGED <<tcpVars, peer, nonblock, listVars, readerVars>>

(* Mutant: the call sets no flag (F_SETFD for F_SETFL). *)
FcntlOther ==
  /\ MainGoes("fcntl", IF program = "thread" THEN "push" ELSE "recv")
  /\ UNCHANGED <<tcpVars, peer, nonblock, listVars, got, readerVars>>

(* The reader may have closed the descriptor already. *)
Fcntl ==
  /\ MainGoes("fcntl", IF program = "thread" THEN "push" ELSE "recv")
  /\ nonblock' = IF got \in Fds /\ peer[got] # NULL
                 THEN nonblock \cup {got} ELSE nonblock
  /\ UNCHANGED <<tcpVars, peer, listVars, got, readerVars>>

PushBegin ==
  /\ MainGoes("push", "pushing")
  /\ UNCHANGED <<tcpVars, peer, nonblock, listVars, got, readerVars>>

(* A vector with as many entries as its capacity, a power of two, moves.   *)
Full == \E k \in 0..Len(fdList) : Len(fdList) = 2^k

(* Mutant: the new number takes the place of the last one. *)
PushOverwrites ==
  /\ MainGoes("pushing", "accept")
  /\ fdList' = IF fdList = << >> THEN <<got>>
               ELSE [fdList EXCEPT ![Len(fdList)] = got]
  /\ UNCHANGED <<tcpVars, peer, nonblock, range, astray, got, readerVars>>

PushEnd ==
  /\ MainGoes("pushing", "accept")
  /\ fdList' = Append(fdList, got)
  /\ astray' = (astray \/ (Full /\ range # << >>))
  /\ UNCHANGED <<tcpVars, peer, nonblock, range, got, readerVars>>

OpenAt(f) == f \in Fds /\ peer[f] # NULL

(* 01_blockIO.cpp: the only look at the connection. *)
RecvOnce ==
  /\ MainGoes("recv", "close")
  /\ OpenAt(got)
  /\ Received(conn[peer[got]], "srv") # << >>
  /\ conn' = [conn EXCEPT ![peer[got]] = AfterRecv(@, "srv")]
  /\ from' = peer[got]
  /\ UNCHANGED <<backlog, peer, nonblock, listVars, got, reader, fd>>

(* Mutant: the socket is left blocking. *)
RecvOnceBlocks ==
  /\ MainGoes("recv", "accept")
  /\ OpenAt(got) => Received(conn[peer[got]], "srv") = << >>
                      /\ Readable(conn[peer[got]], "srv")
  /\ conn' = IF OpenAt(got)
             THEN [conn EXCEPT ![peer[got]] = AfterRecv(@, "srv")] ELSE conn
  /\ UNCHANGED <<backlog, peer, nonblock, listVars, got, readerVars>>

(* Nothing yet, or the client is gone, or accept had failed: the           *)
(* descriptor is not closed, and its number forgotten.                     *)
RecvOnceNothing ==
  /\ MainGoes("recv", "accept")
  /\ OpenAt(got) => Received(conn[peer[got]], "srv") = << >>
  /\ conn' = IF OpenAt(got) /\ Readable(conn[peer[got]], "srv")
             THEN [conn EXCEPT ![peer[got]] = AfterRecv(@, "srv")] ELSE conn
  /\ UNCHANGED <<backlog, peer, nonblock, listVars, got, readerVars>>

Closes(f) ==
  /\ peer' = [peer EXCEPT ![f] = NULL]
  /\ conn' = [conn EXCEPT ![peer[f]] = AfterClose(@, "srv")]
  /\ nonblock' = nonblock \ {f}
  /\ UNCHANGED backlog

CloseOnce ==
  /\ MainGoes("close", "accept")
  /\ Closes(got)
  /\ UNCHANGED <<listVars, got, readerVars>>

MainStep ==
  \/ Accept \/ AcceptFails \/ Fcntl \/ PushBegin \/ PushEnd
  \/ RecvOnce \/ RecvOnceNothing \/ CloseOnce

-----------------------------------------------------------------------------

ReaderGoes(at, to) ==
  program = "thread" /\ reader = at /\ reader' = to /\ UNCHANGED program

(* The bounds of a pass are read once, when it begins. *)
Pass ==
  /\ ReaderGoes("range", "next")
  /\ range' = fdList
  /\ astray' = (main = "pushing")
  /\ UNCHANGED <<tcpVars, peer, nonblock, fdList, mainVars, fd, from>>

Lost ==
  /\ ReaderGoes("range", "lost")
  /\ fdList = << >>
  /\ UNCHANGED <<tcpVars, peer, nonblock, listVars, mainVars, fd, from>>

Entry ==
  /\ ReaderGoes("next", "recv")
  /\ \/ ~astray /\ range # << >> /\ fd' = Head(range) /\ range' = Tail(range)
     \/ astray /\ fd' \in Numbers /\ range' = range
  /\ UNCHANGED <<tcpVars, peer, nonblock, fdList, astray, mainVars, from>>

EndOfPass ==
  /\ ReaderGoes("next", "range")
  /\ range = << >> \/ astray
  /\ range' = << >>
  /\ astray' = FALSE
  /\ UNCHANGED <<tcpVars, peer, nonblock, fdList, mainVars, fd, from>>

(* The whole process ends. *)
Crash ==
  /\ ReaderGoes("next", "crashed")
  /\ astray
  /\ peer' = [f \in Fds |-> NULL]
  /\ conn' = [c \in Clients |->
                IF conn[c].st["srv"] \in {"none", "closed"} THEN conn[c]
                ELSE AfterClose(conn[c], "srv")]
  /\ backlog' = << >>
  /\ UNCHANGED <<nonblock, listVars, mainVars, fd, from>>

Open == OpenAt(fd)

(* Nothing to read on a socket that blocks still: recv does not return,    *)
(* also when main makes the socket non-blocking meanwhile.                 *)
FallAsleep ==
  /\ ReaderGoes("recv", "asleep")
  /\ Open /\ fd \notin nonblock /\ ~Readable(conn[peer[fd]], "srv")
  /\ UNCHANGED <<tcpVars, peer, nonblock, listVars, mainVars, fd, from>>

(* recv, called or asleep, returns. *)
RecvReturns(to) == ReaderGoes("recv", to) \/ ReaderGoes("asleep", to)

(* A message is printed. *)
Recv ==
  /\ RecvReturns("close")
  /\ Open
  /\ Received(conn[peer[fd]], "srv") # << >>
  /\ conn' = [conn EXCEPT ![peer[fd]] = AfterRecv(@, "srv")]
  /\ from' = peer[fd]
  /\ UNCHANGED <<backlog, peer, nonblock, listVars, mainVars, fd>>

(* Mutant: the pass is left when there is nothing to read. *)
RecvNothingBreaks ==
  /\ ReaderGoes("recv", "range")
  /\ Open => /\ Received(conn[peer[fd]], "srv") = << >>
             /\ Readable(conn[peer[fd]], "srv") \/ fd \in nonblock
  /\ UNCHANGED <<tcpVars, peer, nonblock, listVars, mainVars, fd, from>>

(* The descriptor is closed, or would block, or its client is gone: recv   *)
(* returns -1 or 0 and nothing is done about it.                           *)
RecvNothing ==
  /\ RecvReturns("next")
  /\ Open => /\ Received(conn[peer[fd]], "srv") = << >>
             /\ \/ Readable(conn[peer[fd]], "srv")
                \/ reader = "recv" /\ fd \in nonblock
  /\ conn' = IF Open /\ Readable(conn[peer[fd]], "srv")
             THEN [conn EXCEPT ![peer[fd]] = AfterRecv(@, "srv")] ELSE conn
  /\ UNCHANGED <<backlog, peer, nonblock, listVars, mainVars, fd, from>>

(* The number stays in fdList; accept may give it to another client. *)
Close ==
  /\ ReaderGoes("close", "next")
  /\ Closes(fd)
  /\ UNCHANGED <<listVars, mainVars, fd, from>>

ReaderStep ==
  \/ Pass \/ Lost \/ Entry \/ EndOfPass \/ Crash
  \/ FallAsleep \/ Recv \/ RecvNothing \/ Close
=============================================================================
