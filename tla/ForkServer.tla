----------------------------- MODULE ForkServer -----------------------------
(***************************************************************************)
(* fork/server.cpp: a process that accepts a connection and forks; the     *)
(* child welcomes the client and waits for its message, the parent closes  *)
(* its copy of the descriptor.  Both then go on in the same loop, so every *)
(* child accepts too: any copy of the server may get any connection.       *)
(*                                                                         *)
(* socket/server.cpp is the same without fork, loop and receive: it        *)
(* welcomes one client and ends.  program says which of the two runs.      *)
(***************************************************************************)
EXTENDS Tcp

CONSTANTS
  Procs,   \* the processes the system lets the server have
  Root,    \* the one that is started
  NULL

ASSUME ProcsAssumption == Root \in Procs /\ NULL \notin Clients

VARIABLES
  program, \* "fork" or "socket"
  proc,    \* where each process stands in the loop, "none" if there is none
  hold     \* the connection accept_fd of each process refers to

serverVars == <<program, proc, hold>>

ProcPCs == {"none", "accept", "fork", "welcome", "recv", "close", "leave"}
Welcome == <<"server", "welcome to join", 0>>

ServerInit ==
  /\ program \in {"fork", "socket"}
  /\ proc = [p \in Procs |-> IF p = Root THEN "accept" ELSE "none"]
  /\ hold = [p \in Procs |-> NULL]

Holders(c) == {p \in Procs : hold[p] = c}

Goes(p, from, to) ==
  proc[p] = from /\ proc' = [proc EXCEPT ![p] = to] /\ UNCHANGED program

Either(fork, socket) == IF program = "fork" THEN fork ELSE socket

(* The copies wait in accept for the same queue; one of them gets the      *)
(* connection.  A copy has two descriptors at most: accept does not fail.  *)
AcceptFd(p) ==
  /\ Goes(p, "accept", Either("fork", "welcome"))
  /\ backlog # << >>
  /\ hold' = [hold EXCEPT ![p] = Head(backlog)]
  /\ backlog' = Tail(backlog)
  /\ UNCHANGED conn

(* Mutant: the parent welcomes the client as well. *)
ForkBothWelcome(p) ==
  \E q \in Procs :
    /\ proc[p] = "fork"
    /\ proc[q] = "none"
    /\ proc' = [proc EXCEPT ![p] = "welcome", ![q] = "welcome"]
    /\ hold' = [hold EXCEPT ![q] = hold[p]]
    /\ UNCHANGED <<tcpVars, program>>

(* The child inherits the connection, ... *)
Fork(p) ==
  \E q \in Procs :
    /\ proc[p] = "fork"
    /\ proc[q] = "none"
    /\ proc' = [proc EXCEPT ![p] = "close", ![q] = "welcome"]
    /\ hold' = [hold EXCEPT ![q] = hold[p]]
    /\ UNCHANGED <<tcpVars, program>>

(* Mutant: after a failed fork the loop goes on without the close. *)
ForkFailsForgets(p) ==
  /\ Goes(p, "fork", "accept")
  /\ \A q \in Procs : proc[q] # "none"
  /\ UNCHANGED <<tcpVars, hold>>

(* ... or fork fails, and the connection is closed without a word. *)
ForkFails(p) ==
  /\ Goes(p, "fork", "close")
  /\ \A q \in Procs : proc[q] # "none"
  /\ UNCHANGED <<tcpVars, hold>>

SendWelcome(p) ==
  /\ Goes(p, "welcome", Either("recv", "close"))
  /\ conn' = [conn EXCEPT ![hold[p]] = AfterSend(@, "srv", <<Welcome>>)]
  /\ UNCHANGED <<backlog, hold>>

(* Mutant: the child goes on waiting when its client left in silence. *)
ReceiveDataOnly(p) ==
  /\ Goes(p, "recv", "close")
  /\ Received(conn[hold[p]], "srv") # << >>
  /\ conn' = [conn EXCEPT ![hold[p]] = AfterRecv(@, "srv")]
  /\ UNCHANGED <<backlog, hold>>

(* A message or the end of the stream; the child waits for one. *)
PrintReceiveMessage(p) ==
  /\ Goes(p, "recv", "close")
  /\ Readable(conn[hold[p]], "srv")
  /\ conn' = [conn EXCEPT ![hold[p]] = AfterRecv(@, "srv")]
  /\ UNCHANGED <<backlog, hold>>

(* Mutant: the parent keeps its copy of the descriptor. *)
CloseInChildOnly(p) ==
  /\ Goes(p, "close", "accept")
  /\ IF p = Root THEN UNCHANGED <<conn, hold>>
     ELSE /\ hold' = [hold EXCEPT ![p] = NULL]
          /\ conn' = [conn EXCEPT ![hold[p]] =
                        IF Holders(hold[p]) = {p} THEN AfterClose(@, "srv") ELSE @]
  /\ UNCHANGED backlog

(* Mutant: shutdown and close, which ends the connection for every copy. *)
CloseShutsDown(p) ==
  /\ Goes(p, "close", Either("accept", "leave"))
  /\ conn' = [conn EXCEPT ![hold[p]] = AfterClose(@, "srv")]
  /\ hold' = [hold EXCEPT ![p] = NULL]
  /\ UNCHANGED backlog

(* The connection ends with the last descriptor of it. *)
Close(p) ==
  /\ Goes(p, "close", Either("accept", "leave"))
  /\ conn' = [conn EXCEPT ![hold[p]] =
                IF Holders(hold[p]) = {p} THEN AfterClose(@, "srv") ELSE @]
  /\ hold' = [hold EXCEPT ![p] = NULL]
  /\ UNCHANGED backlog

ProcStep(p) ==
  \/ AcceptFd(p)
  \/ Fork(p)
  \/ ForkFails(p)
  \/ SendWelcome(p)
  \/ PrintReceiveMessage(p)
  \/ Close(p)

(* No process is left.  Connections nobody accepted are reset. *)
AllEnd ==
  LET end(c) == AfterClose(conn[c], "srv")
  IN  /\ proc' = [p \in Procs |-> "none"]
      /\ hold' = [p \in Procs |-> NULL]
      /\ backlog' = << >>
      /\ conn' = [c \in Clients |->
                    IF conn[c].st["srv"] \in {"none", "closed"} THEN conn[c]
                    ELSE IF Holders(c) # {} \/ end(c).st["cli"] # "fin" THEN end(c)
                    ELSE [end(c) EXCEPT !.st["cli"] = "reset"]]
      /\ UNCHANGED program

(* socket/server.cpp closes its listening socket and is done. *)
CloseListenFd == proc[Root] = "leave" /\ AllEnd

(* Ctrl+C ends every copy: they are one process group. *)
ServerInterrupt == proc[Root] # "none" /\ AllEnd

(* The server is run again: SO_REUSEADDR lets it listen on its port while  *)
(* connections of the last run are still around.                           *)
ListenFd ==
  /\ proc[Root] = "none"
  /\ proc' = [proc EXCEPT ![Root] = "accept"]
  /\ UNCHANGED <<tcpVars, program, hold>>
=============================================================================
