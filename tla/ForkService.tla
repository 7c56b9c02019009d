----------------------------- MODULE ForkService -----------------------------
(***************************************************************************)
(* fork_server with several fork_clients, or socket_server with several    *)
(* socket_clients (README.md:13-48 of src/IO_Multiplexing).  A client      *)
(* waits for the welcome, says hello to a fork_server, and leaves; it may  *)
(* be interrupted at any moment and run again, and so may the server.      *)
(***************************************************************************)
EXTENDS ForkServer

VARIABLE pc   \* "off", "recv" (waits for the welcome), "hello" or "close"

vars == <<tcpVars, serverVars, pc>>

Hello(c) == <<c, "hello", 0>>

TypeOK ==
  /\ conn \in [Clients -> [st : [Ends -> States],
                           rx : [srv : Seq({Hello(c) : c \in Clients}),
                                 cli : Seq({Welcome})]]]
  /\ backlog \in Seq(Clients)
  /\ program \in {"fork", "socket"}
  /\ proc \in [Procs -> ProcPCs]
  /\ hold \in [Procs -> Clients \cup {NULL}]
  /\ pc \in [Clients -> {"off", "recv", "hello", "close"}]

Init == TcpInit /\ ServerInit /\ pc = [c \in Clients |-> "off"]

Moves(c, from, to) == pc[c] = from /\ pc' = [pc EXCEPT ![c] = to]

Arrive(c) ==
  /\ proc[Root] # "none"
  /\ Moves(c, "off", "recv")
  /\ Connect(c)
  /\ UNCHANGED serverVars

(* The welcome is printed; if the server closed there is nothing to print. *)
GetWelcome(c) ==
  /\ Moves(c, "recv", Either("hello", "close"))
  /\ Readable(conn[c], "cli")
  /\ conn' = [conn EXCEPT ![c] = AfterRecv(@, "cli")]
  /\ UNCHANGED <<backlog, serverVars>>

SayHello(c) ==
  /\ Moves(c, "hello", "close")
  /\ conn' = [conn EXCEPT ![c] = AfterSend(@, "cli", <<Hello(c)>>)]
  /\ UNCHANGED <<backlog, serverVars>>

Leave(c) ==
  /\ pc' = [pc EXCEPT ![c] = "off"]
  /\ conn' = [conn EXCEPT ![c] = AfterClose(@, "cli")]
  /\ UNCHANGED <<backlog, serverVars>>

ClientStep(c) ==
  GetWelcome(c) \/ SayHello(c) \/ (pc[c] = "close" /\ Leave(c))

ClientInterrupt(c) == pc[c] # "off" /\ Leave(c)

Serve(p) == ProcStep(p) /\ UNCHANGED pc

Finish == CloseListenFd /\ UNCHANGED pc

Operator == (ServerInterrupt \/ ListenFd) /\ UNCHANGED pc

Next ==
  \/ \E c \in Clients : Arrive(c) \/ ClientStep(c) \/ ClientInterrupt(c)
  \/ \E p \in Procs : Serve(p)
  \/ Finish
  \/ Operator

(* Every process runs, and accept hands a connection to some copy.         *)
Fairness ==
  /\ \A p \in Procs : WF_vars(Serve(p))
  /\ WF_vars(Finish)
  /\ \A c \in Clients : WF_vars(ClientStep(c))

Spec == Init /\ [][Next]_vars /\ Fairness

-----------------------------------------------------------------------------

Queued(c) == \E i \in 1..Len(backlog) : backlog[i] = c

ServerOpen(c) == conn[c].st["srv"] \notin {"none", "closed"}

(* From accept to close a copy has a connection that is open, and outside  *)
(* that stretch it has none: send, recv and close are never called on what *)
(* another copy has ended in the meantime, nor on what the process has     *)
(* closed before, and no copy comes back to accept with a descriptor left. *)
CallsOnOpen ==
  \A p \in Procs :
    IF proc[p] \in {"fork", "welcome", "recv", "close"}
    THEN hold[p] # NULL /\ ServerOpen(hold[p])
    ELSE hold[p] = NULL

(* A connection is open at the server exactly while it is in the accept    *)
(* queue or some copy has a descriptor of it.  Two copies have one only    *)
(* between a fork and the parent's close: no copy accepts the connection   *)
(* of another one, and none is left open when all have gone on.            *)
SharedByPair ==
  \A c \in Clients :
    /\ ServerOpen(c) <=> Queued(c) \/ Holders(c) # {}
    /\ Queued(c) => Holders(c) = {}
    /\ Cardinality(Holders(c)) <= 2
    /\ Cardinality(Holders(c)) = 2 => \E p \in Holders(c) : proc[p] = "close"

(* A client that waits has exactly one welcome coming, although each copy  *)
(* serves the same queue, or its connection is about to be closed because  *)
(* fork failed: it is never welcomed twice, and never forgotten.           *)
Welcomers(c) == {p \in Holders(c) : proc[p] \in {"fork", "welcome"}}

OneWelcome ==
  \A c \in Clients :
    /\ pc[c] = "recv" /\ ServerOpen(c) =>
         \/ Cardinality(Welcomers(c)) + Len(conn[c].rx["cli"])
              + (IF Queued(c) THEN 1 ELSE 0) = 1
         \/ \E p \in Procs : Holders(c) = {p} /\ proc[p] = "close"
    /\ pc[c] \in {"hello", "close"} =>
         Welcomers(c) = {} /\ conn[c].rx["cli"] = << >>

(* A client that connects is welcomed or turned away: neither copies that  *)
(* wait for their own clients keep it waiting, nor a server that ended     *)
(* before its turn came.                                                   *)
Attended == \A c \in Clients : pc[c] = "recv" ~> pc[c] # "recv"

(* Every copy comes back to accept, and closes the connection it had.      *)
Released ==
  \A p \in Procs : hold[p] # NULL ~> hold[p] = NULL
=============================================================================
