----------------------------- MODULE ForkProofs -----------------------------
(***************************************************************************)
(* What holds of fork_server and socket_server for any number of clients   *)
(* and of copies of the server: types, that a copy has an open connection  *)
(* from accept to close and none at other times, that two copies share one *)
(* at most and only until the parent's close, and that a client is         *)
(* welcomed once.                                                          *)
(***************************************************************************)
EXTENDS ForkService, FiniteSetTheorems, SequenceTheorems, TLAPS

Hellos      == {Hello(c) : c \in Clients}
Connections == [st : [Ends -> States], rx : [srv : Seq(Hellos), cli : Seq({Welcome})]]

(* TypeOK with a name for the type of a connection. *)
Types ==
  /\ conn \in [Clients -> Connections]
  /\ backlog \in Seq(Clients)
  /\ program \in {"fork", "socket"}
  /\ proc \in [Procs -> ProcPCs]
  /\ hold \in [Procs -> Clients \cup {NULL}]
  /\ pc \in [Clients -> {"off", "recv", "hello", "close"}]

(* What the two ends know of each other: a connection one end closed is    *)
(* gone at the other one, and gone for both when both closed it.           *)
Gone == {"fin", "reset", "broken"}

Link(k) ==
  \/ k = NoConn
  \/ k.st["srv"] = "est" /\ k.st["cli"] = "est"
  \/ k.st["srv"] = "closed" /\ k.st["cli"] \in Gone
  \/ k.st["srv"] \in Gone /\ k.st["cli"] = "closed"

Linked ==
  \A c \in Clients :
    /\ Link(conn[c])
    /\ pc[c] = "off" <=> conn[c].st["cli"] \in {"none", "closed"}

(* Who has a connection, and who shares it: the copy that accepted it is   *)
(* alone until it forks, and then one of the two is at its close.          *)
Holding ==
  /\ \A p \in Procs : hold[p] = NULL <=> proc[p] \in {"none", "accept", "leave"}
  /\ \A p, q, r \in Procs :
       hold[p] # NULL /\ hold[p] = hold[q] /\ hold[q] = hold[r] =>
         p = q \/ q = r \/ p = r
  /\ \A p, q \in Procs :
       hold[p] # NULL /\ hold[p] = hold[q] /\ p # q =>
         /\ proc[p] # "fork"
         /\ proc[p] = "close" \/ proc[q] = "close"

Once == \A i, j \in 1..Len(backlog) : backlog[i] = backlog[j] => i = j

OpenOrNot ==
  \A c \in Clients :
    /\ ServerOpen(c) <=> Queued(c) \/ \E p \in Procs : hold[p] = c
    /\ Queued(c) => \A p \in Procs : hold[p] # c

(* The welcome a client waits for is in one place: the accept queue, the   *)
(* copy that has the connection, or the stream.  If it is nowhere, the     *)
(* only copy that has the connection is about to close it.                 *)
Welcomes(p, c) == hold[p] = c /\ proc[p] \in {"fork", "welcome"}

Awaits(c) ==
  \/ Queued(c) /\ conn[c].rx["cli"] = << >>
  \/ (\E p \in Procs : Welcomes(p, c)) /\ conn[c].rx["cli"] = << >>
  \/ /\ \A p \in Procs : ~Welcomes(p, c)
     /\ ~Queued(c)
     /\ conn[c].rx["cli"] = <<Welcome>>
  \/ \E p \in Procs : proc[p] = "close" /\ \A q \in Procs : hold[q] = c <=> q = p

Greeted(c) ==
  /\ \A p \in Procs : ~Welcomes(p, c)
  /\ ~Queued(c)
  /\ conn[c].rx["cli"] = << >>

Welcomed(c) ==
  /\ pc[c] = "recv" /\ ServerOpen(c) => Awaits(c)
  /\ pc[c] \in {"hello", "close"} => Greeted(c)

Greeting == \A c \in Clients : Welcomed(c)

IInv == Types /\ Linked /\ Holding /\ Once /\ OpenOrNot /\ Greeting

-----------------------------------------------------------------------------
(* The calls on one connection *)

(* No connection and a new one are connections whose ends agree.           *)
LEMMA NewTyped == NoConn \in Connections /\ NewConn \in Connections
BY EmptySeq DEF NoConn, NewConn, Both, Connections, Ends, States

(* recv empties one end of a connection; one that was reset is broken from *)
(* then on.                                                                *)
LEMMA RecvResult ==
  ASSUME NEW k \in Connections, Link(k), NEW e \in Ends
  PROVE  /\ AfterRecv(k, e) \in Connections
         /\ Link(AfterRecv(k, e))
         /\ AfterRecv(k, e).rx[e] = << >>
         /\ AfterRecv(k, e).rx[Other(e)] = k.rx[Other(e)]
         /\ AfterRecv(k, e).st[Other(e)] = k.st[Other(e)]
         /\ k.st[e] \notin Gone => AfterRecv(k, e).st[e] = k.st[e]
         /\ k.st[e] \in Gone => AfterRecv(k, e).st[e] \in Gone
<1> DEFINE a == AfterRecv(k, e)
<1>1. a \in Connections
  BY EmptySeq DEF AfterRecv, Connections, Ends, States
<1>2. /\ a.rx[e] = << >>
      /\ a.rx[Other(e)] = k.rx[Other(e)]
      /\ a.st[Other(e)] = k.st[Other(e)]
      /\ a.st[e] = k.st[e] \/ (k.st[e] \in Gone /\ a.st[e] \in Gone)
  <2>1. CASE e = "srv"
    BY <2>1 DEF AfterRecv, Connections, Ends, Other, Gone
  <2>2. CASE e = "cli"
    BY <2>2 DEF AfterRecv, Connections, Ends, Other, Gone
  <2> QED BY <2>1, <2>2 DEF Ends
<1>3. k = NoConn => a = NoConn
  BY DEF AfterRecv, NoConn, Both, Ends
<1>4. Link(a)
  BY <1>2, <1>3 DEF Link, Gone, Ends, Other
<1> QED BY <1>1, <1>2, <1>4

(* The welcome reaches a client that waits and is still there.             *)
LEMMA WelcomeResult ==
  ASSUME NEW k \in Connections, Link(k), k.st["srv"] \notin {"none", "closed"},
         NEW s, s = AfterSend(k, "srv", <<Welcome>>)
  PROVE  /\ s \in Connections
         /\ Link(s)
         /\ s.st["cli"] = k.st["cli"]
         /\ s.st["srv"] \notin {"none", "closed"}
         /\ k.st["cli"] = "est" /\ k.rx["cli"] = << >> => s.rx["cli"] = <<Welcome>>
<1>1. k.rx["cli"] \o <<Welcome>> \in Seq({Welcome}) /\ << >> \o <<Welcome>> = <<Welcome>>
  BY ConcatProperties DEF Connections
<1>2. s \in Connections
  BY <1>1 DEF AfterSend, Connections, Other, Ends, States
<1>3. /\ s.st["cli"] = k.st["cli"]
      /\ IF k.st["srv"] = "est" THEN /\ s.st["srv"] = "est"
                                    /\ s.rx["cli"] = k.rx["cli"] \o <<Welcome>>
                               ELSE s.st["srv"] = "broken"
  BY DEF AfterSend, Connections, Other, Ends, States
<1>4. k # NoConn
  BY DEF NoConn, Both
<1> QED BY <1>1, <1>2, <1>3, <1>4 DEF Link, Gone

(* A hello changes nothing of what the client has to read.                 *)
LEMMA HelloResult ==
  ASSUME NEW k \in Connections, Link(k), k.st["cli"] \notin {"none", "closed"},
         NEW c \in Clients, NEW s, s = AfterSend(k, "cli", <<Hello(c)>>)
  PROVE  /\ s \in Connections
         /\ Link(s)
         /\ s.st["srv"] = k.st["srv"]
         /\ s.st["cli"] \notin {"none", "closed"}
         /\ s.rx["cli"] = k.rx["cli"]
<1>1. k.rx["srv"] \o <<Hello(c)>> \in Seq(Hellos)
  BY ConcatProperties DEF Connections, Hellos
<1>2. s \in Connections
  BY <1>1 DEF AfterSend, Connections, Other, Ends, States
<1>3. /\ s.st["srv"] = k.st["srv"]
      /\ s.rx["cli"] = k.rx["cli"]
      /\ s.st["cli"] = IF k.st["cli"] = "est" THEN "est" ELSE "broken"
  BY DEF AfterSend, Connections, Other, Ends, States
<1>4. k # NoConn
  BY DEF NoConn, Both
<1> QED BY <1>2, <1>3, <1>4 DEF Link, Gone

(* close leaves the end or the reset at the other side, and nothing when   *)
(* that side had closed before.                                            *)
LEMMA CloseResult ==
  ASSUME NEW k \in Connections, Link(k), NEW e \in Ends, k.st[e] \notin {"none", "closed"}
  PROVE  /\ AfterClose(k, e) \in Connections
         /\ Link(AfterClose(k, e))
         /\ AfterClose(k, e).st[e] \in {"none", "closed"}
         /\ AfterClose(k, e).st[Other(e)] \in {"none", "closed"}
              <=> k.st[Other(e)] \in {"none", "closed"}
         /\ k.st[Other(e)] # "closed" => AfterClose(k, e).rx[Other(e)] = k.rx[Other(e)]
<1> DEFINE a == AfterClose(k, e)
           o == Other(e)
<1>1. o \in Ends /\ o # e /\ \A x \in Ends : x = e \/ x = o
  BY DEF Other, Ends
<1>2. CASE k.st[o] = "closed"
  <2>1. a = NoConn
    BY <1>2 DEF AfterClose
  <2>2. \A x \in Ends : NoConn.st[x] = "none"
    BY DEF NoConn, Both, Ends
  <2> QED BY <1>1, <1>2, <2>1, <2>2, NewTyped DEF Link
<1>3. CASE k.st[o] # "closed"
  <2>1. k.st[e] = "est" /\ k.st[o] = "est"
    BY <1>3 DEF Link, NoConn, Both, Gone, Ends, Other
  <2> DEFINE st == [k.st EXCEPT ![e] = "closed",
                                ![o] = IF k.rx[e] = << >> THEN "fin" ELSE "reset"]
             rx == [k.rx EXCEPT ![e] = << >>]
  <2>2. k.st \in [Ends -> States] /\ k.rx \in [srv : Seq(Hellos), cli : Seq({Welcome})]
    BY DEF Connections
  <2>3. a = [st |-> st, rx |-> rx]
    BY <1>1, <1>3, <2>1 DEF AfterClose, Connections
  <2>4. st \in [Ends -> States] /\ st[e] = "closed" /\ st[o] \in {"fin", "reset"}
    BY <1>1, <2>2 DEF States
  <2>5. rx \in [srv : Seq(Hellos), cli : Seq({Welcome})] /\ rx[o] = k.rx[o]
    <3>1. CASE e = "srv" /\ o = "cli"
      BY <2>2, <3>1, EmptySeq
    <3>2. CASE e = "cli" /\ o = "srv"
      BY <2>2, <3>2, EmptySeq
    <3> QED BY <1>1, <3>1, <3>2 DEF Ends
  <2> HIDE DEF st, rx
  <2>6. a \in Connections /\ a.st[e] = "closed" /\ a.st[o] \in Gone /\ a.rx[o] = k.rx[o]
    BY <2>3, <2>4, <2>5 DEF Connections, Gone
  <2>7. Link(a)
    BY <2>6 DEF Link, Ends, Other
  <2> QED BY <2>1, <2>6, <2>7 DEF Gone
<1> QED BY <1>2, <1>3

(* A connection nobody accepted is reset when the server ends. *)
LEMMA EndResult ==
  ASSUME NEW k \in Connections, Link(k), k.st["srv"] \notin {"none", "closed"},
         NEW s, s = [AfterClose(k, "srv") EXCEPT !.st["cli"] = "reset"],
         AfterClose(k, "srv").st["cli"] = "fin"
  PROVE  /\ s \in Connections
         /\ Link(s)
         /\ s.st["srv"] \in {"none", "closed"}
         /\ s.st["cli"] \in {"none", "closed"} <=> k.st["cli"] \in {"none", "closed"}
         /\ k.st["cli"] # "closed" => s.rx["cli"] = k.rx["cli"]
<1> DEFINE a == AfterClose(k, "srv")
<1>1. /\ a \in Connections
      /\ Link(a)
      /\ a.st["cli"] \in {"none", "closed"} <=> k.st["cli"] \in {"none", "closed"}
      /\ k.st["cli"] # "closed" => a.rx["cli"] = k.rx["cli"]
  BY CloseResult DEF Ends, Other
<1> HIDE DEF a
<1>2. /\ s \in Connections
      /\ s.st["srv"] = a.st["srv"] /\ s.st["cli"] = "reset" /\ s.rx = a.rx
  BY <1>1 DEF Connections, Ends, States, a
<1>3. a # NoConn /\ a.st["cli"] = "fin"
  BY DEF NoConn, Both, a
<1> QED BY <1>1, <1>2, <1>3 DEF Link, Gone

-----------------------------------------------------------------------------
(* The accept queue *)

(* A client that connects is in the accept queue, behind the others.       *)
LEMMA QueueGrows ==
  ASSUME backlog \in Seq(Clients), NEW c \in Clients, backlog' = Append(backlog, c)
  PROVE  /\ backlog' \in Seq(Clients)
         /\ \A d \in Clients : Queued(d)' <=> Queued(d) \/ d = c
         /\ Once /\ ~Queued(c) => Once'
<1>1. /\ backlog' \in Seq(Clients) /\ Len(backlog) \in Nat
      /\ Len(backlog') = Len(backlog) + 1
      /\ \A i \in 1..Len(backlog) : backlog'[i] = backlog[i]
      /\ backlog'[Len(backlog) + 1] = c
  BY AppendProperties, LenProperties
<1>2. \A d \in Clients : Queued(d)' <=> Queued(d) \/ d = c
  BY <1>1 DEF Queued
<1>3. ASSUME Once, ~Queued(c) PROVE Once'
  BY <1>1, <1>3 DEF Once, Queued
<1> QED BY <1>1, <1>2, <1>3

(* accept takes the first connection of the queue and leaves the others.   *)
LEMMA QueueShrinks ==
  ASSUME backlog \in Seq(Clients), Once, backlog # << >>, backlog' = Tail(backlog)
  PROVE  /\ backlog' \in Seq(Clients)
         /\ Head(backlog) \in Clients
         /\ Queued(Head(backlog))
         /\ \A d \in Clients : Queued(d)' <=> Queued(d) /\ d # Head(backlog)
         /\ Once'
<1>1. /\ backlog' \in Seq(Clients) /\ Head(backlog) \in Clients
      /\ Len(backlog) \in Nat /\ Len(backlog) > 0
      /\ Len(backlog') = Len(backlog) - 1
      /\ \A i \in 1..Len(backlog') : backlog'[i] = backlog[i + 1]
      /\ Head(backlog) = backlog[1]
  BY HeadTailProperties, LenProperties, EmptySeq
<1>2. Queued(Head(backlog))
  BY <1>1 DEF Queued
<1>3. ASSUME NEW d \in Clients
      PROVE  Queued(d)' <=> Queued(d) /\ d # Head(backlog)
  <2>1. ASSUME Queued(d)' PROVE Queued(d) /\ d # Head(backlog)
    BY <1>1, <2>1 DEF Queued, Once
  <2>2. ASSUME Queued(d), d # Head(backlog) PROVE Queued(d)'
    <3>1. PICK i \in 1..Len(backlog) : backlog[i] = d
      BY <2>2 DEF Queued
    <3>2. i - 1 \in 1..Len(backlog') /\ backlog'[i - 1] = d
      BY <1>1, <2>2, <3>1
    <3> QED BY <3>2 DEF Queued
  <2> QED BY <2>1, <2>2
<1>4. Once'
  BY <1>1 DEF Once
<1> QED BY <1>1, <1>2, <1>3, <1>4

(* Without a listening socket nobody is queued.                            *)
LEMMA QueueEmpties ==
  ASSUME backlog' = << >>
  PROVE  backlog' \in Seq(Clients) /\ (\A d \in Clients : ~Queued(d)') /\ Once'
<1>1. Len(backlog') = 0 /\ backlog' \in Seq(Clients)
  BY EmptySeq
<1> QED BY <1>1 DEF Queued, Once

-----------------------------------------------------------------------------
(* Types *)

(* The types named here are those of TypeOK.                               *)
LEMMA TypesAreTypes == TypeOK <=> Types
BY Zenon DEF TypeOK, Types, Connections, Hellos

(* Who has a connection is past its accept, and that connection is open.   *)
LEMMA HeldIsOpen ==
  ASSUME IInv, NEW p \in Procs, proc[p] \in {"fork", "welcome", "recv", "close"}
  PROVE  /\ hold[p] \in Clients
         /\ ServerOpen(hold[p])
         /\ ~Queued(hold[p])
BY DEF IInv, Types, Holding, OpenOrNot

(* The invariant holds before anything was started.                        *)
LEMMA InitHolds == Init => IInv
<1> SUFFICES ASSUME Init PROVE IInv
  OBVIOUS
<1> USE DEF Init, TcpInit, ServerInit
<1>1. Types
  BY NewTyped, EmptySeq, ProcsAssumption DEF Types, ProcPCs
<1>2. Linked
  BY DEF Linked, Link, NoConn, Both
<1>3. Holding
  BY DEF Holding
<1>4. Once /\ \A c \in Clients : ~Queued(c)
  BY EmptySeq DEF Once, Queued
<1>5. OpenOrNot
  BY <1>4, ProcsAssumption DEF OpenOrNot, ServerOpen, NoConn, Both
<1>6. Greeting
  BY DEF Greeting, Welcomed
<1> QED BY <1>1, <1>2, <1>3, <1>4, <1>5, <1>6 DEF IInv

(* Types and links, steps of a client.                                     *)
LEMMA ClientKeepsTypes ==
  ASSUME IInv, NEW c \in Clients, Arrive(c) \/ ClientStep(c) \/ ClientInterrupt(c)
  PROVE  Types' /\ Linked'
<1> USE DEF IInv, serverVars
<1>0. conn[c] \in Connections /\ Link(conn[c]) /\ "cli" \in Ends /\ Other("cli") = "srv"
  BY DEF Types, Linked, Ends, Other
<1>1. CASE Arrive(c)
  <2>1. backlog' \in Seq(Clients)
    BY <1>1, QueueGrows DEF Types, Arrive, Connect
  <2>2. Link(NewConn) /\ NewConn.st["cli"] = "est"
    BY DEF Link, NewConn, Both
  <2> QED BY <1>1, <2>1, <2>2, NewTyped DEF Arrive, Connect, Moves, Types, Linked
<1>2. CASE GetWelcome(c)
  <2> DEFINE k == AfterRecv(conn[c], "cli")
  <2>1. conn[c].st["cli"] \notin {"none", "closed"}
    BY <1>2 DEF GetWelcome, Moves, Linked, Types
  <2>2. k \in Connections /\ Link(k) /\ k.st["cli"] \notin {"none", "closed"}
    BY <1>0, <2>1, RecvResult DEF Gone
  <2> HIDE DEF k
  <2>3. conn' = [conn EXCEPT ![c] = k] /\ pc' \in {[pc EXCEPT ![c] = "hello"], [pc EXCEPT ![c] = "close"]}
    BY <1>2 DEF GetWelcome, Moves, Either, k
  <2> QED BY <1>2, <2>2, <2>3 DEF GetWelcome, Types, Linked
<1>3. CASE SayHello(c)
  <2> DEFINE k == AfterSend(conn[c], "cli", <<Hello(c)>>)
  <2>1. conn[c].st["cli"] \notin {"none", "closed"}
    BY <1>3 DEF SayHello, Moves, Linked, Types
  <2>2. k \in Connections /\ Link(k) /\ k.st["cli"] \notin {"none", "closed"}
    BY <1>0, <2>1, HelloResult
  <2> HIDE DEF k
  <2>3. conn' = [conn EXCEPT ![c] = k]
    BY <1>3 DEF SayHello, k
  <2> QED BY <1>3, <2>2, <2>3 DEF SayHello, Moves, Types, Linked
<1>4. CASE pc[c] # "off" /\ Leave(c)
  <2> DEFINE k == AfterClose(conn[c], "cli")
  <2>1. conn[c].st["cli"] \notin {"none", "closed"}
    BY <1>4 DEF Linked, Types
  <2>2. k \in Connections /\ Link(k) /\ k.st["cli"] \in {"none", "closed"}
    BY <1>0, <2>1, CloseResult
  <2> HIDE DEF k
  <2>3. conn' = [conn EXCEPT ![c] = k]
    BY <1>4 DEF Leave, k
  <2> QED BY <1>4, <2>2, <2>3 DEF Leave, Types, Linked
<1> QED BY <1>1, <1>2, <1>3, <1>4 DEF ClientStep, ClientInterrupt

(* A call on one connection of the server keeps the types and the links    *)
(* when it leaves the client its end.                                      *)
LEMMA OneServed ==
  ASSUME Types, Linked, NEW c \in Clients, NEW k \in Connections, Link(k),
         k.st["cli"] \in {"none", "closed"} <=> conn[c].st["cli"] \in {"none", "closed"},
         conn' = [conn EXCEPT ![c] = k],
         UNCHANGED <<backlog, program, pc>>,
         proc' \in [Procs -> ProcPCs], hold' \in [Procs -> Clients \cup {NULL}]
  PROVE  Types' /\ Linked'
<1>1. conn' \in [Clients -> Connections]
  BY DEF Types
<1>2. Types'
  BY <1>1 DEF Types
<1>3. conn'[c] = k /\ \A d \in Clients : d # c => conn'[d] = conn[d]
  BY DEF Types
<1> QED BY <1>2, <1>3 DEF Linked

(* Types and links, steps of a copy of the server.                         *)
LEMMA CopyKeepsTypes ==
  ASSUME IInv, NEW p \in Procs, Serve(p)
  PROVE  Types' /\ Linked'
<1> USE DEF IInv
<1>0. /\ "srv" \in Ends /\ Other("srv") = "cli"
      /\ proc \in [Procs -> ProcPCs] /\ hold \in [Procs -> Clients \cup {NULL}]
  BY DEF Ends, Other, Types
<1>1. CASE AcceptFd(p)
  <2>1. backlog' \in Seq(Clients) /\ Head(backlog) \in Clients
    BY <1>1, QueueShrinks DEF Types, AcceptFd
  <2> QED BY <1>1, <2>1 DEF Serve, AcceptFd, Goes, ProcPCs, Either, Types, Linked
<1>2. CASE Fork(p) \/ ForkFails(p)
  BY <1>2 DEF Serve, Fork, ForkFails, Goes, ProcPCs, tcpVars, Types, Linked
<1>3. CASE SendWelcome(p)
  <2> DEFINE c == hold[p]
             k == AfterSend(conn[c], "srv", <<Welcome>>)
  <2>1. c \in Clients /\ ServerOpen(c) /\ conn[c] \in Connections /\ Link(conn[c])
    BY <1>3, HeldIsOpen DEF SendWelcome, Goes, Types, Linked
  <2>2. k \in Connections /\ Link(k) /\ k.st["cli"] = conn[c].st["cli"]
    BY <2>1, WelcomeResult DEF ServerOpen
  <2>3. conn' = [conn EXCEPT ![c] = k]
    BY <1>3 DEF SendWelcome
  <2>4. /\ UNCHANGED <<backlog, program, pc, hold>>
        /\ proc' \in [Procs -> ProcPCs]
    BY <1>0, <1>3 DEF Serve, SendWelcome, Goes, Either, ProcPCs
  <2> HIDE DEF k, c
  <2> QED BY <1>0, <2>1, <2>2, <2>3, <2>4, OneServed
<1>4. CASE PrintReceiveMessage(p)
  <2> DEFINE c == hold[p]
             k == AfterRecv(conn[c], "srv")
  <2>1. c \in Clients /\ conn[c] \in Connections /\ Link(conn[c])
    BY <1>4, HeldIsOpen DEF PrintReceiveMessage, Goes, Types, Linked
  <2>2. k \in Connections /\ Link(k) /\ k.st["cli"] = conn[c].st["cli"]
    BY <1>0, <2>1, RecvResult
  <2>3. conn' = [conn EXCEPT ![c] = k]
    BY <1>4 DEF PrintReceiveMessage
  <2>4. /\ UNCHANGED <<backlog, program, pc, hold>>
        /\ proc' \in [Procs -> ProcPCs]
    BY <1>0, <1>4 DEF Serve, PrintReceiveMessage, Goes, ProcPCs
  <2> HIDE DEF k, c
  <2> QED BY <1>0, <2>1, <2>2, <2>3, <2>4, OneServed
<1>5. CASE Close(p)
  <2> DEFINE c == hold[p]
             k == AfterClose(conn[c], "srv")
  <2>1. c \in Clients /\ ServerOpen(c) /\ conn[c] \in Connections /\ Link(conn[c])
    BY <1>5, HeldIsOpen DEF Close, Goes, Types, Linked
  <2>2. /\ k \in Connections /\ Link(k)
        /\ k.st["cli"] \in {"none", "closed"} <=> conn[c].st["cli"] \in {"none", "closed"}
    BY <1>0, <2>1, CloseResult DEF ServerOpen
  <2>3. conn' = [conn EXCEPT ![c] = k] \/ conn' = [conn EXCEPT ![c] = conn[c]]
    BY <1>5 DEF Close
  <2>4. /\ UNCHANGED <<backlog, program, pc>>
        /\ proc' \in [Procs -> ProcPCs] /\ hold' \in [Procs -> Clients \cup {NULL}]
    BY <1>0, <1>5 DEF Serve, Close, Goes, Either, ProcPCs
  <2> HIDE DEF k, c
  <2> QED BY <1>0, <2>1, <2>2, <2>3, <2>4, OneServed
<1> QED BY <1>1, <1>2, <1>3, <1>4, <1>5 DEF Serve, ProcStep

(* What the end of the server leaves of a connection. *)
LEMMA EndOfOne ==
  ASSUME IInv, AllEnd, NEW c \in Clients
  PROVE  /\ conn'[c] \in Connections
         /\ Link(conn'[c])
         /\ conn'[c].st["srv"] \in {"none", "closed"}
         /\ conn'[c].st["cli"] \in {"none", "closed"}
              <=> conn[c].st["cli"] \in {"none", "closed"}
         /\ conn[c].st["cli"] # "closed" => conn'[c].rx["cli"] = conn[c].rx["cli"]
<1> DEFINE a == AfterClose(conn[c], "srv")
           b == [a EXCEPT !.st["cli"] = "reset"]
<1>1. conn[c] \in Connections /\ Link(conn[c]) /\ "srv" \in Ends /\ Other("srv") = "cli"
  BY DEF IInv, Types, Linked, Ends, Other
<1>2. CASE conn[c].st["srv"] \in {"none", "closed"}
  BY <1>1, <1>2 DEF AllEnd
<1>3. CASE conn[c].st["srv"] \notin {"none", "closed"} /\ conn'[c] = a
  BY <1>1, <1>3, CloseResult
<1>4. CASE conn[c].st["srv"] \notin {"none", "closed"} /\ conn'[c] = b /\ a.st["cli"] = "fin"
  BY <1>1, <1>4, EndResult
<1> QED BY <1>2, <1>3, <1>4 DEF AllEnd

(* Types and links when all copies end.                                    *)
LEMMA EndKeepsTypes ==
  ASSUME IInv, AllEnd, UNCHANGED pc
  PROVE  Types' /\ Linked'
<1>1. conn' = [c \in Clients |-> conn'[c]]
  BY DEF AllEnd
<1>2. conn' \in [Clients -> Connections]
  BY <1>1, EndOfOne
<1>3. backlog' \in Seq(Clients)
  BY QueueEmpties DEF AllEnd
<1> QED BY <1>2, <1>3, EndOfOne DEF AllEnd, IInv, Types, Linked, ProcPCs

(* Every step keeps types and links.                                       *)
LEMMA TypesKept == IInv /\ [Next]_vars => Types' /\ Linked'
<1> SUFFICES ASSUME IInv, [Next]_vars PROVE Types' /\ Linked'
  OBVIOUS
<1>1. CASE ListenFd /\ UNCHANGED pc
  BY <1>1, ProcsAssumption DEF ListenFd, tcpVars, IInv, Types, Linked, ProcPCs
<1>2. CASE UNCHANGED vars
  BY <1>2 DEF vars, tcpVars, serverVars, IInv, Types, Linked
<1> QED BY <1>1, <1>2, ClientKeepsTypes, CopyKeepsTypes, EndKeepsTypes
        DEF Next, Finish, Operator, CloseListenFd, ServerInterrupt

-----------------------------------------------------------------------------
(* Copies and connections *)

(* Every step keeps who has a connection and who shares it.                *)
LEMMA HoldingKept == IInv /\ [Next]_vars => Holding'
<1> SUFFICES ASSUME IInv, [Next]_vars PROVE Holding'
  OBVIOUS
<1> USE ProcsAssumption DEF IInv, Types, Goes, ProcPCs
<1>1. CASE \E c \in Clients : Arrive(c) \/ ClientStep(c) \/ ClientInterrupt(c)
  BY <1>1 DEF Arrive, ClientStep, ClientInterrupt, GetWelcome, SayHello, Leave,
              serverVars, Holding
<1>2. ASSUME NEW p \in Procs, AcceptFd(p) PROVE Holding'
  <2>1. /\ Head(backlog) \in Clients
        /\ \A q \in Procs : hold[q] # Head(backlog)
    BY <1>2, QueueShrinks DEF AcceptFd, OpenOrNot
  <2> QED BY <1>2, <2>1 DEF AcceptFd, Either, Holding
<1>3. ASSUME NEW p \in Procs, Fork(p) PROVE Holding'
  BY <1>3 DEF Fork, Holding
<1>4. ASSUME NEW p \in Procs, ForkFails(p) PROVE Holding'
  BY <1>4 DEF ForkFails, Holding
<1>5. ASSUME NEW p \in Procs, SendWelcome(p) PROVE Holding'
  BY <1>5 DEF SendWelcome, Either, Holding
<1>6. ASSUME NEW p \in Procs, PrintReceiveMessage(p) PROVE Holding'
  BY <1>6 DEF PrintReceiveMessage, Holding
<1>7. ASSUME NEW p \in Procs, Close(p) PROVE Holding'
  BY <1>7 DEF Close, Either, Holding
<1>8. CASE AllEnd
  BY <1>8 DEF AllEnd, Holding
<1>9. CASE ListenFd
  BY <1>9 DEF ListenFd, Holding
<1>10. CASE UNCHANGED vars
  BY <1>10 DEF vars, serverVars, Holding
<1> QED BY <1>1, <1>2, <1>3, <1>4, <1>5, <1>6, <1>7, <1>8, <1>9, <1>10
        DEF Next, Serve, ProcStep, Finish, Operator, CloseListenFd, ServerInterrupt

(* A client connects only when nothing is left of its last connection.     *)
LEMMA ArrivesAnew ==
  ASSUME IInv, NEW c \in Clients, Arrive(c)
  PROVE  ~Queued(c) /\ \A p \in Procs : hold[p] # c
<1>1. ~ServerOpen(c)
  BY DEF Arrive, Connect, NoConn, Both, ServerOpen
<1> QED BY <1>1 DEF IInv, OpenOrNot

(* No connection is twice in the accept queue.                             *)
LEMMA OnceKept == IInv /\ [Next]_vars => Once'
<1> SUFFICES ASSUME IInv, [Next]_vars PROVE Once'
  OBVIOUS
<1> USE DEF IInv, Types
<1>1. ASSUME NEW c \in Clients, Arrive(c) PROVE Once'
  BY <1>1, ArrivesAnew, QueueGrows DEF Arrive, Connect
<1>2. ASSUME NEW p \in Procs, AcceptFd(p) PROVE Once'
  BY <1>2, QueueShrinks DEF AcceptFd
<1>3. CASE AllEnd
  BY <1>3, QueueEmpties DEF AllEnd
<1>4. CASE UNCHANGED backlog
  BY <1>4 DEF Once
<1>5. \/ \E c \in Clients : Arrive(c)
      \/ \E p \in Procs : AcceptFd(p)
      \/ AllEnd
      \/ UNCHANGED backlog
  BY DEF Next, ClientStep, ClientInterrupt, GetWelcome, SayHello, Leave, Serve,
         ProcStep, Fork, ForkFails, SendWelcome, PrintReceiveMessage, Close, Finish,
         Operator, CloseListenFd, ServerInterrupt, ListenFd, vars, tcpVars
<1> QED BY <1>1, <1>2, <1>3, <1>4, <1>5

(* A client's calls leave open or closed what the server has of it.        *)
LEMMA ClientKeepsOpen ==
  ASSUME IInv, NEW c \in Clients, ClientStep(c) \/ ClientInterrupt(c)
  PROVE  /\ UNCHANGED <<backlog, serverVars>>
         /\ \A d \in Clients : ServerOpen(d)' <=> ServerOpen(d)
         /\ \A d \in Clients \ {c} : conn'[d] = conn[d] /\ pc'[d] = pc[d]
<1> USE DEF IInv, Types
<1>0. conn[c] \in Connections /\ Link(conn[c]) /\ "cli" \in Ends /\ Other("cli") = "srv"
  BY DEF Linked, Ends, Other
<1>1. CASE GetWelcome(c)
  <2>1. AfterRecv(conn[c], "cli").st["srv"] = conn[c].st["srv"]
    BY <1>0, RecvResult
  <2> QED BY <1>1, <2>1 DEF GetWelcome, Moves, ServerOpen
<1>2. CASE SayHello(c)
  <2>1. conn[c].st["cli"] \notin {"none", "closed"}
    BY <1>2 DEF SayHello, Moves, Linked
  <2>2. AfterSend(conn[c], "cli", <<Hello(c)>>).st["srv"] = conn[c].st["srv"]
    BY <1>0, <2>1, HelloResult
  <2> QED BY <1>2, <2>2 DEF SayHello, Moves, ServerOpen
<1>3. CASE pc[c] # "off" /\ Leave(c)
  <2>1. conn[c].st["cli"] \notin {"none", "closed"}
    BY <1>3 DEF Linked
  <2>2. AfterClose(conn[c], "cli").st["srv"] \in {"none", "closed"}
          <=> conn[c].st["srv"] \in {"none", "closed"}
    BY <1>0, <2>1, CloseResult
  <2> QED BY <1>3, <2>2 DEF Leave, ServerOpen
<1> QED BY <1>1, <1>2, <1>3 DEF ClientStep, ClientInterrupt

(* The server's own calls do it only with the last close.                  *)
LEMMA CopyKeepsOpen ==
  ASSUME IInv, NEW p \in Procs, Serve(p)
  PROVE  \A d \in Clients :
           IF Close(p) /\ Holders(hold[p]) = {p} /\ d = hold[p]
           THEN ~ServerOpen(d)' ELSE ServerOpen(d)' <=> ServerOpen(d)
<1> USE DEF IInv, Types, Goes
<1>0. "srv" \in Ends /\ Other("srv") = "cli"
  BY DEF Ends, Other
<1>1. CASE AcceptFd(p) \/ Fork(p) \/ ForkFails(p)
  BY <1>1 DEF AcceptFd, Fork, ForkFails, Close, tcpVars, ServerOpen
<1>2. CASE SendWelcome(p)
  <2>1. hold[p] \in Clients /\ ServerOpen(hold[p]) /\ Link(conn[hold[p]])
    BY <1>2, HeldIsOpen DEF SendWelcome, Linked
  <2>2. AfterSend(conn[hold[p]], "srv", <<Welcome>>).st["srv"] \notin {"none", "closed"}
    BY <2>1, WelcomeResult DEF ServerOpen
  <2> QED BY <1>2, <2>1, <2>2 DEF SendWelcome, Close, ServerOpen
<1>3. CASE PrintReceiveMessage(p)
  <2>1. hold[p] \in Clients /\ ServerOpen(hold[p]) /\ Link(conn[hold[p]])
    BY <1>3, HeldIsOpen DEF PrintReceiveMessage, Linked
  <2>2. AfterRecv(conn[hold[p]], "srv").st["srv"] \notin {"none", "closed"}
    BY <1>0, <2>1, RecvResult DEF ServerOpen, Gone
  <2> QED BY <1>3, <2>1, <2>2 DEF PrintReceiveMessage, Close, ServerOpen
<1>4. CASE Close(p)
  <2>1. hold[p] \in Clients /\ ServerOpen(hold[p]) /\ Link(conn[hold[p]])
    BY <1>4, HeldIsOpen DEF Close, Linked
  <2>2. AfterClose(conn[hold[p]], "srv").st["srv"] \in {"none", "closed"}
    BY <1>0, <2>1, CloseResult DEF ServerOpen
  <2> QED BY <1>4, <2>1, <2>2 DEF Close, ServerOpen
<1> QED BY <1>1, <1>2, <1>3, <1>4 DEF Serve, ProcStep

(* A connection is open while it is queued or a copy has it.               *)
LEMMA OpenKept == IInv /\ [Next]_vars => OpenOrNot'
<1> SUFFICES ASSUME IInv, [Next]_vars PROVE OpenOrNot'
  OBVIOUS
<1> USE ProcsAssumption DEF IInv, Types, Goes
<1>1. ASSUME NEW c \in Clients, Arrive(c) PROVE OpenOrNot'
  <2>1. /\ \A d \in Clients : Queued(d)' <=> Queued(d) \/ d = c
        /\ UNCHANGED hold
    BY <1>1, QueueGrows DEF Arrive, Connect, serverVars
  <2>2. \A d \in Clients : ServerOpen(d)' <=> ServerOpen(d) \/ d = c
    BY <1>1 DEF Arrive, Connect, NewConn, Both, ServerOpen
  <2> QED BY <1>1, <2>1, <2>2, ArrivesAnew DEF OpenOrNot
<1>2. ASSUME NEW c \in Clients, ClientStep(c) \/ ClientInterrupt(c) PROVE OpenOrNot'
  BY <1>2, ClientKeepsOpen DEF OpenOrNot, Queued, serverVars
<1>3. ASSUME NEW p \in Procs, AcceptFd(p), Serve(p) PROVE OpenOrNot'
  <2>1. /\ Head(backlog) \in Clients
        /\ Queued(Head(backlog))
        /\ \A d \in Clients : Queued(d)' <=> Queued(d) /\ d # Head(backlog)
    BY <1>3, QueueShrinks DEF AcceptFd
  <2>2. hold[p] = NULL /\ hold' = [hold EXCEPT ![p] = Head(backlog)]
    BY <1>3 DEF AcceptFd, Holding
  <2>3. \A d \in Clients : ServerOpen(d)' <=> ServerOpen(d)
    BY <1>3, CopyKeepsOpen DEF AcceptFd, Close
  <2> QED BY <2>1, <2>2, <2>3 DEF OpenOrNot
<1>4. ASSUME NEW p \in Procs, Serve(p), Fork(p) PROVE OpenOrNot'
  <2>1. \A d \in Clients : (ServerOpen(d)' <=> ServerOpen(d)) /\ (Queued(d)' <=> Queued(d))
    BY <1>4, CopyKeepsOpen DEF Fork, Close, tcpVars, Queued
  <2>2. PICK q \in Procs : proc[q] = "none" /\ hold' = [hold EXCEPT ![q] = hold[p]]
    BY <1>4 DEF Fork
  <2>3. hold[q] = NULL
    BY <2>2 DEF Holding
  <2>4. \A d \in Clients : (\E r \in Procs : hold'[r] = d) <=> \E r \in Procs : hold[r] = d
    BY <2>2, <2>3
  <2> QED BY <2>1, <2>4 DEF OpenOrNot
<1>5. ASSUME NEW p \in Procs, Serve(p), ForkFails(p) \/ SendWelcome(p) \/ PrintReceiveMessage(p)
      PROVE  OpenOrNot'
  <2>1. ~Close(p) /\ UNCHANGED <<backlog, hold>>
    BY <1>5 DEF ForkFails, SendWelcome, PrintReceiveMessage, Close, tcpVars
  <2> QED BY <1>5, <2>1, CopyKeepsOpen DEF OpenOrNot, Queued
<1>6. ASSUME NEW p \in Procs, Serve(p), Close(p) PROVE OpenOrNot'
  <2>1. hold[p] \in Clients /\ UNCHANGED backlog /\ hold' = [hold EXCEPT ![p] = NULL]
    BY <1>6, HeldIsOpen DEF Close
  <2>2. CASE Holders(hold[p]) = {p}
    BY <1>6, <2>1, <2>2, CopyKeepsOpen DEF OpenOrNot, Queued, Holders
  <2>3. CASE Holders(hold[p]) # {p}
    <3>1. PICK q \in Procs : q # p /\ hold[q] = hold[p]
      BY <2>3 DEF Holders
    <3> QED BY <1>6, <2>1, <2>3, <3>1, CopyKeepsOpen DEF OpenOrNot, Queued
  <2> QED BY <2>2, <2>3
<1>7. CASE AllEnd
  <2>1. \A d \in Clients : ~ServerOpen(d)' /\ ~Queued(d)'
    BY <1>7, EndOfOne, QueueEmpties DEF ServerOpen, AllEnd
  <2>2. \A p \in Procs : hold'[p] = NULL
    BY <1>7 DEF AllEnd
  <2> QED BY <2>1, <2>2 DEF OpenOrNot
<1>8. CASE ListenFd \/ UNCHANGED vars
  BY <1>8 DEF ListenFd, vars, serverVars, tcpVars, OpenOrNot, ServerOpen, Queued
<1> QED BY <1>1, <1>2, <1>3, <1>4, <1>5, <1>6, <1>7, <1>8
        DEF Next, Serve, ProcStep, Finish, Operator, CloseListenFd, ServerInterrupt

-----------------------------------------------------------------------------
(* Welcomes *)

(* Whether a client awaits the welcome, steps of a client.                 *)
LEMMA ClientGreeted ==
  ASSUME IInv, NEW c \in Clients, Arrive(c) \/ ClientStep(c) \/ ClientInterrupt(c)
  PROVE  Greeting'
<1> USE DEF IInv, Types
<1>0. conn[c] \in Connections /\ Link(conn[c]) /\ "cli" \in Ends /\ Other("cli") = "srv"
  BY DEF Linked, Ends, Other
<1>1. CASE Arrive(c)
  <2>1. /\ Queued(c)' /\ conn'[c].rx["cli"] = << >> /\ pc'[c] = "recv"
        /\ UNCHANGED <<proc, hold>>
    BY <1>1, QueueGrows DEF Arrive, Connect, Moves, NewConn, Both, serverVars
  <2>2. ASSUME NEW d \in Clients, d # c
        PROVE  conn'[d] = conn[d] /\ pc'[d] = pc[d] /\ (Queued(d)' <=> Queued(d))
    BY <1>1, <2>2, QueueGrows DEF Arrive, Connect, Moves
  <2>3. ASSUME NEW d \in Clients, d # c
        PROVE  Welcomed(d)'
    BY <2>1, <2>2, <2>3 DEF Greeting, Welcomed, ServerOpen, Awaits, Greeted, Welcomes
  <2>4. Welcomed(c)'
    BY <2>1 DEF Welcomed, Awaits
  <2> QED BY <2>1, <2>3, <2>4 DEF Greeting
<1>2. CASE ClientStep(c) \/ ClientInterrupt(c)
  <2>1. UNCHANGED <<backlog, proc, hold>>
    BY <1>2, ClientKeepsOpen DEF serverVars
  <2>2. ASSUME NEW d \in Clients, d # c
        PROVE  Welcomed(d)'
    <3>1. conn'[d] = conn[d] /\ pc'[d] = pc[d]
      BY <1>2, <2>2, ClientKeepsOpen
    <3> QED BY <2>1, <3>1 DEF Greeting, Welcomed, ServerOpen, Awaits, Greeted, Welcomes, Queued
  <2>3. CASE GetWelcome(c)
    <3>1. /\ pc[c] = "recv" /\ pc'[c] \in {"hello", "close"}
          /\ conn'[c].rx["cli"] = << >>
      BY <1>0, <2>3, RecvResult DEF GetWelcome, Moves, Either
    <3>2. ASSUME ServerOpen(c)
          PROVE  (\A p \in Procs : ~Welcomes(p, c)) /\ ~Queued(c)
      <4>1. conn[c].st["cli"] = "est"
        BY <1>0, <3>1, <3>2 DEF Link, NoConn, Both, ServerOpen, Gone, Linked
      <4>2. conn[c].rx["cli"] # << >>
        BY <2>3, <4>1 DEF GetWelcome, Readable
      <4>3. (\A p \in Procs : ~Welcomes(p, c)) /\ ~Queued(c)
        BY <3>1, <3>2, <4>2 DEF Greeting, Welcomed, Awaits, Welcomes, OpenOrNot
      <4> QED BY <4>3
    <3>3. ASSUME ~ServerOpen(c)
          PROVE  (\A p \in Procs : ~Welcomes(p, c)) /\ ~Queued(c)
      BY <3>3 DEF OpenOrNot, Welcomes
    <3>4. Welcomed(c)'
      BY <2>1, <3>1, <3>2, <3>3, Zenon DEF Welcomed, Greeted, Welcomes, Queued
    <3> QED BY <2>2, <3>4 DEF Greeting
  <2>4. CASE SayHello(c)
    <3>1. pc[c] = "hello" /\ pc'[c] = "close" /\ conn[c].st["cli"] \notin {"none", "closed"}
      BY <2>4 DEF SayHello, Moves, Linked
    <3>2. conn'[c].rx["cli"] = conn[c].rx["cli"]
      BY <1>0, <2>4, <3>1, HelloResult DEF SayHello
    <3>3. Greeted(c)
      BY <3>1 DEF Greeting, Welcomed
    <3>4. Welcomed(c)'
      BY <2>1, <3>1, <3>2, <3>3 DEF Welcomed, Greeted, Welcomes, Queued
    <3> QED BY <2>2, <3>4 DEF Greeting
  <2>5. CASE Leave(c)
    <3>1. Welcomed(c)'
      BY <2>5 DEF Leave, Welcomed
    <3> QED BY <2>2, <3>1 DEF Greeting
  <2> QED BY <1>2, <2>3, <2>4, <2>5 DEF ClientStep, ClientInterrupt
<1> QED BY <1>1, <1>2

(* What a copy does with one connection is nothing to the other clients.   *)
LEMMA OthersWelcomed ==
  ASSUME IInv, NEW p \in Procs, NEW d \in Clients,
         \A q \in Procs : q # p => proc'[q] = proc[q] /\ hold'[q] = hold[q],
         hold[p] # d, hold'[p] # d,
         conn'[d] = conn[d], pc'[d] = pc[d], Queued(d)' <=> Queued(d)
  PROVE  Welcomed(d)'
<1>1. Welcomed(d)
  BY DEF IInv, Greeting
<1>2. ServerOpen(d)' <=> ServerOpen(d)
  BY DEF ServerOpen
<1>3. \A q \in Procs : Welcomes(q, d)' <=> Welcomes(q, d)
  BY DEF Welcomes
<1>4. ASSUME Awaits(d) PROVE Awaits(d)'
  <2>1. \A r \in Procs : (hold'[r] = d <=> hold[r] = d) /\ (hold[r] = d => proc'[r] = proc[r])
    OBVIOUS
  <2> QED BY <1>3, <1>4, <2>1 DEF Awaits
<1> QED BY <1>1, <1>2, <1>3, <1>4 DEF Welcomed, Greeted

(* Whether a client awaits the welcome, steps of a copy.                   *)
LEMMA CopyGreeted ==
  ASSUME IInv, NEW p \in Procs, Serve(p)
  PROVE  Greeting'
<1> USE DEF IInv, Types, Goes
<1>0. "srv" \in Ends /\ Other("srv") = "cli"
  BY DEF Ends, Other
<1>1. CASE AcceptFd(p)
  <2>0. PICK c \in Clients : c = Head(backlog)
    BY <1>1, QueueShrinks DEF AcceptFd
  <2>1. /\ Queued(c)
        /\ \A d \in Clients : Queued(d)' <=> Queued(d) /\ d # c
    BY <1>1, <2>0, QueueShrinks DEF AcceptFd
  <2>2. /\ hold[p] = NULL /\ hold' = [hold EXCEPT ![p] = c]
        /\ proc' \in {[proc EXCEPT ![p] = "fork"], [proc EXCEPT ![p] = "welcome"]}
        /\ UNCHANGED <<conn, pc>>
    BY <1>1, <2>0 DEF AcceptFd, Either, Holding, Serve
  <2>3. ASSUME NEW d \in Clients, d # c PROVE Welcomed(d)'
    BY <2>1, <2>2, <2>3, ProcsAssumption, OthersWelcomed
  <2>4. Welcomed(c)'
    <3>1. \A q \in Procs : hold[q] # c
      BY <2>1 DEF OpenOrNot
    <3>2. Welcomed(c)
      BY <2>1 DEF Greeting
    <3>3. pc[c] = "recv" /\ ServerOpen(c) => conn[c].rx["cli"] = << >>
      BY <2>1, <3>1, <3>2 DEF Welcomed, Awaits, Welcomes
    <3>4. Welcomes(p, c)'
      BY <2>2 DEF Welcomes
    <3>5. pc[c] \notin {"hello", "close"}
      BY <2>1, <3>2 DEF Welcomed, Greeted
    <3> QED BY <2>2, <3>3, <3>4, <3>5 DEF Welcomed, Awaits, ServerOpen
  <2> QED BY <2>3, <2>4 DEF Greeting
<1>2. CASE Fork(p)
  <2>1. PICK q \in Procs : /\ proc[p] = "fork" /\ proc[q] = "none"
                          /\ proc' = [proc EXCEPT ![p] = "close", ![q] = "welcome"]
                          /\ hold' = [hold EXCEPT ![q] = hold[p]]
                          /\ UNCHANGED <<tcpVars, pc>>
    BY <1>2 DEF Fork, Serve
  <2>0. PICK c \in Clients : c = hold[p]
    BY <2>1, HeldIsOpen
  <2>2. p # q /\ hold[q] = NULL /\ UNCHANGED <<conn, backlog>>
    BY <2>1 DEF Holding, tcpVars
  <2>3. hold'[p] = c /\ hold'[q] = c /\ proc'[p] = "close" /\ proc'[q] = "welcome"
    BY <2>0, <2>1, <2>2
  <2>4. \A r \in Procs : r # p /\ r # q => proc'[r] = proc[r] /\ hold'[r] = hold[r]
    BY <2>1, <2>2
  <2>5. ASSUME NEW d \in Clients, d # c PROVE Welcomed(d)'
    <3>1. /\ \A r \in Procs : hold'[r] = d <=> hold[r] = d
          /\ \A r \in Procs : hold[r] = d => proc'[r] = proc[r]
      BY <2>0, <2>1, <2>2, <2>3, <2>4, <2>5, ProcsAssumption
    <3>2. conn'[d] = conn[d] /\ pc'[d] = pc[d] /\ (Queued(d)' <=> Queued(d)) /\ Welcomed(d)
      BY <2>1, <2>2 DEF Queued, Greeting
    <3> QED BY <3>1, <3>2 DEF Welcomed, Awaits, Greeted, Welcomes, ServerOpen
  <2>6. Welcomed(c)'
    <3>1. Welcomes(p, c) /\ Welcomes(q, c)' /\ Welcomed(c)
      BY <2>0, <2>1, <2>2, <2>3 DEF Welcomes, Greeting
    <3>2. pc[c] = "recv" /\ ServerOpen(c) => conn[c].rx["cli"] = << >>
      BY <2>1, <3>1 DEF Welcomed, Awaits, Welcomes
    <3>3. pc[c] \notin {"hello", "close"}
      BY <3>1 DEF Welcomed, Greeted
    <3> QED BY <2>1, <2>2, <3>1, <3>2, <3>3 DEF Welcomed, Awaits, ServerOpen
  <2> QED BY <2>5, <2>6 DEF Greeting
<1>3. CASE ForkFails(p)
  <2>0. PICK c \in Clients : c = hold[p]
    BY <1>3, HeldIsOpen DEF ForkFails
  <2>1. /\ proc[p] = "fork" /\ proc' = [proc EXCEPT ![p] = "close"]
        /\ UNCHANGED <<conn, backlog, hold, pc>>
    BY <1>3, <2>0, HeldIsOpen DEF ForkFails, Serve, tcpVars
  <2>2. \A q \in Procs : hold[q] = c <=> q = p
    BY <2>0, <2>1, ProcsAssumption DEF Holding
  <2>3. ASSUME NEW d \in Clients, d # c PROVE Welcomed(d)'
    BY <2>1, <2>2, <2>3, OthersWelcomed DEF Queued
  <2>4. Welcomed(c)'
    <3>1. Welcomes(p, c) /\ Welcomed(c)
      BY <2>1, <2>2 DEF Welcomes, Greeting
    <3>2. pc[c] \notin {"hello", "close"}
      BY <3>1 DEF Welcomed, Greeted
    <3>3. Awaits(c)'
      BY <2>1, <2>2 DEF Awaits
    <3> QED BY <2>1, <3>2, <3>3 DEF Welcomed
  <2> QED BY <2>3, <2>4 DEF Greeting
<1>4. CASE SendWelcome(p)
  <2>0. PICK c \in Clients : c = hold[p]
    BY <1>4, HeldIsOpen DEF SendWelcome
  <2>1. /\ ServerOpen(c) /\ proc[p] = "welcome"
        /\ proc' \in {[proc EXCEPT ![p] = "recv"], [proc EXCEPT ![p] = "close"]}
        /\ conn' = [conn EXCEPT ![c] = AfterSend(@, "srv", <<Welcome>>)]
        /\ UNCHANGED <<backlog, hold, pc>>
    BY <1>4, <2>0, HeldIsOpen DEF SendWelcome, Either, Serve
  <2>2. Welcomes(p, c) /\ Welcomed(c) /\ Link(conn[c]) /\ c # NULL /\ hold[p] = c /\ ~Queued(c)
    BY <2>0, <2>1, ProcsAssumption DEF Welcomes, Greeting, Linked, OpenOrNot
  <2>3. ASSUME NEW d \in Clients, d # c PROVE Welcomed(d)'
    BY <2>1, <2>2, <2>3, OthersWelcomed DEF Queued
  <2>4. Welcomed(c)'
    <3>1. pc[c] \notin {"hello", "close"}
      BY <2>2 DEF Welcomed, Greeted
    <3>2. ASSUME pc[c] = "recv" PROVE Awaits(c)'
      <4>1. conn[c].rx["cli"] = << >>
        BY <2>1, <2>2, <3>2 DEF Welcomed, Awaits, Welcomes
      <4>2. conn[c].st["cli"] = "est"
        BY <2>1, <2>2, <3>2 DEF Linked, Link, ServerOpen, NoConn, Both, Gone
      <4>3. conn'[c].rx["cli"] = <<Welcome>>
        BY <2>1, <2>2, <4>1, <4>2, WelcomeResult DEF ServerOpen
      <4>4. \A q \in Procs : q # p /\ hold[q] = c => proc[q] = "close"
        BY <2>1, <2>2 DEF Holding
      <4>5. (\A q \in Procs : ~Welcomes(q, c)') /\ ~Queued(c)'
        BY <2>1, <2>2, <4>4 DEF Welcomes, Queued
      <4> QED BY <4>3, <4>5 DEF Awaits
    <3> QED BY <2>1, <3>1, <3>2 DEF Welcomed
  <2> QED BY <2>3, <2>4 DEF Greeting
<1>5. CASE PrintReceiveMessage(p)
  <2>0. PICK c \in Clients : c = hold[p]
    BY <1>5, HeldIsOpen DEF PrintReceiveMessage
  <2>1. /\ ServerOpen(c) /\ proc[p] = "recv"
        /\ proc' = [proc EXCEPT ![p] = "close"]
        /\ conn' = [conn EXCEPT ![c] = AfterRecv(@, "srv")]
        /\ UNCHANGED <<backlog, hold, pc>>
    BY <1>5, <2>0, HeldIsOpen DEF PrintReceiveMessage, Serve
  <2>2. /\ Welcomed(c) /\ c # NULL /\ hold[p] = c /\ (Queued(c)' <=> Queued(c))
        /\ AfterRecv(conn[c], "srv").rx["cli"] = conn[c].rx["cli"]
    BY <1>0, <2>0, <2>1, ProcsAssumption, RecvResult DEF Greeting, Linked, Queued
  <2>3. ASSUME NEW d \in Clients, d # c PROVE Welcomed(d)'
    BY <2>1, <2>2, <2>3, OthersWelcomed DEF Queued
  <2>4. Welcomed(c)'
    <3>1. conn'[c].rx["cli"] = conn[c].rx["cli"]
      BY <2>1, <2>2
    <3>2. \A q \in Procs : Welcomes(q, c)' <=> Welcomes(q, c)
      BY <2>1 DEF Welcomes
    <3>3. \A q \in Procs : proc[q] = "close" => proc'[q] = "close"
      BY <2>1
    <3>4. Awaits(c) => Awaits(c)'
      BY <2>1, <2>2, <3>1, <3>2, <3>3 DEF Awaits
    <3> QED BY <2>1, <2>2, <3>1, <3>2, <3>4 DEF Welcomed, Greeted
  <2> QED BY <2>3, <2>4 DEF Greeting
<1>6. CASE Close(p)
  <2>0. PICK c \in Clients : c = hold[p]
    BY <1>6, HeldIsOpen DEF Close
  <2>1. /\ ServerOpen(c) /\ proc[p] = "close"
        /\ proc' \in {[proc EXCEPT ![p] = "accept"], [proc EXCEPT ![p] = "leave"]}
        /\ hold' = [hold EXCEPT ![p] = NULL]
        /\ \A d \in Clients : d # c => conn'[d] = conn[d]
        /\ UNCHANGED <<backlog, pc>>
    BY <1>6, <2>0, HeldIsOpen DEF Close, Either, Serve
  <2>2. Welcomed(c) /\ c # NULL /\ hold[p] = c /\ (Queued(c)' <=> Queued(c)) /\ Link(conn[c])
    BY <2>0, <2>1, ProcsAssumption DEF Greeting, Linked, Queued
  <2>3. \A q \in Procs : Welcomes(q, c)' <=> Welcomes(q, c)
    BY <2>1, <2>2 DEF Welcomes
  <2>4. ASSUME NEW d \in Clients, d # c PROVE Welcomed(d)'
    BY <2>1, <2>2, <2>4, ProcsAssumption, OthersWelcomed DEF Queued
  <2>5. CASE Holders(c) = {p}
    <3>1. conn'[c] = AfterClose(conn[c], "srv")
      BY <1>6, <2>0, <2>1, <2>5 DEF Close
    <3>2. ~ServerOpen(c)'
      BY <1>6, <2>0, <2>1, <2>5, CopyKeepsOpen
    <3>3. ASSUME pc[c] \in {"hello", "close"} PROVE Greeted(c)'
      <4>1. conn[c].st["cli"] \notin {"none", "closed"}
        BY <3>3, <2>1 DEF Linked
      <4>2. conn'[c].rx["cli"] = conn[c].rx["cli"]
        BY <1>0, <2>1, <2>2, <3>1, <4>1, CloseResult DEF ServerOpen
      <4> QED BY <2>2, <2>3, <3>3, <4>2 DEF Welcomed, Greeted
    <3>4. Welcomed(c)'
      BY <2>1, <3>2, <3>3 DEF Welcomed
    <3> QED BY <2>4, <3>4 DEF Greeting
  <2>6. CASE Holders(c) # {p}
    <3>1. conn'[c] = conn[c]
      BY <1>6, <2>0, <2>1, <2>6 DEF Close
    <3>2. PICK r \in Procs : r # p /\ hold[r] = c
      BY <2>2, <2>6 DEF Holders
    <3>3. Awaits(c) => Awaits(c)'
      BY <2>2, <2>3, <3>1, <3>2 DEF Awaits
    <3>4. Welcomed(c)'
      BY <2>1, <2>2, <2>3, <3>1, <3>3 DEF Welcomed, Greeted, ServerOpen
    <3> QED BY <2>4, <3>4 DEF Greeting
  <2> QED BY <2>5, <2>6
<1> QED BY <1>1, <1>2, <1>3, <1>4, <1>5, <1>6 DEF Serve, ProcStep

(* Every step keeps the welcome in its one place.                          *)
LEMMA GreetingKept == IInv /\ [Next]_vars => Greeting'
<1> SUFFICES ASSUME IInv, [Next]_vars PROVE Greeting'
  OBVIOUS
<1>1. CASE AllEnd /\ UNCHANGED pc
  <2>1. ASSUME NEW c \in Clients PROVE Welcomed(c)'
    <3>1. ~ServerOpen(c)' /\ ~Queued(c)' /\ \A p \in Procs : ~Welcomes(p, c)'
      BY <1>1, EndOfOne, QueueEmpties, ProcsAssumption DEF ServerOpen, AllEnd, Welcomes
    <3>2. ASSUME pc[c] \in {"hello", "close"} PROVE conn'[c].rx["cli"] = << >>
      <4>1. conn[c].st["cli"] # "closed" /\ conn[c].rx["cli"] = << >>
        BY <3>2 DEF IInv, Linked, Greeting, Welcomed, Greeted
      <4> QED BY <1>1, <4>1, EndOfOne
    <3> QED BY <1>1, <3>1, <3>2 DEF Welcomed, Greeted
  <2> QED BY <2>1 DEF Greeting
<1>2. CASE ListenFd /\ UNCHANGED pc
  <2>1. /\ hold[Root] = NULL /\ proc' = [proc EXCEPT ![Root] = "accept"]
        /\ UNCHANGED <<conn, backlog, hold>>
    BY <1>2, ProcsAssumption DEF ListenFd, tcpVars, IInv, Holding
  <2>2. ASSUME NEW c \in Clients PROVE Welcomed(c)'
    BY <1>2, <2>1, ProcsAssumption, OthersWelcomed DEF Queued, IInv, Types
  <2> QED BY <2>2 DEF Greeting
<1>3. CASE UNCHANGED vars
  BY <1>3 DEF vars, tcpVars, serverVars, IInv, Greeting, Welcomed, Awaits, Greeted,
              Welcomes, ServerOpen, Queued
<1> QED BY <1>1, <1>2, <1>3, ClientGreeted, CopyGreeted
        DEF Next, Finish, Operator, CloseListenFd, ServerInterrupt

(* Every step keeps the invariant.                                         *)
LEMMA Inductive == IInv /\ [Next]_vars => IInv'
BY TypesKept, HoldingKept, OnceKept, OpenKept, GreetingKept DEF IInv

-----------------------------------------------------------------------------

(* TypeOK: types only; which copy has a connection when is CallsOnOpen's.  *)
THEOREM Typing == Spec => []TypeOK
<1>1. IInv => TypeOK
  BY TypesAreTypes DEF IInv
<1> QED BY <1>1, InitHolds, Inductive, PTL DEF Spec

(* CallsOnOpen: a copy has a connection from accept to close, that one is  *)
(* open, and at accept and after its end it has none: send, recv and close *)
(* (fork/server.cpp:59-92) meet no connection another copy has ended or    *)
(* this one has closed, for any number of copies.                          *)
THEOREM OpenConnections == Spec => []CallsOnOpen
<1>1. IInv => CallsOnOpen
  <2> SUFFICES ASSUME IInv, NEW p \in Procs
               PROVE  IF proc[p] \in {"fork", "welcome", "recv", "close"}
                      THEN hold[p] # NULL /\ ServerOpen(hold[p])
                      ELSE hold[p] = NULL
    BY DEF CallsOnOpen
  <2>1. CASE proc[p] \in {"fork", "welcome", "recv", "close"}
    BY <2>1, HeldIsOpen, ProcsAssumption
  <2>2. CASE proc[p] \notin {"fork", "welcome", "recv", "close"}
    BY <2>2 DEF IInv, Types, ProcPCs, Holding
  <2> QED BY <2>1, <2>2
<1> QED BY <1>1, InitHolds, Inductive, PTL DEF Spec

(* Three copies never have one connection, and two only before a close.    *)
LEMMA HoldersAreFew ==
  ASSUME Holding, NEW c \in Clients
  PROVE  /\ Cardinality(Holders(c)) <= 2
         /\ Cardinality(Holders(c)) = 2 => \E p \in Holders(c) : proc[p] = "close"
<1>1. CASE Holders(c) = {}
  BY <1>1, FS_EmptySet
<1>2. ASSUME NEW p \in Holders(c), NEW q \in Holders(c), Holders(c) = {p, q}
      PROVE  /\ Cardinality(Holders(c)) <= 2
             /\ Cardinality(Holders(c)) = 2 => \E r \in Holders(c) : proc[r] = "close"
  <2>1. CASE p = q
    <3>1. Holders(c) = {p} /\ Cardinality({p}) = 1
      BY <1>2, <2>1, FS_Singleton
    <3> QED BY <3>1
  <2>2. CASE p # q
    <3>1. Cardinality(Holders(c)) = 2
      <4>1. IsFiniteSet({p}) /\ Cardinality({p}) = 1 /\ q \notin {p}
        BY <2>2, FS_Singleton
      <4>2. Cardinality({p} \cup {q}) = Cardinality({p}) + 1
        BY <4>1, FS_AddElement, Zenon
      <4>3. Holders(c) = {p} \cup {q}
        BY <1>2
      <4> QED BY <4>1, <4>2, <4>3
    <3>2. proc[p] = "close" \/ proc[q] = "close"
      BY <2>2, ProcsAssumption DEF Holding, Holders
    <3> QED BY <1>2, <3>1, <3>2
  <2> QED BY <2>1, <2>2
<1>3. CASE Holders(c) # {}
  <2>1. PICK p \in Holders(c) : TRUE
    BY <1>3
  <2>2. CASE Holders(c) = {p, p}
    BY <1>2, <2>2
  <2>3. CASE Holders(c) # {p, p}
    <3>1. PICK q \in Holders(c) : q # p
      BY <2>3
    <3>2. Holders(c) = {p, q}
      BY <3>1, ProcsAssumption DEF Holding, Holders
    <3> QED BY <1>2, <3>2
  <2> QED BY <2>2, <2>3
<1> QED BY <1>1, <1>3

(* Copies of the server share a connection two at a time at most, one of   *)
(* them at its close, and none is left open behind them or taken from the  *)
(* queue twice (fork/server.cpp:76-92), for any number of copies.          *)
THEOREM Shared == Spec => []SharedByPair
<1>1. IInv => SharedByPair
  <2> SUFFICES ASSUME IInv, NEW c \in Clients
               PROVE  /\ ServerOpen(c) <=> Queued(c) \/ Holders(c) # {}
                      /\ Queued(c) => Holders(c) = {}
                      /\ Cardinality(Holders(c)) <= 2
                      /\ Cardinality(Holders(c)) = 2 => \E p \in Holders(c) : proc[p] = "close"
    BY DEF SharedByPair
  <2>1. Holders(c) = {} <=> \A p \in Procs : hold[p] # c
    BY DEF Holders
  <2>2. /\ ServerOpen(c) <=> Queued(c) \/ Holders(c) # {}
        /\ Queued(c) => Holders(c) = {}
    BY <2>1 DEF IInv, OpenOrNot
  <2> QED BY <2>2, HoldersAreFew DEF IInv
<1> QED BY <1>1, InitHolds, Inductive, PTL DEF Spec

(* A client that waits has one welcome coming, in the queue, at one copy   *)
(* or in the stream, or its connection is about to be closed; one that was *)
(* welcomed has none (fork/server.cpp:76-92), for any number of both.      *)
THEOREM WelcomedOnce == Spec => []OneWelcome
<1>1. IInv => OneWelcome
  <2> SUFFICES ASSUME IInv, NEW c \in Clients
               PROVE  /\ pc[c] = "recv" /\ ServerOpen(c) =>
                           \/ Cardinality(Welcomers(c)) + Len(conn[c].rx["cli"])
                                + (IF Queued(c) THEN 1 ELSE 0) = 1
                           \/ \E p \in Procs : Holders(c) = {p} /\ proc[p] = "close"
                      /\ pc[c] \in {"hello", "close"} =>
                           Welcomers(c) = {} /\ conn[c].rx["cli"] = << >>
    BY DEF OneWelcome
  <2>0. Welcomed(c) /\ \A p : p \in Welcomers(c) <=> p \in Procs /\ Welcomes(p, c)
    BY DEF IInv, Greeting, Welcomers, Holders, Welcomes
  <2>1. ASSUME pc[c] = "recv", ServerOpen(c), Queued(c), conn[c].rx["cli"] = << >>
        PROVE  Cardinality(Welcomers(c)) + Len(conn[c].rx["cli"]) = 0
    <3>1. Welcomers(c) = {}
      BY <2>0, <2>1 DEF IInv, OpenOrNot, Welcomes
    <3> QED BY <2>1, <3>1, FS_EmptySet, EmptySeq
  <2>2. ASSUME NEW p \in Procs, Welcomes(p, c), conn[c].rx["cli"] = << >>
        PROVE  ~Queued(c) /\ Cardinality(Welcomers(c)) + Len(conn[c].rx["cli"]) = 1
    <3>1. Welcomers(c) = {p} /\ ~Queued(c)
      BY <2>0, <2>2, ProcsAssumption DEF IInv, Holding, OpenOrNot, Welcomes
    <3>2. Cardinality(Welcomers(c)) = 1 /\ Len(conn[c].rx["cli"]) = 0
      BY <2>2, <3>1, FS_Singleton, EmptySeq
    <3> QED BY <3>1, <3>2
  <2>3. ASSUME \A p \in Procs : ~Welcomes(p, c), conn[c].rx["cli"] = <<Welcome>>
        PROVE  Cardinality(Welcomers(c)) + Len(conn[c].rx["cli"]) = 1
    <3>1. Welcomers(c) = {}
      BY <2>0, <2>3
    <3> QED BY <2>3, <3>1, FS_EmptySet
  <2>4. ASSUME NEW p \in Procs, proc[p] = "close", \A q \in Procs : hold[q] = c <=> q = p
        PROVE  Holders(c) = {p} /\ proc[p] = "close"
    BY <2>4 DEF Holders
  <2> QED BY <2>0, <2>1, <2>2, <2>3, <2>4 DEF Welcomed, Awaits, Greeted
<1> QED BY <1>1, InitHolds, Inductive, PTL DEF Spec
=============================================================================
