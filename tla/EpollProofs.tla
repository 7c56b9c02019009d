---------------------------- MODULE EpollProofs ----------------------------
(***************************************************************************)
(* What holds of epoll_server for any number of select, poll and epoll     *)
(* clients and of descriptors: types, no event about another connection,   *)
(* one message under way, no SIGPIPE, that the end of a client is seen and *)
(* the service is the conversation of each client with its echo.           *)
(***************************************************************************)
EXTENDS EpollEcho, FiniteSetTheorems, SequenceTheorems, WellFoundedInduction, TLAPS

Connections == [st : [Ends -> States], rx : [Ends -> Seq(Messages)]]

Events == {Event(f, ev) : f \in Fds \cup {Listen}, ev \in {"in", "out"}}

(* TypeOK with names for the types of a connection and of an event. *)
Types ==
  /\ conn \in [Clients -> Connections]
  /\ backlog \in Seq(Clients)
  /\ alive \in BOOLEAN
  /\ peer \in [Fds -> Clients \cup {NULL}]
  /\ interest \in [Fds -> {"none", "in", "out"}]
  /\ events \subseteq Events
  /\ m \in [Fds -> Seq(Messages)]
  /\ edge \in BOOLEAN
  /\ pc \in [Clients -> PCs]
  /\ sent \in [Clients -> Messages]
  /\ cnt \in [EpollClients -> 0..Wrap - 1]

(* What the two ends know of each other: a connection one end closed is    *)
(* gone at the other one, and gone for both when both closed it.  Nothing  *)
(* is left to read for an end that closed or that met the reset.           *)
Gone == {"fin", "reset", "broken"}

Link(k) ==
  /\ \/ k = NoConn
     \/ k.st["srv"] = "est" /\ k.st["cli"] = "est"
     \/ k.st["srv"] = "closed" /\ k.st["cli"] \in Gone
     \/ k.st["srv"] \in Gone /\ k.st["cli"] = "closed"
  /\ k.st["srv"] \in {"closed", "broken"} => k.rx["srv"] = << >>
  /\ k.st["cli"] \in {"closed", "broken"} => k.rx["cli"] = << >>

Joined(c) ==
  /\ Link(conn[c])
  /\ pc[c] = "off" <=> conn[c].st["cli"] \in {"none", "closed"}
  /\ pc[c] \in {"hello", "reply"} => conn[c].st["cli"] # "broken"

Linked == \A c \in Clients : Joined(c)

Once == \A i, j \in 1..Len(backlog) : backlog[i] = backlog[j] => i = j

(* Connections and descriptors. *)
Queued(c) == \E i \in 1..Len(backlog) : backlog[i] = c

Descriptors ==
  /\ \A f, g \in Fds : peer[f] # NULL /\ peer[f] = peer[g] => f = g
  /\ \A f \in Fds : interest[f] = "none" <=> peer[f] = NULL
  /\ \A c \in Clients :
       /\ ServerOpen(c) <=> Queued(c) \/ Accepted(c)
       /\ Queued(c) => ~Accepted(c)
       /\ alive => conn[c].st["srv"] # "closed"

(* The message of a client that waits is in one of three places: unread at *)
(* the server, kept there for EPOLLOUT, or on its way back.                *)
KeptFor(f, c) ==
  /\ conn[c].rx["srv"] = << >>
  /\ conn[c].rx["cli"] = << >>
  /\ conn[c].st["srv"] # "broken"
  /\ pc[c] \in {"first", "wait", "off"}
  /\ Waiting(c) => m[f] = <<sent[c]>>

Outgoing == \A f \in Fds : interest[f] = "out" => KeptFor(f, peer[f])

Out(c) == \E f \in Fds : peer[f] = c /\ interest[f] = "out"

Flight(c) ==
  /\ pc[c] \in {"hello", "reply", "asleep"} =>
       conn[c].rx["srv"] = << >> /\ conn[c].rx["cli"] = << >>
  /\ pc[c] = "asleep" => ~ServerOpen(c)
  /\ Waiting(c) /\ ServerOpen(c) /\ ~Out(c) =>
       \/ conn[c].rx["srv"] = <<sent[c]>> /\ conn[c].rx["cli"] = << >>
       \/ conn[c].rx["srv"] = << >> /\ conn[c].rx["cli"] = <<sent[c]>>
  /\ Waiting(c) /\ ~ServerOpen(c) => conn[c].rx["cli"] \in {<< >>, <<sent[c]>>}

Flying == \A c \in Clients : Flight(c)

(* NoStaleEvent, with what an event may be. *)
Fresh(e) ==
  \/ e.fd = Listen /\ e.ev = "in" /\ backlog # << >>
  \/ /\ e.fd \in Fds
     /\ peer[e.fd] # NULL
     /\ interest[e.fd] = e.ev
     /\ e.ev = "in" => Readable(conn[peer[e.fd]], "srv")

Reported == \A e \in events : Fresh(e)

IInv == Types /\ Linked /\ Once /\ Descriptors /\ Outgoing /\ Flying /\ Reported

-----------------------------------------------------------------------------
(* The calls on one connection *)

(* No connection and a new one are connections whose ends agree.           *)
LEMMA NewTyped ==
  /\ NoConn \in Connections /\ Link(NoConn)
  /\ NewConn \in Connections /\ Link(NewConn)
  /\ "srv" \in Ends /\ Other("srv") = "cli" /\ "cli" \in Ends /\ Other("cli") = "srv"
<1>1. NoConn \in Connections /\ NewConn \in Connections
  <2>1. \A S : \A x \in S : Both(x) \in [Ends -> S]
    BY DEF Both, Ends
  <2>2. << >> \in Seq(Messages) /\ "none" \in States /\ "est" \in States
    BY EmptySeq DEF States
  <2> QED BY <2>1, <2>2 DEF NoConn, NewConn, Connections
<1>2. Link(NoConn) /\ Link(NewConn)
  BY DEF NoConn, NewConn, Both, Link
<1>3. "srv" \in Ends /\ Other("srv") = "cli" /\ "cli" \in Ends /\ Other("cli") = "srv"
  BY DEF Ends, Other
<1> QED BY <1>1, <1>2, <1>3

(* recv empties one end of a connection; one that was reset is broken from *)
(* then on.                                                                *)
LEMMA RecvResult ==
  ASSUME NEW k \in Connections, Link(k), NEW e \in Ends, NEW a, a = AfterRecv(k, e)
  PROVE  /\ a \in Connections
         /\ Link(a)
         /\ a.rx[e] = << >>
         /\ a.rx[Other(e)] = k.rx[Other(e)]
         /\ a.st[Other(e)] = k.st[Other(e)]
         /\ \/ a.st[e] = k.st[e]
            \/ k.rx[e] = << >> /\ k.st[e] = "reset" /\ a.st[e] = "broken"
<1>1. a \in Connections
  BY EmptySeq DEF AfterRecv, Connections, Ends, States
<1>2. /\ a.rx[e] = << >>
      /\ a.rx[Other(e)] = k.rx[Other(e)]
      /\ a.st[Other(e)] = k.st[Other(e)]
      /\ \/ a.st[e] = k.st[e]
         \/ k.rx[e] = << >> /\ k.st[e] = "reset" /\ a.st[e] = "broken"
  <2>1. CASE e = "srv"
    BY <2>1 DEF AfterRecv, Connections, Ends, Other
  <2>2. CASE e = "cli"
    BY <2>2 DEF AfterRecv, Connections, Ends, Other
  <2> QED BY <2>1, <2>2 DEF Ends
<1>3. k = NoConn => a = NoConn
  BY DEF AfterRecv, NoConn, Both, Ends
<1>4. Link(a)
  BY <1>2, <1>3, NewTyped DEF Link, Gone, Ends, Other
<1> QED BY <1>1, <1>2, <1>4

(* send puts its data at the other end, or breaks a connection whose other *)
(* end is gone.                                                            *)
LEMMA SendResult ==
  ASSUME NEW k \in Connections, Link(k), NEW e \in Ends, k.st[e] \notin {"none", "closed"},
         k.rx[e] = << >>, NEW data \in Seq(Messages), NEW a, a = AfterSend(k, e, data)
  PROVE  /\ a \in Connections
         /\ Link(a)
         /\ a.rx[e] = << >>
         /\ a.st[Other(e)] = k.st[Other(e)]
         /\ IF k.st[e] = "est"
            THEN a.st[e] = "est" /\ a.rx[Other(e)] = k.rx[Other(e)] \o data
            ELSE a.st[e] = "broken" /\ a.rx[Other(e)] = k.rx[Other(e)]
<1>1. a \in Connections
  <2>1. k.rx[Other(e)] \o data \in Seq(Messages)
    BY ConcatProperties DEF Connections, Other, Ends
  <2> QED BY <2>1 DEF AfterSend, Connections, Other, Ends, States
<1>2. /\ a.rx[e] = << >>
      /\ a.st[Other(e)] = k.st[Other(e)]
      /\ IF k.st[e] = "est"
         THEN a.st[e] = "est" /\ a.rx[Other(e)] = k.rx[Other(e)] \o data
         ELSE a.st[e] = "broken" /\ a.rx[Other(e)] = k.rx[Other(e)]
  <2>1. CASE e = "srv"
    BY <2>1 DEF AfterSend, Connections, Ends, Other
  <2>2. CASE e = "cli"
    BY <2>2 DEF AfterSend, Connections, Ends, Other
  <2> QED BY <2>1, <2>2 DEF Ends
<1>3. k # NoConn
  BY DEF NoConn, Both, Ends
<1>4. Link(a)
  BY <1>2, <1>3 DEF Link, Gone, Ends, Other
<1> QED BY <1>1, <1>2, <1>4

(* close leaves the end or the reset at the other side, and nothing when   *)
(* that side had closed before.                                            *)
LEMMA CloseResult ==
  ASSUME NEW k \in Connections, Link(k), NEW e \in Ends, k.st[e] \notin {"none", "closed"},
         NEW a, a = AfterClose(k, e)
  PROVE  /\ a \in Connections
         /\ Link(a)
         /\ IF k.st[Other(e)] = "closed" THEN a = NoConn
            ELSE /\ a.st[e] = "closed" /\ a.st[Other(e)] \in {"fin", "reset"}
                 /\ a.rx[Other(e)] = k.rx[Other(e)]
<1>0. k # NoConn
  BY DEF NoConn, Both, Ends
<1>1. a \in Connections
  BY NewTyped, EmptySeq DEF AfterClose, Connections, Other, Ends, States
<1>2. CASE k.st[Other(e)] = "closed"
  BY <1>1, <1>2, NewTyped DEF AfterClose
<1>3. CASE k.st[Other(e)] # "closed"
  <2>1. k.st[Other(e)] = "est"
    BY <1>0, <1>3 DEF Link, Gone, Ends, Other
  <2>2. /\ a.st[e] = "closed" /\ a.st[Other(e)] \in {"fin", "reset"}
        /\ a.rx[Other(e)] = k.rx[Other(e)] /\ a.rx[e] = << >>
    <3>1. CASE e = "srv"
      BY <1>3, <2>1, <3>1 DEF AfterClose, Connections, Ends, Other
    <3>2. CASE e = "cli"
      BY <1>3, <2>1, <3>2 DEF AfterClose, Connections, Ends, Other
    <3> QED BY <3>1, <3>2 DEF Ends
  <2>3. Link(a)
    BY <2>2 DEF Link, Gone, Ends, Other
  <2> QED BY <1>1, <1>3, <2>2, <2>3
<1> QED BY <1>2, <1>3

(* A descriptor whose client is gone: recv and close leave nothing. *)
LEMMA EndResult ==
  ASSUME NEW k \in Connections, Link(k), k.st["srv"] \in Gone
  PROVE  AfterClose(AfterRecv(k, "srv"), "srv") = NoConn
<1>1. k.st["cli"] = "closed"
  BY DEF Link, Gone, NoConn, Both
<1>2. /\ AfterRecv(k, "srv") \in Connections
      /\ AfterRecv(k, "srv").st["cli"] = "closed"
  BY <1>1, NewTyped, RecvResult
<1> QED BY <1>2, NewTyped DEF AfterClose

(* A connection nobody accepted is reset when the server ends. *)
LEMMA ResetResult ==
  ASSUME NEW k \in Connections, Link(k), k.st["srv"] \notin {"none", "closed"},
         NEW a, a = AfterReset(k)
  PROVE  /\ a \in Connections
         /\ Link(a)
         /\ IF k.st["cli"] = "closed" THEN a = NoConn
            ELSE /\ a.st["srv"] = "closed" /\ a.st["cli"] \in {"fin", "reset"}
                 /\ a.rx["cli"] = k.rx["cli"]
<1>1. PICK b : b = AfterClose(k, "srv")
  OBVIOUS
<1>2. /\ b \in Connections
      /\ Link(b)
      /\ IF k.st["cli"] = "closed" THEN b = NoConn
         ELSE /\ b.st["srv"] = "closed" /\ b.st["cli"] \in {"fin", "reset"}
              /\ b.rx["cli"] = k.rx["cli"]
  BY <1>1, NewTyped, CloseResult
<1>3. a = IF b.st["cli"] = "fin" THEN [b EXCEPT !.st["cli"] = "reset"] ELSE b
  BY <1>1 DEF AfterReset
<1>4. CASE b.st["cli"] # "fin"
  BY <1>2, <1>3, <1>4
<1>5. CASE b.st["cli"] = "fin"
  <2>1. /\ a \in Connections
        /\ a.st["srv"] = b.st["srv"] /\ a.st["cli"] = "reset" /\ a.rx = b.rx
    BY <1>2, <1>3, <1>5 DEF Connections, Ends, States
  <2>2. b.st["srv"] = "closed"
    BY <1>2, <1>5 DEF Link, NoConn, Both
  <2> QED BY <1>2, <1>5, <2>1, <2>2 DEF Link, Gone, NoConn, Both
<1> QED BY <1>4, <1>5

-----------------------------------------------------------------------------
(* The accept queue and the descriptors *)

(* A client that connects is in the accept queue, behind the others.       *)
LEMMA QueueGrows ==
  ASSUME backlog \in Seq(Clients), NEW c \in Clients, backlog' = Append(backlog, c)
  PROVE  /\ backlog' \in Seq(Clients)
         /\ \A d \in Clients : Queued(d)' <=> Queued(d) \/ d = c
         /\ Once /\ ~Queued(c) => Once'
         /\ backlog' # << >>
<1>1. /\ backlog' \in Seq(Clients) /\ Len(backlog) \in Nat
      /\ Len(backlog') = Len(backlog) + 1
      /\ \A i \in 1..Len(backlog) : backlog'[i] = backlog[i]
      /\ backlog'[Len(backlog) + 1] = c
  BY AppendProperties, LenProperties
<1>2. \A d \in Clients : Queued(d)' <=> Queued(d) \/ d = c
  BY <1>1 DEF Queued
<1>3. ASSUME Once, ~Queued(c) PROVE Once'
  BY <1>1, <1>3 DEF Once, Queued
<1>4. backlog' # << >>
  BY <1>1, EmptySeq
<1> QED BY <1>1, <1>2, <1>3, <1>4

(* accept takes the first connection of the queue and leaves the others.   *)
LEMMA QueueShrinks ==
  ASSUME backlog \in Seq(Clients), Once, backlog # << >>, backlog' = Tail(backlog)
  PROVE  /\ backlog' \in Seq(Clients)
         /\ Head(backlog) \in Clients
         /\ Queued(Head(backlog))
         /\ \A d \in Clients : Queued(d)' <=> Queued(d) /\ d # Head(backlog)
         /\ Once'
<1>1. /\ backlog' \in Seq(Clients) /\ Head(backlog) \in Clients
      /\ Len(backlog) \in Nat /\ Len(backlog) > 0
      /\ Len(backlog') = Len(backlog) - 1
      /\ \A i \in 1..Len(backlog') : backlog'[i] = backlog[i + 1]
      /\ Head(backlog) = backlog[1]
  BY HeadTailProperties, LenProperties, EmptySeq
<1>2. Queued(Head(backlog))
  BY <1>1 DEF Queued
<1>3. ASSUME NEW d \in Clients
      PROVE  Queued(d)' <=> Queued(d) /\ d # Head(backlog)
  <2>1. ASSUME Queued(d)' PROVE Queued(d) /\ d # Head(backlog)
    BY <1>1, <2>1 DEF Queued, Once
  <2>2. ASSUME Queued(d), d # Head(backlog) PROVE Queued(d)'
    <3>1. PICK i \in 1..Len(backlog) : backlog[i] = d
      BY <2>2 DEF Queued
    <3>2. i - 1 \in 1..Len(backlog') /\ backlog'[i - 1] = d
      BY <1>1, <2>2, <3>1
    <3> QED BY <3>2 DEF Queued
  <2> QED BY <2>1, <2>2
<1>4. Once'
  BY <1>1 DEF Once
<1> QED BY <1>1, <1>2, <1>3, <1>4

(* Without a listening socket nobody is queued.                            *)
LEMMA QueueEmpties ==
  ASSUME backlog' = << >>
  PROVE  backlog' \in Seq(Clients) /\ (\A d \in Clients : ~Queued(d)') /\ Once'
<1>1. Len(backlog') = 0 /\ backlog' \in Seq(Clients)
  BY EmptySeq
<1> QED BY <1>1 DEF Queued, Once

(* A set of descriptors that is not empty has a lowest one. *)
LEMMA LowestIsFree ==
  ASSUME FreeFds # {}
  PROVE  LowestFree \in Fds /\ peer[LowestFree] = NULL
<1> DEFINE R == {ss \in Nat \X Nat : ss[1] < ss[2]}
<1>1. IsWellFoundedOn(R, Nat)
  BY NatLessThanWellFounded, Zenon DEF OpToRel
<1>2. \A x, y \in Nat : x < y => <<x, y>> \in R
  BY SMT
<1>3. FreeFds \subseteq Nat /\ FreeFds \subseteq Fds
  BY FdAssumption, SMT DEF FreeFds, Fds
<1> HIDE DEF R
<1>4. PICK f \in FreeFds : \A g \in FreeFds : ~(<<g, f>> \in R)
  BY <1>1, <1>3, WFMin, Zenon
<1>5. \A g \in FreeFds : f <= g
  <2>1. \A g \in FreeFds : ~(g < f)
    BY <1>2, <1>3, <1>4, Zenon
  <2> QED BY <1>3, <2>1, SMT
<1>6. LowestFree \in FreeFds
  BY <1>5, Zenon DEF LowestFree
<1> QED BY <1>3, <1>6 DEF FreeFds

(* What is handled is an event of the loop, and it is about that descriptor. *)
LEMMA HandledIsOpen ==
  ASSUME IInv, NEW f \in Fds, NEW ev, Handles(f, ev)
  PROVE  /\ peer[f] \in Clients
         /\ interest[f] = ev
         /\ ServerOpen(peer[f])
         /\ ev = "in" => Readable(conn[peer[f]], "srv")
         /\ alive
         /\ f # Listen
<1>1. f # Listen
  BY FdAssumption DEF Fds, Listen
<1>2. Fresh(Event(f, ev))
  BY DEF IInv, Reported, Handles
<1>3. /\ peer[f] # NULL /\ interest[f] = ev
      /\ ev = "in" => Readable(conn[peer[f]], "srv")
  BY <1>1, <1>2 DEF Fresh, Event
<1>4. peer[f] \in Clients
  BY <1>3 DEF IInv, Types
<1> QED BY <1>1, <1>3, <1>4 DEF IInv, Descriptors, Accepted, Handles

(* accept is called when a connection is queued.                           *)
LEMMA ListenIsReady ==
  ASSUME IInv, Handles(Listen, "in")
  PROVE  backlog # << >>
<1>1. Fresh(Event(Listen, "in"))
  BY DEF IInv, Reported, Handles
<1> QED BY <1>1, FdAssumption DEF Fresh, Event, Fds, Listen

-----------------------------------------------------------------------------
(* The steps of a client *)

(* What client c may say. *)
Texts == ({"hello", "got your message"} \X {0}) \cup ({"cnt"} \X (0..Wrap - 1))

Own(c) == {msg \in Messages : \E w \in Texts : msg = <<c>> \o w}

(* A message of a client begins with its name.                             *)
LEMMA Prefixed ==
  ASSUME NEW c, NEW t, NEW n
  PROVE  <<c>> \o <<t, n>> = <<c, t, n>>
<1> DEFINE S == {c, t, n}
           u == <<c>>
           v == <<t, n>>
           w == <<c, t, n>>
<1>1. u \in Seq(S) /\ v \in Seq(S) /\ w \in Seq(S)
  OBVIOUS
<1>2. /\ Len(u) = 1 /\ Len(v) = 2 /\ Len(w) = 3
      /\ u[1] = c /\ v[1] = t /\ v[2] = n /\ w[1] = c /\ w[2] = t /\ w[3] = n
  OBVIOUS
<1> HIDE DEF S, u, v, w
<1>3. PICK s : s = u \o v
  OBVIOUS
<1>4. /\ s \in Seq(S) /\ Len(s) = Len(u) + Len(v)
      /\ \A i \in 1..Len(u) + Len(v) : s[i] = IF i <= Len(u) THEN u[i] ELSE v[i - Len(u)]
  BY <1>1, <1>3, ConcatProperties, Zenon
<1>5. \A i \in 1..3 : s[i] = IF i <= 1 THEN u[i] ELSE v[i - 1]
  BY <1>2, <1>4
<1>6. Len(s) = 3 /\ \A i \in 1..3 : s[i] = w[i]
  BY <1>2, <1>4, <1>5
<1>7. s = w
  BY <1>1, <1>2, <1>4, <1>6, SeqEqual
<1> QED BY <1>3, <1>7 DEF u, v, w

(* Whatever a client says is one of its own messages.                      *)
LEMMA OwnMessages ==
  ASSUME NEW c \in Clients
  PROVE  /\ Hello(c) \in Own(c)
         /\ c \in ReplyClients => GotYourMessage(c) \in Own(c)
         /\ c \in EpollClients /\ cnt \in [EpollClients -> 0..Wrap - 1] => Counter(c) \in Own(c)
<1>1. \A t, n : <<c>> \o <<t, n>> = <<c, t, n>>
  BY Prefixed
<1>2. Hello(c) \in Own(c)
  <2>1. Hello(c) \in Messages /\ <<"hello", 0>> \in Texts
    BY DEF Messages, Texts
  <2> QED BY <1>1, <2>1 DEF Own, Hello
<1>3. ASSUME c \in ReplyClients PROVE GotYourMessage(c) \in Own(c)
  <2>1. GotYourMessage(c) \in Messages /\ <<"got your message", 0>> \in Texts
    BY <1>3 DEF Messages, Texts
  <2> QED BY <1>1, <2>1 DEF Own, GotYourMessage
<1>4. ASSUME c \in EpollClients, cnt \in [EpollClients -> 0..Wrap - 1] PROVE Counter(c) \in Own(c)
  <2>1. Counter(c) \in Messages /\ <<"cnt", cnt[c]>> \in Texts
    BY <1>4 DEF Messages, Texts, Counter
  <2> QED BY <1>1, <2>1 DEF Own, Counter
<1> QED BY <1>2, <1>3, <1>4

Says(c, msg, next) ==
  /\ pc[c] \in {"hello", "reply"}
  /\ Send(c, msg, next)

Sleeps(c, next) ==
  /\ GetsEnd(c)
  /\ conn' = [conn EXCEPT ![c] = AfterRecv(@, "cli")]
  /\ pc' = [pc EXCEPT ![c] = next]
  /\ UNCHANGED <<backlog, sent>>

(* The three kinds of clients send, receive, wait on and leave.            *)
LEMMA ClientSteps ==
  ASSUME Types, NEW c \in Clients, ClientStep(c) \/ ClientInterrupt(c)
  PROVE  /\ cnt' \in [EpollClients -> 0..Wrap - 1]
         /\ UNCHANGED <<serverVars, backlog>>
         /\ \/ \E msg \in Own(c) : \E next \in {"first", "wait"} : Says(c, msg, next)
            \/ Receive(c)
            \/ \E next \in {"asleep", pc[c]} : Sleeps(c, next)
            \/ pc[c] # "off" /\ Exit(c)
<1>1. Hello(c) \in Own(c) /\ "first" \in {"first", "wait"} /\ "wait" \in {"first", "wait"}
  BY OwnMessages
<1>2. CASE c \in ReplyClients /\ ReplyStep(c) /\ UNCHANGED <<cnt, serverVars>>
  <2>1. GotYourMessage(c) \in Own(c)
    BY <1>2, OwnMessages
  <2>2. CASE SayHello(c)
    <3>1. Says(c, Hello(c), "first") /\ UNCHANGED backlog
      BY <2>2 DEF SayHello, Says, Send
    <3> QED BY <1>1, <1>2, <3>1 DEF Types
  <2>3. CASE Receive(c)
    BY <1>2, <2>3 DEF Receive, Types
  <2>4. CASE ReplyAnswer(c)
    <3>1. Says(c, GotYourMessage(c), "wait") /\ UNCHANGED backlog
      BY <2>4 DEF ReplyAnswer, Says, Send
    <3> QED BY <1>1, <1>2, <2>1, <3>1 DEF Types
  <2>5. CASE ReplyEnd(c)
    BY <1>2, <2>5 DEF ReplyEnd, GetsEnd, Waiting, Exit, Types
  <2> QED BY <1>2, <2>2, <2>3, <2>4, <2>5 DEF ReplyStep
<1>3. CASE c \in EpollClients /\ EpollStep(c) /\ UNCHANGED serverVars
  <2>1. Counter(c) \in Own(c)
    BY <1>3, OwnMessages DEF Types
  <2>2. CASE EpollHello(c)
    <3>1. Says(c, Hello(c), "first") /\ UNCHANGED backlog
      BY <2>2 DEF EpollHello, SayHello, Says, Send
    <3> QED BY <1>1, <1>3, <2>2, <3>1 DEF EpollHello, Types
  <2>3. CASE EpollReceive(c)
    BY <1>3, <2>3 DEF EpollReceive, Receive, Types
  <2>4. CASE EpollAnswer(c)
    <3>1. cnt' \in [EpollClients -> 0..Wrap - 1]
      BY <1>3, <2>4, EpollAssumption DEF EpollAnswer, Types
    <3>2. Says(c, Counter(c), "wait") /\ UNCHANGED backlog
      BY <2>4 DEF EpollAnswer, Says, Send
    <3> QED BY <1>1, <1>3, <2>1, <3>1, <3>2
  <2>5. CASE EpollEnd(c)
    <3>1. pc' = [pc EXCEPT ![c] = "asleep"] \/ pc' = [pc EXCEPT ![c] = pc[c]]
      BY <2>5 DEF EpollEnd
    <3> QED BY <1>3, <2>5, <3>1 DEF EpollEnd, Sleeps, Types
  <2> QED BY <1>3, <2>2, <2>3, <2>4, <2>5 DEF EpollStep
<1>4. CASE ClientInterrupt(c)
  BY <1>4 DEF ClientInterrupt, InterruptAny, Interrupt, Exit, Types
<1> QED BY <1>2, <1>3, <1>4 DEF ClientStep, StepAny

(* What a step of client c does to its own connection, and to nothing else *)
(* the server knows of.                                                    *)
Keeps(c) ==
  /\ conn' \in [Clients -> Connections] /\ pc' \in [Clients -> PCs]
  /\ sent' \in [Clients -> Messages]
  /\ \A d \in Clients \ {c} : conn'[d] = conn[d] /\ pc'[d] = pc[d] /\ sent'[d] = sent[d]
  /\ Joined(c)' /\ Flight(c)'
  /\ ServerOpen(c)' <=> ServerOpen(c)
  /\ conn'[c].st["srv"] = "closed" => conn[c].st["srv"] = "closed"
  /\ ServerOpen(c) /\ Readable(conn[c], "srv") => Readable(conn'[c], "srv")
  /\ \A f \in Fds : interest[f] = "out" /\ peer[f] = c => KeptFor(f, c)'

(* A message said on a quiet connection is all there is to read of it,     *)
(* unless the server is gone.                                              *)
LEMMA SpeechResult ==
  ASSUME NEW k \in Connections, Link(k), k.st["cli"] \notin {"none", "closed"},
         k.rx["srv"] = << >>, k.rx["cli"] = << >>, NEW msg \in Messages,
         NEW a, a = AfterSend(k, "cli", <<msg>>)
  PROVE  /\ a \in Connections /\ Link(a)
         /\ a.rx["cli"] = << >>
         /\ a.st["srv"] = k.st["srv"]
         /\ IF k.st["cli"] = "est" THEN a.st["cli"] = "est" /\ a.rx["srv"] = <<msg>>
                                  ELSE a.st["cli"] = "broken" /\ a.rx["srv"] = << >>
<1>1. PICK data \in Seq(Messages) : data = <<msg>> /\ << >> \o data = data
  <2>1. <<msg>> \in Seq(Messages) /\ << >> \o <<msg>> = <<msg>>
    OBVIOUS
  <2> QED BY <2>1
<1>2. "cli" \in Ends /\ Other("cli") = "srv"
  BY NewTyped
<1>3. a = AfterSend(k, "cli", data)
  BY <1>1
<1>4. a \in Connections /\ Link(a) /\ a.rx["cli"] = << >>
  BY <1>2, <1>3, SendResult
<1>5. a.st[Other("cli")] = k.st[Other("cli")]
  BY <1>2, <1>3, SendResult
<1>6. IF k.st["cli"] = "est" THEN a.st["cli"] = "est" /\ a.rx["srv"] = k.rx["srv"] \o data
                            ELSE a.st["cli"] = "broken" /\ a.rx["srv"] = k.rx["srv"]
  BY <1>2, <1>3 DEF AfterSend, Connections, Ends
<1> QED BY <1>1, <1>2, <1>4, <1>5, <1>6

(* A client that is about to speak has an empty line; it speaks to a       *)
(* server that is there, or its words are lost.                            *)
LEMMA SaysResult ==
  ASSUME IInv, NEW c \in Clients, UNCHANGED serverVars,
         NEW msg \in Messages, NEW next \in {"first", "wait"}, Says(c, msg, next)
  PROVE  /\ Keeps(c) /\ sent'[c] = msg
         /\ Talk(c) = "client" /\ Talk(c)' = IF ServerOpen(c) THEN "server" ELSE "client"
<1> DEFINE k == conn[c]
<1>1. /\ k \in Connections /\ Link(k) /\ pc[c] \in {"hello", "reply"}
      /\ k.st["cli"] \notin {"none", "closed", "broken"}
      /\ k.rx["srv"] = << >> /\ k.rx["cli"] = << >>
  BY DEF Says, IInv, Types, Linked, Joined, Flying, Flight
<1>2. \A f \in Fds : ~(interest[f] = "out" /\ peer[f] = c)
  BY <1>1 DEF IInv, Outgoing, KeptFor
<1>3. PICK a : a = AfterSend(k, "cli", <<msg>>)
  OBVIOUS
<1>5. /\ a \in Connections /\ Link(a)
      /\ a.rx["cli"] = << >>
      /\ a.st["srv"] = k.st["srv"]
      /\ IF k.st["cli"] = "est" THEN a.st["cli"] = "est" /\ a.rx["srv"] = <<msg>>
                               ELSE a.st["cli"] = "broken" /\ a.rx["srv"] = << >>
  BY <1>1, <1>3, SpeechResult
<1>6. /\ conn' = [conn EXCEPT ![c] = a] /\ pc' = [pc EXCEPT ![c] = next]
      /\ sent' = [sent EXCEPT ![c] = msg] /\ UNCHANGED <<peer, interest>>
  BY <1>3 DEF Says, Send, serverVars
<1>7. conn'[c] = a /\ pc'[c] = next /\ sent'[c] = msg
  BY <1>6 DEF IInv, Types
<1>8. /\ conn' \in [Clients -> Connections] /\ pc' \in [Clients -> PCs]
      /\ sent' \in [Clients -> Messages]
      /\ \A d \in Clients \ {c} : conn'[d] = conn[d] /\ pc'[d] = pc[d] /\ sent'[d] = sent[d]
  BY <1>5, <1>6 DEF IInv, Types, PCs
<1>9. k.st["cli"] = "est" <=> ServerOpen(c)
  BY <1>1 DEF Link, Gone, NoConn, Both, ServerOpen
<1>10. Joined(c)'
  BY <1>5, <1>7 DEF Joined
<1>11. Flight(c)'
  BY <1>5, <1>7, <1>9 DEF Flight, ServerOpen
<1>12. Readable(k, "srv") => Readable(a, "srv")
  BY <1>1, <1>5 DEF Readable
<1>13. Talk(c) = "client"
  BY <1>1 DEF Talk, Waiting
<1>14. Talk(c)' = IF ServerOpen(c) THEN "server" ELSE "client"
  BY <1>5, <1>7 DEF Talk, Waiting, ServerOpen
<1> QED BY <1>2, <1>5, <1>7, <1>8, <1>10, <1>11, <1>12, <1>13, <1>14 DEF Keeps, ServerOpen

(* An answer received leaves nothing under way: it is the client's turn.   *)
LEMMA ReceiveResult ==
  ASSUME IInv, NEW c \in Clients, UNCHANGED serverVars, Receive(c)
  PROVE  Keeps(c) /\ Talk(c) = "answer" /\ Talk(c)' = "client"
<1> DEFINE k == conn[c]
<1>1. /\ k \in Connections /\ Link(k) /\ pc[c] \in {"first", "wait"}
      /\ k.rx["cli"] # << >>
  BY DEF Receive, GetsData, Waiting, IInv, Types, Linked, Joined
<1>2. \A f \in Fds : ~(interest[f] = "out" /\ peer[f] = c)
  BY <1>1 DEF IInv, Outgoing, KeptFor
<1>3. k.rx["srv"] = << >> /\ k.st["cli"] \notin {"none", "closed", "broken"}
  <2>1. k.st["cli"] \notin {"none", "closed", "broken"}
    BY <1>1 DEF Link, IInv, Linked, Joined
  <2>2. CASE ServerOpen(c)
    <3>1. Flight(c) /\ Waiting(c) /\ ~Out(c)
      BY <1>1, <1>2, Zenon DEF IInv, Flying, Waiting, Out
    <3>2. k.rx["srv"] = << >>
      BY <1>1, <2>2, <3>1 DEF Flight
    <3> QED BY <2>1, <3>2
  <2>3. CASE ~ServerOpen(c)
    BY <1>1, <2>1, <2>3 DEF ServerOpen, Link, NoConn, Both
  <2> QED BY <2>1, <2>2, <2>3
<1>4. PICK a : a = AfterRecv(k, "cli")
  OBVIOUS
<1>5. /\ a \in Connections /\ Link(a)
      /\ a.rx["cli"] = << >> /\ a.rx["srv"] = << >>
      /\ a.st["srv"] = k.st["srv"] /\ a.st["cli"] = k.st["cli"]
  BY <1>1, <1>3, <1>4, NewTyped, RecvResult
<1>6. /\ conn' = [conn EXCEPT ![c] = a] /\ pc' = [pc EXCEPT ![c] = "reply"]
      /\ UNCHANGED <<sent, peer, interest>>
  BY <1>4 DEF Receive, serverVars
<1>7. conn'[c] = a /\ pc'[c] = "reply"
  BY <1>6 DEF IInv, Types
<1>8. /\ conn' \in [Clients -> Connections] /\ pc' \in [Clients -> PCs]
      /\ sent' \in [Clients -> Messages]
      /\ \A d \in Clients \ {c} : conn'[d] = conn[d] /\ pc'[d] = pc[d] /\ sent'[d] = sent[d]
  BY <1>5, <1>6 DEF IInv, Types, PCs
<1>9. Joined(c)' /\ Flight(c)'
  BY <1>3, <1>5, <1>7 DEF Joined, Flight, Waiting
<1>10. Readable(k, "srv") => Readable(a, "srv")
  BY <1>3, <1>5 DEF Readable
<1>11. Talk(c) = "answer" /\ Talk(c)' = "client"
  BY <1>1, <1>7 DEF Talk, Waiting
<1> QED BY <1>2, <1>5, <1>7, <1>8, <1>9, <1>10, <1>11 DEF Keeps, ServerOpen

(* A client hears of the end only when the server closed.                  *)
LEMMA SleepsResult ==
  ASSUME IInv, NEW c \in Clients, UNCHANGED serverVars,
         NEW next \in {"asleep", pc[c]}, Sleeps(c, next)
  PROVE  Keeps(c) /\ Talk(c) = "client" /\ Talk(c)' = "client"
<1> DEFINE k == conn[c]
<1>1. /\ k \in Connections /\ Link(k) /\ pc[c] \in {"first", "wait"}
      /\ k.rx["cli"] = << >> /\ k.st["cli"] \in Gone
  BY DEF Sleeps, GetsEnd, Readable, Waiting, Gone, IInv, Types, Linked, Joined
<1>2. k.st["srv"] = "closed" /\ k.rx["srv"] = << >> /\ ~ServerOpen(c)
  BY <1>1 DEF Link, Gone, NoConn, Both, ServerOpen
<1>3. \A f \in Fds : ~(interest[f] = "out" /\ peer[f] = c)
  BY <1>2 DEF IInv, Descriptors, Accepted
<1>4. PICK a : a = AfterRecv(k, "cli")
  OBVIOUS
<1>5. /\ a \in Connections /\ Link(a)
      /\ a.rx["cli"] = << >> /\ a.rx["srv"] = << >>
      /\ a.st["srv"] = "closed" /\ a.st["cli"] \in Gone
  BY <1>1, <1>2, <1>4, NewTyped, RecvResult DEF Gone
<1>6. /\ conn' = [conn EXCEPT ![c] = a] /\ pc' = [pc EXCEPT ![c] = next]
      /\ UNCHANGED <<sent, peer, interest>>
  BY <1>4 DEF Sleeps, serverVars
<1>7. conn'[c] = a /\ pc'[c] = next /\ next \in {"asleep", "first", "wait"}
  BY <1>1, <1>6 DEF IInv, Types
<1>8. /\ conn' \in [Clients -> Connections] /\ pc' \in [Clients -> PCs]
      /\ sent' \in [Clients -> Messages]
      /\ \A d \in Clients \ {c} : conn'[d] = conn[d] /\ pc'[d] = pc[d] /\ sent'[d] = sent[d]
  BY <1>5, <1>6, <1>7 DEF IInv, Types, PCs
<1>9. Joined(c)' /\ Flight(c)' /\ ~ServerOpen(c)'
  BY <1>5, <1>7 DEF Joined, Flight, Waiting, ServerOpen, Gone
<1>10. Talk(c) = "client" /\ Talk(c)' = "client"
  BY <1>1, <1>2, <1>5, <1>7, <1>9 DEF Talk, Waiting
<1> QED BY <1>2, <1>3, <1>8, <1>9, <1>10 DEF Keeps

(* A client that leaves closes its end.                                    *)
LEMMA ExitResult ==
  ASSUME IInv, NEW c \in Clients, UNCHANGED serverVars, pc[c] # "off", Exit(c)
  PROVE  Keeps(c) /\ Talk(c)' = "client"
<1> DEFINE k == conn[c]
<1>1. k \in Connections /\ Link(k) /\ k.st["cli"] \notin {"none", "closed"}
  BY DEF IInv, Types, Linked, Joined
<1>2. PICK a : a = AfterClose(k, "cli")
  OBVIOUS
<1>3. /\ a \in Connections /\ Link(a)
      /\ IF k.st["srv"] = "closed" THEN a = NoConn
         ELSE /\ a.st["cli"] = "closed" /\ a.st["srv"] \in {"fin", "reset"}
              /\ a.rx["srv"] = k.rx["srv"]
  BY <1>1, <1>2, NewTyped, CloseResult
<1>4. a.st["cli"] \in {"none", "closed"} /\ a.rx["cli"] = << >>
  BY <1>3 DEF Link, NoConn, Both
<1>5. /\ conn' = [conn EXCEPT ![c] = a] /\ pc' = [pc EXCEPT ![c] = "off"]
      /\ UNCHANGED <<sent, peer, interest, m>>
  BY <1>2 DEF Exit, serverVars
<1>6. conn'[c] = a /\ pc'[c] = "off"
  BY <1>5 DEF IInv, Types
<1>7. /\ conn' \in [Clients -> Connections] /\ pc' \in [Clients -> PCs]
      /\ sent' \in [Clients -> Messages]
      /\ \A d \in Clients \ {c} : conn'[d] = conn[d] /\ pc'[d] = pc[d] /\ sent'[d] = sent[d]
  BY <1>3, <1>5 DEF IInv, Types, PCs
<1>8. Joined(c)' /\ Flight(c)'
  BY <1>3, <1>4, <1>6 DEF Joined, Flight, Waiting
<1>9. k.st["srv"] # "none" /\ (ServerOpen(c) <=> k.st["srv"] # "closed")
  BY <1>1 DEF ServerOpen, Link, NoConn, Both, Gone
<1>10. /\ ServerOpen(c)' <=> ServerOpen(c)
       /\ a.st["srv"] # "closed"
       /\ ServerOpen(c) => Readable(a, "srv")
  BY <1>3, <1>6, <1>9 DEF ServerOpen, NoConn, Both, Readable
<1>11. ASSUME NEW f \in Fds, interest[f] = "out", peer[f] = c PROVE KeptFor(f, c)'
  <2>1. KeptFor(f, c) /\ ServerOpen(c)
    BY <1>11 DEF IInv, Outgoing, Descriptors, Accepted
  <2> QED BY <1>3, <1>4, <1>6, <1>9, <2>1 DEF KeptFor, Waiting
<1>12. Talk(c)' = "client"
  BY <1>6 DEF Talk, Waiting
<1> QED BY <1>6, <1>7, <1>8, <1>10, <1>11, <1>12 DEF Keeps

(* Steps of a client and its interruption.                                 *)
LEMMA ClientKeeps ==
  ASSUME IInv, NEW c \in Clients, ClientStep(c) \/ ClientInterrupt(c)
  PROVE  IInv'
<1>1. /\ cnt' \in [EpollClients -> 0..Wrap - 1]
      /\ UNCHANGED <<serverVars, backlog>>
      /\ \/ \E msg \in Own(c) : \E next \in {"first", "wait"} : Says(c, msg, next)
         \/ Receive(c)
         \/ \E next \in {"asleep", pc[c]} : Sleeps(c, next)
         \/ pc[c] # "off" /\ Exit(c)
  BY ClientSteps DEF IInv
<1>2. Keeps(c)
  BY <1>1, SaysResult, ReceiveResult, SleepsResult, ExitResult DEF Own
<1>3. UNCHANGED <<backlog, alive, peer, interest, events, m, edge>>
  BY <1>1 DEF serverVars
<1>4. Types'
  <2>1. conn' \in [Clients -> Connections] /\ pc' \in [Clients -> PCs] /\ sent' \in [Clients -> Messages]
    BY <1>2 DEF Keeps
  <2> QED BY <1>1, <1>3, <2>1, Zenon DEF IInv, Types
<1>5. ASSUME NEW d \in Clients, d # c
      PROVE  conn'[d] = conn[d] /\ pc'[d] = pc[d] /\ sent'[d] = sent[d]
  BY <1>2, <1>5 DEF Keeps
<1>6. Linked' /\ Flying'
  <2>1. ASSUME NEW d \in Clients PROVE Joined(d)' /\ Flight(d)'
    <3>1. CASE d = c
      BY <1>2, <3>1 DEF Keeps
    <3>2. CASE d # c
      <4>1. Joined(d) /\ Flight(d)
        BY DEF IInv, Linked, Flying
      <4>2. Out(d)' <=> Out(d)
        BY <1>3 DEF Out
      <4> QED BY <1>5, <3>2, <4>1, <4>2 DEF Joined, Flight, Waiting, ServerOpen
    <3> QED BY <3>1, <3>2
  <2> QED BY <2>1 DEF Linked, Flying
<1>7. Once'
  BY <1>3 DEF IInv, Once
<1>8. ASSUME NEW d \in Clients
      PROVE  /\ ServerOpen(d)' <=> ServerOpen(d)
             /\ conn'[d].st["srv"] = "closed" => conn[d].st["srv"] = "closed"
             /\ ServerOpen(d) /\ Readable(conn[d], "srv") => Readable(conn'[d], "srv")
  BY <1>2, <1>5 DEF Keeps, ServerOpen
<1>9. Descriptors'
  <2>1. \A d \in Clients : (Queued(d)' <=> Queued(d)) /\ (Accepted(d)' <=> Accepted(d))
    BY <1>3 DEF Queued, Accepted
  <2>2. Descriptors
    BY DEF IInv
  <2> QED BY <1>3, <1>8, <2>1, <2>2 DEF Descriptors
<1>10. Outgoing'
  <2>1. ASSUME NEW f \in Fds, interest[f] = "out" PROVE KeptFor(f, peer[f])'
    <3>1. peer[f] \in Clients /\ KeptFor(f, peer[f])
      BY <2>1 DEF IInv, Descriptors, Types, Outgoing
    <3>2. PICK d \in Clients : d = peer[f] /\ KeptFor(f, d)
      BY <3>1
    <3>3. KeptFor(f, d)'
      <4>1. CASE d = c
        BY <1>2, <2>1, <3>2, <4>1 DEF Keeps
      <4>2. CASE d # c
        BY <1>3, <1>5, <3>2, <4>2 DEF KeptFor, Waiting
      <4> QED BY <4>1, <4>2
    <3>4. peer'[f] = d
      BY <1>3, <3>2
    <3> QED BY <3>3, <3>4 DEF KeptFor, Waiting
  <2> QED BY <1>3, <2>1 DEF Outgoing
<1>11. Reported'
  <2>1. ASSUME NEW e \in events PROVE Fresh(e)'
    <3>1. Fresh(e)
      BY DEF IInv, Reported
    <3>2. CASE e.fd \in Fds /\ peer[e.fd] # NULL
      <4>1. PICK d \in Clients : d = peer[e.fd]
        BY <3>2 DEF IInv, Types
      <4>2. ServerOpen(d)
        BY <3>2, <4>1 DEF IInv, Descriptors, Accepted
      <4> QED BY <1>3, <1>8, <3>1, <3>2, <4>1, <4>2 DEF Fresh
    <3> QED BY <1>3, <3>1, <3>2 DEF Fresh
  <2> QED BY <1>3, <2>1 DEF Reported
<1> QED BY <1>4, <1>6, <1>7, <1>9, <1>10, <1>11 DEF IInv

(* A new process connects: its connection is queued and nothing else.      *)
LEMMA ArriveKeeps ==
  ASSUME IInv, NEW c \in Clients, Arrive(c)
  PROVE  IInv'
<1>1. /\ pc[c] = "off" /\ conn[c] = NoConn
      /\ conn' = [conn EXCEPT ![c] = NewConn] /\ backlog' = Append(backlog, c)
      /\ pc' = [pc EXCEPT ![c] = "hello"] /\ sent' = [sent EXCEPT ![c] = Hello(c)]
  BY DEF Arrive, OpenAny, OpenEpoll, Open, Connect
<1>2. UNCHANGED <<alive, peer, interest, events, m>> /\ alive /\ edge' = TRUE
  BY DEF Arrive
<1>3. cnt' \in [EpollClients -> 0..Wrap - 1]
  <2>1. cnt' = cnt \/ cnt' = [cnt EXCEPT ![c] = 0]
    BY DEF Arrive, OpenAny, OpenEpoll
  <2>2. 0 \in 0..Wrap - 1 /\ cnt \in [EpollClients -> 0..Wrap - 1]
    BY EpollAssumption DEF IInv, Types
  <2> QED BY <2>1, <2>2
<1>4. Hello(c) \in Messages
  BY DEF Messages
<1>5. /\ conn'[c] = NewConn /\ pc'[c] = "hello" /\ sent'[c] = Hello(c)
      /\ \A d \in Clients \ {c} : conn'[d] = conn[d] /\ pc'[d] = pc[d] /\ sent'[d] = sent[d]
  BY <1>1 DEF IInv, Types
<1>6. ~ServerOpen(c) /\ ~Queued(c) /\ ~Accepted(c)
  BY <1>1 DEF IInv, Descriptors, ServerOpen, NoConn, Both
<1>7. /\ backlog' \in Seq(Clients)
      /\ \A d \in Clients : Queued(d)' <=> Queued(d) \/ d = c
      /\ Once' /\ backlog' # << >>
  BY <1>1, <1>6, QueueGrows DEF IInv, Types
<1>8. Types'
  <2>1. /\ conn' \in [Clients -> Connections] /\ pc' \in [Clients -> PCs]
        /\ sent' \in [Clients -> Messages] /\ edge' \in BOOLEAN
    BY <1>1, <1>2, <1>4, NewTyped DEF IInv, Types, PCs
  <2> QED BY <1>2, <1>3, <1>7, <2>1, Zenon DEF IInv, Types
<1>9. Linked' /\ Flying'
  <2>1. ASSUME NEW d \in Clients PROVE Joined(d)' /\ Flight(d)'
    <3>1. CASE d = c
      BY <1>5, <3>1, NewTyped DEF Joined, Flight, Waiting, NewConn, Both
    <3>2. CASE d # c
      <4>1. Joined(d) /\ Flight(d)
        BY DEF IInv, Linked, Flying
      <4>2. Out(d)' <=> Out(d)
        BY <1>2 DEF Out
      <4> QED BY <1>5, <3>2, <4>1, <4>2 DEF Joined, Flight, Waiting, ServerOpen
    <3> QED BY <3>1, <3>2
  <2> QED BY <2>1 DEF Linked, Flying
<1>10. Descriptors'
  <2>1. \A d \in Clients : Accepted(d)' <=> Accepted(d)
    BY <1>2 DEF Accepted
  <2>2. \A d \in Clients \ {c} : ServerOpen(d)' <=> ServerOpen(d)
    BY <1>5 DEF ServerOpen
  <2>3. ServerOpen(c)' /\ conn'[c].st["srv"] # "closed"
    BY <1>5 DEF ServerOpen, NewConn, Both
  <2> QED BY <1>2, <1>5, <1>6, <1>7, <2>1, <2>2, <2>3 DEF IInv, Descriptors
<1>11. Outgoing'
  <2>1. ASSUME NEW f \in Fds, interest[f] = "out" PROVE KeptFor(f, peer[f])'
    <3>1. PICK d \in Clients : d = peer[f] /\ KeptFor(f, d)
      BY <2>1 DEF IInv, Descriptors, Types, Outgoing
    <3>2. d # c
      BY <1>6, <3>1 DEF Accepted
    <3> QED BY <1>2, <1>5, <3>1, <3>2 DEF KeptFor, Waiting
  <2> QED BY <1>2, <2>1 DEF Outgoing
<1>12. Reported'
  <2>1. ASSUME NEW e \in events PROVE Fresh(e)'
    <3>1. Fresh(e)
      BY DEF IInv, Reported
    <3>2. CASE e.fd \in Fds /\ peer[e.fd] # NULL
      <4>1. PICK d \in Clients : d = peer[e.fd]
        BY <3>2 DEF IInv, Types
      <4>2. d # c
        BY <1>6, <3>2, <4>1 DEF Accepted
      <4> QED BY <1>2, <1>5, <1>7, <3>1, <3>2, <4>1, <4>2 DEF Fresh
    <3> QED BY <1>2, <1>7, <3>1, <3>2 DEF Fresh
  <2> QED BY <1>2, <2>1 DEF Reported
<1> QED BY <1>7, <1>8, <1>9, <1>10, <1>11, <1>12 DEF IInv

-----------------------------------------------------------------------------
(* The steps of the server *)

(* What handling an event of descriptor f does: only the connection of its *)
(* client c and what the loop keeps for f change.                          *)
Deals(f, c) ==
  /\ peer[f] = c /\ alive
  /\ conn' \in [Clients -> Connections]
  /\ \A d \in Clients \ {c} : conn'[d] = conn[d]
  /\ peer' \in [Fds -> Clients \cup {NULL}]
  /\ interest' \in [Fds -> {"none", "in", "out"}]
  /\ m' \in [Fds -> Seq(Messages)]
  /\ \A g \in Fds \ {f} : peer'[g] = peer[g] /\ interest'[g] = interest[g] /\ m'[g] = m[g]
  /\ events' = events \ {Event(f, interest[f])}
  /\ UNCHANGED <<backlog, alive, edge, allClientVars>>
  /\ Joined(c)' /\ Flight(c)'
  /\ conn'[c].st["srv"] # "closed"
  /\ \/ peer'[f] = c /\ interest'[f] # "none" /\ ServerOpen(c)'
     \/ peer'[f] = NULL /\ interest'[f] = "none" /\ ~ServerOpen(c)'
  /\ interest'[f] = "out" => KeptFor(f, c)'

(* Whatever the server does to one connection it has accepted.             *)
LEMMA DealsKeeps ==
  ASSUME IInv, NEW f \in Fds, NEW c \in Clients, Deals(f, c)
  PROVE  IInv'
<1>1. /\ UNCHANGED <<backlog, alive, edge, pc, sent, cnt>> /\ alive
      /\ \A d \in Clients \ {c} : conn'[d] = conn[d]
      /\ \A g \in Fds \ {f} : peer'[g] = peer[g] /\ interest'[g] = interest[g] /\ m'[g] = m[g]
      /\ peer[f] = c /\ c # NULL
      /\ events' \subseteq events
  BY FdAssumption DEF Deals, allClientVars, clientVars
<1>2. Types'
  <2>1. /\ conn' \in [Clients -> Connections]
        /\ peer' \in [Fds -> Clients \cup {NULL}]
        /\ interest' \in [Fds -> {"none", "in", "out"}]
        /\ m' \in [Fds -> Seq(Messages)]
    BY DEF Deals
  <2> QED BY <1>1, <2>1, Zenon DEF IInv, Types
<1>3. \A g \in Fds \ {f} : peer[g] # c /\ peer'[g] # c
  BY <1>1 DEF IInv, Descriptors
<1>4. \A d \in Clients \ {c} : (Accepted(d)' <=> Accepted(d)) /\ (Out(d)' <=> Out(d))
  <2>1. peer'[f] \in {c, NULL}
    BY DEF Deals
  <2> QED BY <1>1, <2>1, FdAssumption DEF Accepted, Out
<1>5. Linked' /\ Flying'
  <2>1. ASSUME NEW d \in Clients PROVE Joined(d)' /\ Flight(d)'
    <3>1. CASE d = c
      BY <3>1 DEF Deals
    <3>2. CASE d # c
      <4>1. Joined(d) /\ Flight(d)
        BY DEF IInv, Linked, Flying
      <4> QED BY <1>1, <1>4, <3>2, <4>1 DEF Joined, Flight, Waiting, ServerOpen
    <3> QED BY <3>1, <3>2
  <2> QED BY <2>1 DEF Linked, Flying
<1>6. Once'
  BY <1>1 DEF IInv, Once
<1>7. \A d \in Clients : Queued(d)' <=> Queued(d)
  BY <1>1 DEF Queued
<1>8. /\ Accepted(c)' <=> ServerOpen(c)'
      /\ conn'[c].st["srv"] # "closed"
      /\ ~Queued(c)
  <2>1. ~Queued(c)
    BY <1>1 DEF IInv, Descriptors, Accepted
  <2> QED BY <1>3, <2>1, FdAssumption DEF Deals, Accepted
<1>9. Descriptors'
  <2>1. \A g, h \in Fds : peer'[g] # NULL /\ peer'[g] = peer'[h] => g = h
    <3>1. peer'[f] \in {c, NULL}
      BY DEF Deals
    <3> QED BY <1>1, <1>3, <3>1 DEF IInv, Descriptors
  <2>2. \A g \in Fds : interest'[g] = "none" <=> peer'[g] = NULL
    <3>1. interest'[f] = "none" <=> peer'[f] = NULL
      BY <1>1 DEF Deals
    <3> QED BY <1>1, <3>1 DEF IInv, Descriptors
  <2>3. ASSUME NEW d \in Clients
        PROVE  /\ ServerOpen(d)' <=> Queued(d)' \/ Accepted(d)'
               /\ Queued(d)' => ~Accepted(d)'
               /\ alive' => conn'[d].st["srv"] # "closed"
    <3>1. CASE d = c
      BY <1>7, <1>8, <3>1
    <3>2. CASE d # c
      BY <1>1, <1>4, <1>7, <3>2 DEF IInv, Descriptors, ServerOpen
    <3> QED BY <3>1, <3>2
  <2> QED BY <2>1, <2>2, <2>3 DEF Descriptors
<1>10. Outgoing'
  <2>1. ASSUME NEW g \in Fds, interest'[g] = "out" PROVE KeptFor(g, peer[g])' 
    <3>1. CASE g = f
      <4>1. peer'[f] = c /\ KeptFor(f, c)'
        BY <2>1, <3>1 DEF Deals
      <4> QED BY <3>1, <4>1 DEF KeptFor, Waiting
    <3>2. CASE g # f
      <4>1. interest[g] = "out" /\ peer[g] # c /\ peer'[g] = peer[g] /\ m'[g] = m[g]
        BY <1>1, <1>3, <2>1, <3>2
      <4>2. PICK d \in Clients : d = peer[g] /\ KeptFor(g, d)
        BY <4>1 DEF IInv, Descriptors, Types, Outgoing
      <4> QED BY <1>1, <4>1, <4>2 DEF KeptFor, Waiting
    <3> QED BY <3>1, <3>2
  <2> QED BY <2>1 DEF Outgoing
<1>11. Reported'
  <2>1. ASSUME NEW e \in events' PROVE Fresh(e)'
    <3>1. Fresh(e)
      BY <1>1 DEF IInv, Reported
    <3>2. CASE e.fd \in Fds /\ peer[e.fd] # NULL /\ interest[e.fd] = e.ev
      <4>1. e.fd # f
        <5>1. e \in Events
          BY <1>1 DEF IInv, Types
        <5>2. PICK g \in Fds \cup {Listen}, ev \in {"in", "out"} : e = Event(g, ev)
          BY <5>1 DEF Events
        <5>3. e.fd = g /\ e.ev = ev
          BY <5>2 DEF Event
        <5> QED BY <3>2, <5>2, <5>3 DEF Deals
      <4>2. PICK d \in Clients : d = peer[e.fd]
        BY <3>2 DEF IInv, Types
      <4>3. d # c
        BY <1>3, <3>2, <4>1, <4>2
      <4> QED BY <1>1, <3>1, <3>2, <4>1, <4>2, <4>3 DEF Fresh
    <3> QED BY <1>1, <3>1, <3>2 DEF Fresh
  <2> QED BY <2>1 DEF Reported
<1> QED BY <1>2, <1>5, <1>6, <1>9, <1>10, <1>11 DEF IInv

(* Nothing but the events left to handle changes.                          *)
LEMMA FewerEvents ==
  ASSUME IInv, edge' \in BOOLEAN, events' \subseteq Events,
         UNCHANGED <<conn, backlog, alive, peer, interest, m, allClientVars>>,
         \A e \in events' : e \in events \/ Fresh(e)
  PROVE  IInv'
<1>1. UNCHANGED <<conn, backlog, alive, peer, interest, m, pc, sent, cnt>>
  BY DEF allClientVars, clientVars
<1>2. Types'
  BY <1>1 DEF IInv, Types
<1>3. Linked' /\ Once' /\ Descriptors' /\ Outgoing' /\ Flying'
  <2>1. Linked' /\ Once'
    BY <1>1 DEF IInv, Linked, Joined, Once
  <2>2. Descriptors'
    BY <1>1 DEF IInv, Descriptors, ServerOpen, Queued, Accepted
  <2>3. Outgoing'
    BY <1>1 DEF IInv, Outgoing, KeptFor, Waiting
  <2>4. Flying'
    BY <1>1 DEF IInv, Flying, Flight, Waiting, ServerOpen, Out
  <2> QED BY <2>1, <2>2, <2>3, <2>4
<1>4. Reported'
  <2>1. ASSUME NEW e \in events' PROVE Fresh(e)'
    <3>1. Fresh(e)
      BY DEF IInv, Reported
    <3> QED BY <1>1, <3>1 DEF Fresh
  <2> QED BY <2>1 DEF Reported
<1> QED BY <1>2, <1>3, <1>4 DEF IInv

(* What the wait reports.                                                  *)
LEMMA WaitKeeps ==
  ASSUME IInv, EpollWait, UNCHANGED allClientVars
  PROVE  IInv'
<1>1. /\ UNCHANGED <<conn, backlog, alive, peer, interest, m>>
      /\ events' = ReadyEvents /\ edge' = FALSE
  BY DEF EpollWait
<1>2. ASSUME NEW e \in ReadyEvents PROVE e \in Events /\ Fresh(e)
  <2>1. CASE e = Event(Listen, "in") /\ backlog # << >>
    <3>1. e \in Events
      BY <2>1 DEF Events
    <3>2. e.fd = Listen /\ e.ev = "in"
      BY <2>1 DEF Event
    <3> QED BY <2>1, <3>1, <3>2 DEF Fresh
  <2>2. CASE \E f \in {g \in Fds : interest[g] = "in" /\ Readable(conn[peer[g]], "srv")} :
               e = Event(f, "in")
    <3>1. PICK f \in Fds : e = Event(f, "in") /\ interest[f] = "in" /\ Readable(conn[peer[f]], "srv")
      BY <2>2
    <3>2. peer[f] # NULL
      BY <3>1 DEF IInv, Descriptors
    <3> QED BY <3>1, <3>2 DEF Events, Event, Fresh
  <2>3. CASE \E f \in {g \in Fds : interest[g] = "out"} : e = Event(f, "out")
    <3>1. PICK f \in Fds : e = Event(f, "out") /\ interest[f] = "out"
      BY <2>3
    <3>2. peer[f] # NULL
      BY <3>1 DEF IInv, Descriptors
    <3> QED BY <3>1, <3>2 DEF Events, Event, Fresh
  <2>4. \/ e \in IF edge /\ backlog # << >> THEN {Event(Listen, "in")} ELSE {}
        \/ e \in {Event(f, "in") : f \in {g \in Fds : interest[g] = "in"
                                             /\ Readable(conn[peer[g]], "srv")}}
        \/ e \in {Event(f, "out") : f \in {g \in Fds : interest[g] = "out"}}
    BY Zenon DEF ReadyEvents
  <2>5. \/ e = Event(Listen, "in") /\ backlog # << >>
        \/ \E f \in {g \in Fds : interest[g] = "in" /\ Readable(conn[peer[g]], "srv")} :
             e = Event(f, "in")
        \/ \E f \in {g \in Fds : interest[g] = "out"} : e = Event(f, "out")
    BY <2>4, Zenon
  <2> QED BY <2>1, <2>2, <2>3, <2>5, Zenon
<1> QED BY <1>1, <1>2, FewerEvents

(* accept without a free descriptor.                                       *)
LEMMA AcceptFailsKeeps ==
  ASSUME IInv, AcceptFails, UNCHANGED allClientVars
  PROVE  IInv'
<1>1. /\ UNCHANGED <<conn, backlog, alive, peer, interest, m, edge>>
      /\ events' = events \ {Event(Listen, "in")}
  BY DEF AcceptFails, Handles
<1>2. edge' \in BOOLEAN /\ events' \subseteq Events
  BY <1>1, Zenon DEF IInv, Types
<1> QED BY <1>1, <1>2, FewerEvents

(* One accept: the first connection of the queue, on the lowest descriptor. *)
LEMMA AcceptKeeps ==
  ASSUME IInv, HandleAccept, UNCHANGED allClientVars
  PROVE  IInv'
<1>1. backlog # << >> /\ FreeFds # {} /\ backlog' = Tail(backlog) /\ alive
  BY ListenIsReady DEF HandleAccept, Handles
<1>2. LowestFree \in Fds /\ peer[LowestFree] = NULL
  BY <1>1, LowestIsFree
<1>3. PICK f \in Fds : f = LowestFree /\ peer[f] = NULL
  BY <1>2
<1>4. /\ backlog' \in Seq(Clients)
      /\ Head(backlog) \in Clients
      /\ Queued(Head(backlog))
      /\ \A d \in Clients : Queued(d)' <=> Queued(d) /\ d # Head(backlog)
      /\ Once'
  BY <1>1, QueueShrinks DEF IInv, Types
<1>5. PICK c \in Clients : c = Head(backlog)
  BY <1>4
<1>6. /\ Queued(c) /\ \A d \in Clients : Queued(d)' <=> Queued(d) /\ d # c
      /\ c # NULL
  BY <1>4, <1>5, FdAssumption
<1>7. /\ UNCHANGED <<conn, alive, m, edge, pc, sent, cnt>>
      /\ peer' = [peer EXCEPT ![f] = c] /\ interest' = [interest EXCEPT ![f] = "in"]
      /\ events' = events \ {Event(Listen, "in")}
  BY <1>3, <1>5 DEF HandleAccept, Handles, allClientVars, clientVars
<1>8. /\ peer'[f] = c /\ interest'[f] = "in"
      /\ \A g \in Fds \ {f} : peer'[g] = peer[g] /\ interest'[g] = interest[g]
      /\ interest[f] = "none"
      /\ \A g \in Fds : peer[g] # c
  <2>1. ~Accepted(c) /\ interest[f] = "none"
    BY <1>3, <1>6 DEF IInv, Descriptors
  <2> QED BY <1>7, <2>1 DEF IInv, Types, Accepted
<1>9. Types'
  <2>1. /\ peer' \in [Fds -> Clients \cup {NULL}] /\ interest' \in [Fds -> {"none", "in", "out"}]
    BY <1>7 DEF IInv, Types
  <2>2. events' \subseteq Events
    BY <1>7, Zenon DEF IInv, Types
  <2> QED BY <1>4, <1>7, <2>1, <2>2, Zenon DEF IInv, Types
<1>10. \A d \in Clients : (Out(d)' <=> Out(d)) /\ (Accepted(d)' <=> Accepted(d) \/ d = c)
  <2>1. ASSUME NEW d \in Clients PROVE (Out(d)' <=> Out(d)) /\ (Accepted(d)' <=> Accepted(d) \/ d = c)
    BY <1>3, <1>8, FdAssumption DEF Out, Accepted
  <2> QED BY <2>1
<1>11. Linked' /\ Flying'
  <2>1. ASSUME NEW d \in Clients PROVE Joined(d)' /\ Flight(d)'
    <3>1. Joined(d) /\ Flight(d)
      BY DEF IInv, Linked, Flying
    <3> QED BY <1>7, <1>10, <3>1 DEF Joined, Flight, Waiting, ServerOpen
  <2> QED BY <2>1 DEF Linked, Flying
<1>12. Descriptors'
  <2>1. \A g, h \in Fds : peer'[g] # NULL /\ peer'[g] = peer'[h] => g = h
    BY <1>8 DEF IInv, Descriptors
  <2>2. \A g \in Fds : interest'[g] = "none" <=> peer'[g] = NULL
    BY <1>6, <1>8 DEF IInv, Descriptors
  <2>3. ASSUME NEW d \in Clients
        PROVE  /\ ServerOpen(d)' <=> Queued(d)' \/ Accepted(d)'
               /\ Queued(d)' => ~Accepted(d)'
               /\ alive' => conn'[d].st["srv"] # "closed"
    BY <1>6, <1>7, <1>10 DEF IInv, Descriptors, ServerOpen
  <2> QED BY <2>1, <2>2, <2>3 DEF Descriptors
<1>13. Outgoing'
  <2>1. ASSUME NEW g \in Fds, interest'[g] = "out" PROVE KeptFor(g, peer[g])'
    <3>1. g # f
      BY <1>8, <2>1
    <3>2. KeptFor(g, peer[g]) /\ peer'[g] = peer[g]
      BY <1>8, <2>1, <3>1 DEF IInv, Outgoing
    <3> QED BY <1>7, <3>2 DEF KeptFor, Waiting
  <2> QED BY <2>1 DEF Outgoing
<1>14. Reported'
  <2>1. ASSUME NEW e \in events' PROVE Fresh(e)'
    <3>1. Fresh(e) /\ e \in Events /\ e # Event(Listen, "in")
      BY <1>7 DEF IInv, Reported, Types
    <3>2. PICK g \in Fds \cup {Listen}, ev \in {"in", "out"} : e = Event(g, ev)
      BY <3>1 DEF Events
    <3>3. e.fd = g /\ e.ev = ev
      BY <3>2 DEF Event
    <3>4. e.fd \in Fds /\ e.fd # f
      BY <1>3, <3>1, <3>2, <3>3 DEF Fresh
    <3>5. Listen \notin Fds
      BY FdAssumption DEF Fds, Listen
    <3> QED BY <1>7, <1>8, <3>1, <3>4, <3>5 DEF Fresh
  <2> QED BY <2>1 DEF Reported
<1> QED BY <1>4, <1>9, <1>11, <1>12, <1>13, <1>14 DEF IInv

(* The only thing under way was the message: now it is kept for EPOLLOUT.  *)
LEMMA MessageDeals ==
  ASSUME IInv, NEW f \in Fds, HandleMessage(f), UNCHANGED allClientVars
  PROVE  \E c \in Clients : Deals(f, c) /\ Talk(c)' = Talk(c)
<1>1. /\ peer[f] \in Clients /\ interest[f] = "in" /\ ServerOpen(peer[f]) /\ alive
      /\ Readable(conn[peer[f]], "srv")
  BY HandledIsOpen DEF HandleMessage
<1>2. PICK c \in Clients, k \in Connections : peer[f] = c /\ conn[c] = k
  BY <1>1 DEF IInv, Types
<1>3. Link(k) /\ k.rx["srv"] # << >> /\ Flight(c) /\ Joined(c) /\ ServerOpen(c)
  BY <1>1, <1>2 DEF HandleMessage, Received, IInv, Linked, Joined, Flying
<1>4. ~Out(c)
  BY <1>1, <1>2, FdAssumption DEF Out, IInv, Descriptors
<1>5. /\ pc[c] \in {"first", "wait", "off"} /\ k.rx["cli"] = << >> /\ k.st["srv"] # "broken"
      /\ Waiting(c) => k.rx["srv"] = <<sent[c]>>
  <2>1. pc[c] \in PCs
    BY DEF IInv, Types
  <2>2. k.st["srv"] # "broken"
    BY <1>3 DEF Link
  <2>3. pc[c] \in {"first", "wait", "off"}
    BY <1>2, <1>3, <2>1 DEF Flight, PCs
  <2>4. CASE pc[c] = "off"
    BY <1>2, <1>3, <2>2, <2>4 DEF Joined, Link, NoConn, Both, Waiting
  <2>5. CASE Waiting(c)
    BY <1>2, <1>3, <1>4, <2>2, <2>3, <2>5 DEF Flight
  <2> QED BY <2>3, <2>4, <2>5 DEF Waiting
<1>6. PICK a : a = AfterRecv(k, "srv")
  OBVIOUS
<1>7. /\ a \in Connections /\ Link(a) /\ a.rx["srv"] = << >>
      /\ a.rx["cli"] = << >> /\ a.st["cli"] = k.st["cli"] /\ a.st["srv"] = k.st["srv"]
  BY <1>3, <1>5, <1>6, NewTyped, RecvResult
<1>8. /\ conn' = [conn EXCEPT ![c] = a] /\ m' = [m EXCEPT ![f] = k.rx["srv"]]
      /\ interest' = [interest EXCEPT ![f] = "out"]
      /\ UNCHANGED <<backlog, alive, edge, peer>>
      /\ events' = events \ {Event(f, "in")}
  BY <1>2, <1>6 DEF HandleMessage, Handles, Received
<1>9. UNCHANGED <<pc, sent, cnt>>
  BY DEF allClientVars, clientVars
<1>10. k.rx["srv"] \in Seq(Messages)
  BY DEF Connections, Ends
<1>11. /\ conn'[c] = a /\ m'[f] = k.rx["srv"] /\ interest'[f] = "out" /\ peer'[f] = c
       /\ conn' \in [Clients -> Connections]
       /\ interest' \in [Fds -> {"none", "in", "out"}]
       /\ m' \in [Fds -> Seq(Messages)]
       /\ peer' \in [Fds -> Clients \cup {NULL}]
       /\ \A d \in Clients \ {c} : conn'[d] = conn[d]
       /\ \A g \in Fds \ {f} : peer'[g] = peer[g] /\ interest'[g] = interest[g] /\ m'[g] = m[g]
  BY <1>2, <1>7, <1>8, <1>10 DEF IInv, Types
<1>12. Joined(c)'
  BY <1>2, <1>3, <1>5, <1>7, <1>9, <1>11 DEF Joined
<1>13. ServerOpen(c)' /\ conn'[c].st["srv"] # "closed"
  BY <1>2, <1>3, <1>7, <1>11 DEF ServerOpen
<1>14. Out(c)'
  BY <1>11 DEF Out
<1>15. Flight(c)'
  BY <1>5, <1>9, <1>13, <1>14 DEF Flight
<1>16. KeptFor(f, c)'
  BY <1>5, <1>7, <1>9, <1>11 DEF KeptFor, Waiting
<1>17. Deals(f, c)
  BY <1>1, <1>2, <1>8, <1>11, <1>12, <1>13, <1>15, <1>16 DEF Deals
<1>18. Talk(c)' = Talk(c)
  BY <1>2, <1>3, <1>5, <1>7, <1>9, <1>11, <1>13 DEF Talk, Waiting
<1> QED BY <1>17, <1>18

(* Nothing is left of the connection of a client that is gone.             *)
LEMMA EndDeals ==
  ASSUME IInv, NEW f \in Fds, HandleEnd(f), UNCHANGED allClientVars
  PROVE  \E c \in Clients : Deals(f, c) /\ Talk(c)' = Talk(c)
<1>1. /\ peer[f] \in Clients /\ interest[f] = "in" /\ ServerOpen(peer[f]) /\ alive
      /\ Readable(conn[peer[f]], "srv")
  BY HandledIsOpen DEF HandleEnd
<1>2. PICK c \in Clients, k \in Connections : peer[f] = c /\ conn[c] = k
  BY <1>1 DEF IInv, Types
<1>3. Link(k) /\ k.st["srv"] \in Gone /\ Joined(c) /\ ServerOpen(c)
  BY <1>1, <1>2 DEF HandleEnd, Received, Readable, Gone, IInv, Linked, Joined
<1>4. pc[c] = "off"
  BY <1>2, <1>3 DEF Joined, Link, Gone, NoConn, Both
<1>5. AfterClose(AfterRecv(k, "srv"), "srv") = NoConn
  BY <1>3, EndResult
<1>6. /\ conn' = [conn EXCEPT ![c] = NoConn] /\ peer' = [peer EXCEPT ![f] = NULL]
      /\ interest' = [interest EXCEPT ![f] = "none"]
      /\ UNCHANGED <<backlog, alive, edge, m>>
      /\ events' = events \ {Event(f, "in")}
  BY <1>2, <1>5 DEF HandleEnd, Handles
<1>7. UNCHANGED <<pc, sent, cnt>>
  BY DEF allClientVars, clientVars
<1>8. /\ conn'[c] = NoConn /\ interest'[f] = "none" /\ peer'[f] = NULL
      /\ conn' \in [Clients -> Connections]
      /\ interest' \in [Fds -> {"none", "in", "out"}]
      /\ m' \in [Fds -> Seq(Messages)]
      /\ peer' \in [Fds -> Clients \cup {NULL}]
      /\ \A d \in Clients \ {c} : conn'[d] = conn[d]
      /\ \A g \in Fds \ {f} : peer'[g] = peer[g] /\ interest'[g] = interest[g] /\ m'[g] = m[g]
  BY <1>2, <1>6, NewTyped DEF IInv, Types
<1>9. Joined(c)' /\ Flight(c)' /\ ~ServerOpen(c)' /\ conn'[c].st["srv"] # "closed"
  BY <1>4, <1>7, <1>8, NewTyped DEF Joined, Flight, Waiting, ServerOpen, NoConn, Both
<1>10. Deals(f, c)
  BY <1>1, <1>2, <1>6, <1>8, <1>9 DEF Deals
<1>11. Talk(c)' = Talk(c)
  BY <1>4, <1>7 DEF Talk, Waiting
<1> QED BY <1>10, <1>11

(* The answer goes on its way; if the client is gone it meets a reset.     *)
LEMMA OutDeals ==
  ASSUME IInv, NEW f \in Fds, HandleOut(f), UNCHANGED allClientVars
  PROVE  \E c \in Clients : Deals(f, c) /\ (Talk(c)' = Talk(c) \/ (Talk(c) = "server" /\ Talk(c)' = "answer"))
<1>1. /\ peer[f] \in Clients /\ interest[f] = "out" /\ ServerOpen(peer[f]) /\ alive
  BY HandledIsOpen DEF HandleOut
<1>2. PICK c \in Clients, k \in Connections, text \in Seq(Messages) :
        peer[f] = c /\ conn[c] = k /\ m[f] = text
  BY <1>1 DEF IInv, Types
<1>3. Link(k) /\ Joined(c) /\ ServerOpen(c) /\ KeptFor(f, c)
  BY <1>1, <1>2 DEF IInv, Linked, Joined, Outgoing
<1>4. /\ k.st["srv"] \notin {"none", "closed"} /\ k.rx["srv"] = << >> /\ k.rx["cli"] = << >>
      /\ pc[c] \in {"first", "wait", "off"} /\ (Waiting(c) => text = <<sent[c]>>)
  BY <1>2, <1>3 DEF ServerOpen, KeptFor
<1>5. PICK a : a = AfterSend(k, "srv", text)
  OBVIOUS
<1>6. /\ a \in Connections /\ Link(a) /\ a.rx["srv"] = << >>
      /\ a.st["cli"] = k.st["cli"]
      /\ IF k.st["srv"] = "est" THEN a.st["srv"] = "est" /\ a.rx["cli"] = text
                               ELSE a.st["srv"] = "broken" /\ a.rx["cli"] = << >>
  <2>1. "srv" \in Ends /\ Other("srv") = "cli" /\ << >> \o text = text
    BY NewTyped
  <2>2. a \in Connections /\ Link(a) /\ a.rx["srv"] = << >>
    BY <1>3, <1>4, <1>5, <2>1, SendResult
  <2>3. a.st[Other("srv")] = k.st[Other("srv")]
    BY <1>3, <1>4, <1>5, <2>1, SendResult
  <2>4. IF k.st["srv"] = "est" THEN a.st["srv"] = "est" /\ a.rx["cli"] = k.rx["cli"] \o text
                             ELSE a.st["srv"] = "broken" /\ a.rx["cli"] = k.rx["cli"]
    BY <1>5, <2>1 DEF AfterSend, Connections, Ends
  <2> QED BY <1>4, <2>1, <2>2, <2>3, <2>4
<1>7. /\ conn' = [conn EXCEPT ![c] = a]
      /\ interest' = [interest EXCEPT ![f] = "in"]
      /\ UNCHANGED <<backlog, alive, edge, peer, m>>
      /\ events' = events \ {Event(f, "out")}
  BY <1>2, <1>5 DEF HandleOut, Handles
<1>8. UNCHANGED <<pc, sent, cnt>>
  BY DEF allClientVars, clientVars
<1>9. /\ conn'[c] = a /\ interest'[f] = "in" /\ peer'[f] = c
      /\ conn' \in [Clients -> Connections]
      /\ interest' \in [Fds -> {"none", "in", "out"}]
      /\ m' \in [Fds -> Seq(Messages)]
      /\ peer' \in [Fds -> Clients \cup {NULL}]
      /\ \A d \in Clients \ {c} : conn'[d] = conn[d]
      /\ \A g \in Fds \ {f} : peer'[g] = peer[g] /\ interest'[g] = interest[g] /\ m'[g] = m[g]
  BY <1>2, <1>6, <1>7 DEF IInv, Types
<1>10. Joined(c)'
  BY <1>2, <1>3, <1>4, <1>6, <1>8, <1>9 DEF Joined
<1>11. ServerOpen(c)' /\ conn'[c].st["srv"] # "closed"
  BY <1>4, <1>6, <1>9 DEF ServerOpen
<1>12. Waiting(c) => k.st["srv"] = "est"
  BY <1>2, <1>3, <1>4 DEF Waiting, Joined, Link, Gone, NoConn, Both
<1>13. Flight(c)'
  BY <1>4, <1>6, <1>8, <1>9, <1>11, <1>12 DEF Flight, Waiting
<1>14. Deals(f, c)
  BY <1>1, <1>2, <1>7, <1>9, <1>10, <1>11, <1>13 DEF Deals
<1>15. Talk(c)' = Talk(c) \/ (Talk(c) = "server" /\ Talk(c)' = "answer")
  <2>1. CASE ~Waiting(c)
    BY <1>8, <2>1 DEF Talk, Waiting
  <2>2. CASE Waiting(c)
    <3>1. Talk(c) = "server"
      BY <1>2, <1>3, <1>4, <2>2 DEF Talk
    <3>2. a.rx["cli"] # << >>
      <4>1. a.rx["cli"] = <<sent[c]>>
        BY <1>4, <1>6, <1>12, <2>2
      <4> QED BY <4>1
    <3>3. Talk(c)' = "answer"
      BY <1>8, <1>9, <2>2, <3>2 DEF Talk, Waiting
    <3> QED BY <3>1, <3>3
  <2> QED BY <2>1, <2>2
<1> QED BY <1>14, <1>15

(* What the end of the server does to one connection.                      *)
LEMMA OneEnds ==
  ASSUME IInv, ServerInterrupt, UNCHANGED allClientVars, NEW c \in Clients
  PROVE  /\ conn'[c] \in Connections
         /\ ~ServerOpen(c)'
         /\ Joined(c)' /\ Flight(c)'
         /\ Talk(c)' = IF Talk(c) = "server" THEN "client" ELSE Talk(c)
<1>1. PICK k \in Connections : k = conn[c]
  BY DEF IInv, Types
<1>2. Link(k) /\ Joined(c) /\ Flight(c) /\ alive
  BY <1>1 DEF ServerInterrupt, IInv, Linked, Joined, Flying
<1>3. UNCHANGED <<pc, sent>>
  BY DEF allClientVars, clientVars
<1>4. conn'[c] = IF Accepted(c) THEN AfterClose(k, "srv")
                 ELSE IF k # NoConn THEN AfterReset(k) ELSE k
  BY <1>1 DEF ServerInterrupt
<1>5. PICK a : a = conn'[c]
  OBVIOUS
<1>6. CASE k = NoConn
  <2>1. ~Accepted(c)
    <3>1. ~ServerOpen(c)
      BY <1>1, <1>6 DEF ServerOpen, NoConn, Both
    <3> QED BY <3>1 DEF IInv, Descriptors
  <2>2. conn'[c] = NoConn
    BY <1>4, <1>6, <2>1
  <2>3. pc[c] = "off"
    BY <1>1, <1>2, <1>6 DEF Joined, NoConn, Both
  <2>4. Talk(c) = "client" /\ Talk(c)' = "client"
    BY <1>3, <2>3 DEF Talk, Waiting
  <2>5. Joined(c)' /\ Flight(c)' /\ ~ServerOpen(c)'
    BY <1>3, <2>2, <2>3, NewTyped DEF Joined, Flight, Waiting, ServerOpen, NoConn, Both
  <2> QED BY <2>2, <2>4, <2>5, NewTyped
<1>7. CASE k # NoConn
  <2>1. k.st["srv"] \notin {"none", "closed"} /\ ServerOpen(c)
    BY <1>1, <1>2, <1>7 DEF IInv, Descriptors, Link, ServerOpen, Gone
  <2>2. /\ a \in Connections /\ Link(a)
        /\ IF k.st["cli"] = "closed" THEN a = NoConn
           ELSE /\ a.st["srv"] = "closed" /\ a.st["cli"] \in {"fin", "reset"}
                /\ a.rx["cli"] = k.rx["cli"]
    <3>1. CASE Accepted(c)
      BY <1>2, <1>4, <1>5, <2>1, <3>1, NewTyped, CloseResult
    <3>2. CASE ~Accepted(c)
      BY <1>2, <1>4, <1>5, <1>7, <2>1, <3>2, ResetResult
    <3> QED BY <3>1, <3>2
  <2>3. a.rx["srv"] = << >> /\ ~ServerOpen(c)'
    BY <1>5, <2>2 DEF Link, ServerOpen, NoConn, Both
  <2>4. Joined(c)'
    BY <1>1, <1>2, <1>3, <1>5, <1>7, <2>2 DEF Joined, Link, Gone, NoConn, Both
  <2>5. Waiting(c) => k.rx["cli"] \in {<< >>, <<sent[c]>>}
    <3>1. CASE Out(c)
      BY <1>1, <3>1 DEF Out, IInv, Outgoing, KeptFor
    <3>2. CASE ~Out(c)
      BY <1>1, <1>2, <2>1, <3>2 DEF Flight
    <3> QED BY <3>1, <3>2
  <2>6. a.rx["cli"] \in {<< >>, k.rx["cli"]}
    BY <2>2 DEF NoConn, Both
  <2>7. Flight(c)'
    BY <1>1, <1>2, <1>3, <1>5, <2>3, <2>5, <2>6 DEF Flight, Waiting
  <2>8. Talk(c)' = IF Talk(c) = "server" THEN "client" ELSE Talk(c)
    <3>1. CASE ~Waiting(c)
      BY <1>3, <3>1 DEF Talk, Waiting
    <3>2. CASE Waiting(c)
      <4>1. k.st["cli"] # "closed" /\ conn'[c].rx["cli"] = k.rx["cli"]
        BY <1>1, <1>2, <1>5, <2>2, <3>2 DEF Joined, Waiting
      <4> QED BY <1>1, <1>3, <2>1, <2>3, <3>2, <4>1 DEF Talk, Waiting
    <3> QED BY <3>1, <3>2
  <2> QED BY <1>5, <2>2, <2>3, <2>4, <2>7, <2>8
<1> QED BY <1>6, <1>7

(* The server is interrupted.                                              *)
LEMMA InterruptKeeps ==
  ASSUME IInv, ServerInterrupt, UNCHANGED allClientVars
  PROVE  IInv'
<1>1. /\ alive' = FALSE /\ backlog' = << >> /\ events' = {} /\ edge' = FALSE
      /\ peer' = [f \in Fds |-> NULL] /\ interest' = [f \in Fds |-> "none"]
      /\ m' = [f \in Fds |-> << >>]
      /\ UNCHANGED <<pc, sent, cnt>>
  BY DEF ServerInterrupt, allClientVars, clientVars
<1>2. \A c \in Clients : conn'[c] \in Connections /\ ~ServerOpen(c)' /\ Joined(c)' /\ Flight(c)'
  BY OneEnds
<1>3. backlog' \in Seq(Clients) /\ (\A d \in Clients : ~Queued(d)') /\ Once'
  BY <1>1, QueueEmpties
<1>4. Types'
  <2>1. conn' \in [Clients -> Connections]
    <3>1. conn' = [c \in Clients |-> conn'[c]]
      BY DEF ServerInterrupt
    <3> QED BY <1>2, <3>1
  <2>2. /\ peer' \in [Fds -> Clients \cup {NULL}] /\ interest' \in [Fds -> {"none", "in", "out"}]
        /\ m' \in [Fds -> Seq(Messages)]
    <3>1. << >> \in Seq(Messages)
      BY EmptySeq
    <3> QED BY <1>1, <3>1
  <2> QED BY <1>1, <1>3, <2>1, <2>2, Zenon DEF IInv, Types
<1>5. Linked' /\ Flying'
  BY <1>2 DEF Linked, Flying
<1>6. \A f \in Fds : peer'[f] = NULL /\ interest'[f] = "none"
  BY <1>1
<1>7. \A c \in Clients : ~Accepted(c)'
  BY <1>6, FdAssumption DEF Accepted
<1>8. Descriptors'
  BY <1>1, <1>2, <1>3, <1>6, <1>7 DEF Descriptors
<1>9. Outgoing' /\ Reported'
  BY <1>1, <1>6 DEF Outgoing, Reported
<1> QED BY <1>3, <1>4, <1>5, <1>8, <1>9 DEF IInv

-----------------------------------------------------------------------------

(* The types named here are those of TypeOK.                               *)
LEMMA TypesAreTypes ==
  ASSUME Types
  PROVE  TypeOK
<1>1. conn \in [Clients -> [st : [Ends -> States], rx : [Ends -> Seq(Messages)]]]
  BY DEF Types, Connections
<1>2. events \subseteq {Event(f, ev) : f \in Fds \cup {Listen}, ev \in {"in", "out"}}
  BY DEF Types, Events
<1>3. /\ backlog \in Seq(Clients)
      /\ alive \in BOOLEAN
      /\ peer \in [Fds -> Clients \cup {NULL}]
      /\ interest \in [Fds -> {"none", "in", "out"}]
      /\ m \in [Fds -> Seq(Messages)]
      /\ edge \in BOOLEAN
      /\ AllClientsTypeOK
  BY Zenon DEF Types, AllClientsTypeOK
<1> QED BY <1>1, <1>2, <1>3, SMT DEF TypeOK

(* The invariant holds before anything was started.                        *)
LEMMA InitHolds == Init => IInv
<1> SUFFICES ASSUME Init PROVE IInv
  OBVIOUS
<1> USE DEF Init, TcpInit, ServerInit, AllClientsInit, ClientInit, EpollClientInit
<1>1. \A c \in Clients : conn[c] = NoConn /\ pc[c] = "off"
  OBVIOUS
<1>2. backlog \in Seq(Clients) /\ Len(backlog) = 0
  BY EmptySeq
<1>3. Types
  <2>1. /\ conn \in [Clients -> Connections] /\ pc \in [Clients -> PCs]
    BY NewTyped DEF PCs
  <2>2. sent \in [Clients -> Messages]
    BY DEF Messages
  <2>3. cnt \in [EpollClients -> 0..Wrap - 1]
    BY EpollAssumption
  <2>4. /\ peer \in [Fds -> Clients \cup {NULL}] /\ interest \in [Fds -> {"none", "in", "out"}]
        /\ m \in [Fds -> Seq(Messages)]
    <3>1. << >> \in Seq(Messages)
      BY EmptySeq
    <3> QED BY <3>1
  <2> QED BY <1>2, <2>1, <2>2, <2>3, <2>4, Zenon DEF Types
<1>4. Linked /\ Flying
  BY <1>1, NewTyped DEF Linked, Joined, Flying, Flight, Waiting, NoConn, Both
<1>5. Once
  BY <1>2 DEF Once
<1>6. \A f \in Fds : peer[f] = NULL /\ interest[f] = "none"
  OBVIOUS
<1>7. Descriptors
  BY <1>1, <1>2, <1>6, FdAssumption DEF Descriptors, ServerOpen, Queued, Accepted, NoConn, Both
<1>8. Outgoing /\ Reported
  BY <1>6 DEF Outgoing, Reported
<1> QED BY <1>3, <1>4, <1>5, <1>7, <1>8 DEF IInv

(* Every step keeps the invariant.                                         *)
LEMMA Inductive == IInv /\ [Next]_vars => IInv'
<1> SUFFICES ASSUME IInv, [Next]_vars PROVE IInv'
  OBVIOUS
<1>1. CASE \E c \in Clients : Arrive(c) \/ ClientStep(c) \/ ClientInterrupt(c)
  BY <1>1, ArriveKeeps, ClientKeeps
<1>2. CASE Serve
  BY <1>2, WaitKeeps, AcceptKeeps, AcceptFailsKeeps, MessageDeals, EndDeals, OutDeals, DealsKeeps
     DEF Serve, ServerStep
<1>3. CASE Stop
  BY <1>3, InterruptKeeps DEF Stop
<1>4. CASE UNCHANGED vars
  <2>1. UNCHANGED <<conn, backlog, alive, peer, interest, m, allClientVars, events, edge>>
    BY <1>4 DEF vars, tcpVars, serverVars
  <2>2. edge' \in BOOLEAN /\ events' \subseteq Events
    BY <2>1, Zenon DEF IInv, Types
  <2> QED BY <2>1, <2>2, FewerEvents
<1> QED BY <1>1, <1>2, <1>3, <1>4 DEF Next

(* The invariant holds always.                                             *)
LEMMA Invariance == Spec => []IInv
<1> QED BY InitHolds, Inductive, PTL DEF Spec

(* TypeOK: every variable keeps its type, whatever clients, descriptors    *)
(* and queue there are (epoll/server.cpp:109-142).                         *)
THEOREM Typing == Spec => []TypeOK
<1>1. IInv => TypeOK
  BY TypesAreTypes DEF IInv
<1> QED BY <1>1, Invariance, PTL

(* NoSigpipe: neither the server nor a client ever sends again on a        *)
(* connection that answered with a reset, so no send that lacks            *)
(* MSG_NOSIGNAL ends a process (epoll/server.cpp:65, epoll/client.cpp:49). *)
THEOREM SafeSends == Spec => []NoSigpipe
<1>1. IInv => NoSigpipe
  <2> SUFFICES ASSUME IInv PROVE NoSigpipe
    OBVIOUS
  <2>1. ASSUME NEW f \in Fds, interest[f] = "out" PROVE ~SendKills(conn[peer[f]], "srv")
    BY <2>1 DEF IInv, Outgoing, KeptFor, SendKills
  <2>2. ClientsSafe
    BY DEF IInv, Linked, Joined, ClientsSafe, SendKills
  <2> QED BY <2>1, <2>2 DEF NoSigpipe
<1> QED BY <1>1, Invariance, PTL

(* NoStaleEvent: an entry of v that is not handled yet is still about the  *)
(* connection it was reported for (epoll/server.cpp:123-138).              *)
THEOREM FreshEvents == Spec => []NoStaleEvent
<1>1. IInv => NoStaleEvent
  <2> SUFFICES ASSUME IInv, NEW e \in events
               PROVE  IF e.fd = Listen THEN backlog # << >>
                      ELSE /\ peer[e.fd] # NULL
                           /\ interest[e.fd] = e.ev
                           /\ e.ev = "in" => Readable(conn[peer[e.fd]], "srv")
    BY DEF NoStaleEvent
  <2>1. Fresh(e)
    BY DEF IInv, Reported
  <2>2. Listen \notin Fds
    BY FdAssumption DEF Fds, Listen
  <2> QED BY <2>1, <2>2 DEF Fresh
<1> QED BY <1>1, Invariance, PTL

(* What the server keeps for a client is what m holds for EPOLLOUT.        *)
LEMMA KeptIs ==
  ASSUME IInv, NEW c \in Clients
  PROVE  /\ \A f \in Fds : peer[f] = c /\ interest[f] = "out" => Kept(c) = m[f]
         /\ ~Out(c) => Kept(c) = << >>
<1>1. ASSUME NEW f \in Fds, peer[f] = c, interest[f] = "out" PROVE Kept(c) = m[f]
  <2>1. \A g \in Fds : peer[g] = c /\ interest[g] = "out" => g = f
    BY <1>1, FdAssumption DEF IInv, Descriptors
  <2>2. f = CHOOSE g \in Fds : peer[g] = c /\ interest[g] = "out"
    BY <1>1, <2>1
  <2> QED BY <1>1, <2>2 DEF Kept
<1> QED BY <1>1 DEF Out, Kept

(* What is under way is the last message of a client that waits.           *)
LEMMA UnderWayIs ==
  ASSUME IInv, NEW c \in Clients
  PROVE  /\ Waiting(c) /\ (ServerOpen(c) \/ conn[c].rx["cli"] # << >>) => UnderWay(c) = <<sent[c]>>
         /\ pc[c] \in {"hello", "reply", "asleep"} => UnderWay(c) = << >>
<1>1. Flight(c) /\ Joined(c) /\ Link(conn[c])
  BY DEF IInv, Flying, Linked, Joined
<1>2. \A s \in Seq(Messages) : << >> \o s = s /\ s \o << >> = s
  BY ConcatEmptySeq
<1>3. << >> \in Seq(Messages) /\ <<sent[c]>> \in Seq(Messages)
  <2>1. sent[c] \in Messages
    BY DEF IInv, Types
  <2> QED BY <2>1, EmptySeq
<1>4. CASE pc[c] \in {"hello", "reply", "asleep"}
  <2>1. conn[c].rx["srv"] = << >> /\ conn[c].rx["cli"] = << >>
    BY <1>1, <1>4 DEF Flight
  <2>2. ~Out(c)
    BY <1>4 DEF Out, IInv, Outgoing, KeptFor
  <2> QED BY <1>2, <1>3, <1>4, <2>1, <2>2, KeptIs DEF UnderWay, Waiting
<1>5. ASSUME Waiting(c), ServerOpen(c) \/ conn[c].rx["cli"] # << >> PROVE UnderWay(c) = <<sent[c]>>
  <2>1. CASE Out(c)
    <3>1. PICK f \in Fds : peer[f] = c /\ interest[f] = "out"
      BY <2>1 DEF Out
    <3>2. KeptFor(f, c)
      BY <3>1 DEF IInv, Outgoing
    <3>3. Kept(c) = <<sent[c]>> /\ conn[c].rx["srv"] = << >> /\ conn[c].rx["cli"] = << >>
      BY <1>5, <3>1, <3>2, KeptIs DEF KeptFor
    <3> QED BY <1>2, <1>3, <3>3 DEF UnderWay
  <2>2. CASE ~Out(c)
    <3>1. Kept(c) = << >>
      BY <2>2, KeptIs
    <3>2. \/ conn[c].rx["srv"] = <<sent[c]>> /\ conn[c].rx["cli"] = << >>
          \/ conn[c].rx["srv"] = << >> /\ conn[c].rx["cli"] = <<sent[c]>>
      <4>1. CASE ServerOpen(c)
        BY <1>1, <1>5, <2>2, <4>1 DEF Flight
      <4>2. CASE ~ServerOpen(c)
        <5>1. conn[c].rx["srv"] = << >>
          BY <1>1, <4>2 DEF Link, ServerOpen, NoConn, Both, Gone
        <5> QED BY <1>1, <1>5, <4>2, <5>1 DEF Flight
      <4> QED BY <4>1, <4>2
    <3> QED BY <1>2, <1>3, <3>1, <3>2 DEF UnderWay
  <2> QED BY <2>1, <2>2
<1> QED BY <1>4, <1>5 DEF Waiting

(* OneInFlight: a client that waits has its last message under way, once,  *)
(* in the receive buffer, in m[fd] or on its way back; nobody gets what    *)
(* the client before on the same descriptor sent (epoll/server.cpp:127-137).*)
THEOREM InFlight == Spec => []OneInFlight
<1>1. IInv => OneInFlight
  BY UnderWayIs DEF OneInFlight
<1> QED BY <1>1, Invariance, PTL

(* EndIsSeen: the end of a client that left reaches the loop, also when it *)
(* left in the accept queue, with a message unread or with its answer kept *)
(* (epoll/server.cpp:125-137), for any number of clients.                  *)
THEOREM EndsSeen == Spec => []EndIsSeen
<1>1. IInv => EndIsSeen
  <2> SUFFICES ASSUME IInv, NEW f \in Fds, peer[f] # NULL, pc[peer[f]] = "off",
                      interest[f] # "out"
               PROVE  interest[f] = "in" /\ Readable(conn[peer[f]], "srv")
    BY DEF EndIsSeen
  <2>1. peer[f] \in Clients /\ interest[f] = "in"
    BY DEF IInv, Types, Descriptors
  <2>2. conn[peer[f]].st["srv"] \notin {"none", "closed"}
    BY <2>1 DEF IInv, Descriptors, Accepted, ServerOpen
  <2>3. conn[peer[f]].st["cli"] \in {"none", "closed"} /\ Link(conn[peer[f]])
    BY <2>1 DEF IInv, Linked, Joined
  <2>4. conn[peer[f]].st["srv"] \in Gone
    BY <2>2, <2>3 DEF Link, Gone, NoConn, Both
  <2> QED BY <2>1, <2>4 DEF Readable, Gone
<1> QED BY <1>1, Invariance, PTL

(* NoLostWakeup: a client that waits can read itself, or is to be accepted,*)
(* or its descriptor is registered for what it is ready for, whatever the  *)
(* order of the ModFd calls (epoll/server.cpp:125-137); and an epoll       *)
(* client sleeps for good only when its server closed, with no answer      *)
(* unread (epoll/client.cpp:93).                                           *)
THEOREM Registered == Spec => []NoLostWakeup
<1>1. IInv => SleepsAfterEnd
  BY DEF IInv, Flying, Flight, SleepsAfterEnd
<1>2. IInv => NoLostWakeup
  <2> SUFFICES ASSUME IInv, NEW c \in Clients, Waiting(c)
               PROVE  \/ Readable(conn[c], "cli")
                      \/ Queued(c)
                      \/ \E f \in Fds :
                           /\ peer[f] = c
                           /\ \/ interest[f] = "out"
                              \/ interest[f] = "in" /\ Readable(conn[c], "srv")
    BY <1>1 DEF NoLostWakeup, Queued
  <2>1. Flight(c) /\ Joined(c) /\ pc[c] # "off"
    BY DEF IInv, Flying, Linked, Waiting
  <2>2. CASE ~ServerOpen(c)
    <3>1. conn[c].st["srv"] = "closed"
      BY <2>1, <2>2 DEF Joined, Link, ServerOpen, NoConn, Both, Gone
    <3> QED BY <2>1, <3>1 DEF Joined, Link, NoConn, Both, Gone, Readable
  <2>3. CASE ServerOpen(c) /\ ~Queued(c)
    <3>1. PICK f \in Fds : peer[f] = c
      BY <2>3 DEF IInv, Descriptors, Accepted
    <3>2. interest[f] \in {"in", "out"}
      BY <3>1, FdAssumption DEF IInv, Types, Descriptors
    <3>3. CASE Out(c)
      BY <3>3 DEF Out
    <3>4. CASE ~Out(c)
      <4>1. \/ conn[c].rx["srv"] = <<sent[c]>>
            \/ conn[c].rx["cli"] = <<sent[c]>>
        BY <2>1, <2>3, <3>4 DEF Flight
      <4>2. \A x : <<x>> # << >>
        OBVIOUS
      <4>3. Readable(conn[c], "srv") \/ Readable(conn[c], "cli")
        BY <4>1, <4>2, Zenon DEF Readable
      <4> QED BY <3>1, <3>2, <4>3
    <3> QED BY <3>3, <3>4
  <2> QED BY <2>2, <2>3
<1> QED BY <1>2, Invariance, PTL

-----------------------------------------------------------------------------
(* The service is the conversation of each client with its echo            *)

Word(c) == IF Talk(c) = "client" THEN << >> ELSE UnderWay(c)

WordsAreSent ==
  \A c \in Clients : Word(c) = IF Talk(c) = "client" THEN << >> ELSE <<sent[c]>>

(* The word of the conversation is the client's last message.              *)
LEMMA WordIs == IInv => WordsAreSent
<1> SUFFICES ASSUME IInv, NEW c \in Clients
             PROVE  Word(c) = IF Talk(c) = "client" THEN << >> ELSE <<sent[c]>>
  BY DEF WordsAreSent
<1>1. Talk(c) # "client" => Waiting(c) /\ (ServerOpen(c) \/ conn[c].rx["cli"] # << >>)
  BY DEF Talk
<1> QED BY <1>1, UnderWayIs DEF Word

(* The same for the state after a step.                                    *)
LEMMA WordWillBe == IInv' => WordsAreSent'
  BY WordIs, PTL

Quiet(c) == Talk(c)' = Talk(c) /\ Word(c)' = Word(c)

(* When neither the turn nor the word changes, nothing is heard of the     *)
(* client.                                                                 *)
LEMMA QuietIf ==
  ASSUME IInv, IInv', NEW c \in Clients, Talk(c)' = Talk(c),
         sent'[c] = sent[c] \/ Talk(c) = "client"
  PROVE  Quiet(c)
<1>1. Word(c) = IF Talk(c) = "client" THEN << >> ELSE <<sent[c]>>
  BY WordIs DEF WordsAreSent
<1>2. Word(c)' = IF Talk(c)' = "client" THEN << >> ELSE <<sent'[c]>>
  BY WordWillBe DEF WordsAreSent
<1> QED BY <1>1, <1>2 DEF Quiet

(* A step that leaves the talk of every client but c as it was.            *)
LEMMA OthersQuiet ==
  ASSUME IInv, IInv', NEW c \in Clients,
         \A d \in Clients \ {c} : conn'[d] = conn[d] /\ pc'[d] = pc[d] /\ sent'[d] = sent[d]
  PROVE  \A d \in Clients \ {c} : Quiet(d)
<1> SUFFICES ASSUME NEW d \in Clients \ {c} PROVE Quiet(d)
  OBVIOUS
<1>1. Talk(d)' = Talk(d)
  BY DEF Talk, Waiting, ServerOpen
<1> QED BY <1>1, QuietIf

(* A step nothing is heard of is a stutter of the conversations.           *)
LEMMA StaysQuiet ==
  ASSUME \A d \in Clients : Quiet(d)
  PROVE  UNCHANGED Service!vars
<1>1. /\ [d \in Clients |-> Talk(d)]' = [d \in Clients |-> Talk(d)]
      /\ [d \in Clients |-> Word(d)]' = [d \in Clients |-> Word(d)]
  BY DEF Quiet
<1> QED BY <1>1 DEF Service!vars, Word

(* Steps of a client are steps of its conversation.                        *)
LEMMA ClientTalks ==
  ASSUME IInv, IInv', NEW c \in Clients, ClientStep(c) \/ ClientInterrupt(c)
  PROVE  Service!Next \/ UNCHANGED Service!vars
<1> DEFINE turn == [d \in Clients |-> Talk(d)]
           word == [d \in Clients |-> IF Talk(d) = "client" THEN << >> ELSE UnderWay(d)]
<1>1. /\ UNCHANGED <<serverVars, backlog>>
      /\ \/ \E msg \in Own(c) : \E next \in {"first", "wait"} : Says(c, msg, next)
         \/ Receive(c)
         \/ \E next \in {"asleep", pc[c]} : Sleeps(c, next)
         \/ pc[c] # "off" /\ Exit(c)
  BY ClientSteps DEF IInv
<1>2. Keeps(c)
  BY <1>1, SaysResult, ReceiveResult, SleepsResult, ExitResult DEF Own
<1>3. \A d \in Clients \ {c} : Quiet(d)
  BY <1>2, OthersQuiet DEF Keeps
<1>4. /\ turn' = [turn EXCEPT ![c] = Talk(c)']
      /\ word' = [word EXCEPT ![c] = Word(c)']
  BY <1>3 DEF Quiet, Word
<1>5. /\ Word(c) = IF Talk(c) = "client" THEN << >> ELSE <<sent[c]>>
      /\ Word(c)' = IF Talk(c)' = "client" THEN << >> ELSE <<sent'[c]>>
  BY WordIs, WordWillBe DEF WordsAreSent
<1>6. CASE \E msg \in Own(c) : \E next \in {"first", "wait"} : Says(c, msg, next)
  <2>1. PICK msg \in Own(c), next \in {"first", "wait"} : Says(c, msg, next)
    BY <1>6
  <2>2. /\ sent'[c] = msg
        /\ Talk(c) = "client" /\ Talk(c)' = IF ServerOpen(c) THEN "server" ELSE "client"
    BY <1>1, <2>1, SaysResult DEF Own
  <2>3. CASE ServerOpen(c)
    <3>1. PICK w \in Texts : msg = <<c>> \o w
      BY DEF Own
    <3>2. /\ turn' = [turn EXCEPT ![c] = "server"]
          /\ word' = [word EXCEPT ![c] = << <<c>> \o w >>]
          /\ turn[c] = "client"
      BY <1>4, <1>5, <2>2, <2>3, <3>1
    <3>3. Service!Say(c)
      BY <3>2 DEF Service!Say, Texts
    <3> QED BY <3>3 DEF Service!Next
  <2>4. CASE ~ServerOpen(c)
    <3>1. Quiet(c)
      BY <1>5, <2>2, <2>4 DEF Quiet
    <3> QED BY <1>3, <3>1, StaysQuiet
  <2> QED BY <2>3, <2>4
<1>7. CASE Receive(c)
  <2>1. Talk(c) = "answer" /\ Talk(c)' = "client"
    BY <1>1, <1>7, ReceiveResult
  <2>2. /\ turn' = [turn EXCEPT ![c] = "client"]
        /\ word' = [word EXCEPT ![c] = << >>]
        /\ turn[c] = "answer"
    BY <1>4, <1>5, <2>1
  <2>3. Service!Hear(c)
    BY <2>2 DEF Service!Hear
  <2> QED BY <2>3 DEF Service!Next
<1>8. CASE \E next \in {"asleep", pc[c]} : Sleeps(c, next)
  <2>1. Talk(c) = "client" /\ Talk(c)' = "client"
    BY <1>1, <1>8, SleepsResult
  <2>2. Quiet(c)
    BY <1>5, <2>1 DEF Quiet
  <2> QED BY <1>3, <2>2, StaysQuiet
<1>9. CASE pc[c] # "off" /\ Exit(c)
  <2>1. Talk(c)' = "client"
    BY <1>1, <1>9, ExitResult
  <2>2. turn' = [turn EXCEPT ![c] = "client"] /\ word' = [word EXCEPT ![c] = << >>]
    BY <1>4, <1>5, <2>1
  <2>3. Service!Leave(c)
    BY <2>2 DEF Service!Leave
  <2> QED BY <2>3 DEF Service!Next
<1> QED BY <1>1, <1>6, <1>7, <1>8, <1>9

(* Steps of the server are steps of one conversation.                      *)
LEMMA ServerTalks ==
  ASSUME IInv, IInv', Serve
  PROVE  Service!Next \/ UNCHANGED Service!vars
<1> DEFINE turn == [d \in Clients |-> Talk(d)]
           word == [d \in Clients |-> IF Talk(d) = "client" THEN << >> ELSE UnderWay(d)]
<1>1. UNCHANGED <<pc, sent>> /\ UNCHANGED allClientVars
  BY DEF Serve, allClientVars, clientVars
<1>2. CASE EpollWait \/ HandleAccept \/ AcceptFails
  <2>1. conn' = conn
    BY <1>2 DEF EpollWait, HandleAccept, AcceptFails
  <2>2. ASSUME NEW d \in Clients PROVE Quiet(d)
    <3>1. Talk(d)' = Talk(d)
      BY <1>1, <2>1 DEF Talk, Waiting, ServerOpen
    <3> QED BY <1>1, <3>1, QuietIf
  <2> QED BY <2>2, StaysQuiet
<1>3. CASE \E f \in Fds : HandleMessage(f) \/ HandleEnd(f) \/ HandleOut(f)
  <2>1. PICK f \in Fds, c \in Clients :
          Deals(f, c) /\ (Talk(c)' = Talk(c) \/ (Talk(c) = "server" /\ Talk(c)' = "answer"))
    BY <1>1, <1>3, MessageDeals, EndDeals, OutDeals
  <2>2. \A d \in Clients \ {c} : Quiet(d)
    <3>1. \A d \in Clients \ {c} : conn'[d] = conn[d]
      BY <2>1 DEF Deals
    <3> QED BY <1>1, <3>1, OthersQuiet
  <2>3. CASE Talk(c)' = Talk(c)
    <3>1. Quiet(c)
      BY <1>1, <2>3, QuietIf
    <3> QED BY <2>2, <3>1, StaysQuiet
  <2>4. CASE Talk(c) = "server" /\ Talk(c)' = "answer"
    <3>1. Word(c) = <<sent[c]>> /\ Word(c)' = <<sent[c]>>
      BY <1>1, <2>4, WordIs, WordWillBe DEF WordsAreSent
    <3>2. /\ turn' = [turn EXCEPT ![c] = "answer"]
          /\ word' = [word EXCEPT ![c] = Echo(word[c])]
          /\ turn[c] = "server"
      BY <2>2, <2>4, <3>1 DEF Quiet, Word, Echo
    <3>3. Service!Answer(c)
      BY <3>2 DEF Service!Answer, Echo
    <3> QED BY <3>3 DEF Service!Next
  <2> QED BY <2>1, <2>3, <2>4
<1> QED BY <1>2, <1>3 DEF Serve, ServerStep

(* A server that stops ends all the conversations it is in.                *)
LEMMA StopTalks ==
  ASSUME IInv, IInv', Stop
  PROVE  Service!Next
<1> DEFINE turn == [d \in Clients |-> Talk(d)]
           word == [d \in Clients |-> IF Talk(d) = "client" THEN << >> ELSE UnderWay(d)]
<1>1. UNCHANGED <<pc, sent>>
  BY DEF Stop, allClientVars, clientVars
<1>2. ASSUME NEW d \in Clients
      PROVE  /\ Talk(d)' = IF Talk(d) = "server" THEN "client" ELSE Talk(d)
             /\ Word(d)' = IF Talk(d) = "server" THEN << >> ELSE Word(d)
  <2>1. Talk(d)' = IF Talk(d) = "server" THEN "client" ELSE Talk(d)
    BY OneEnds DEF Stop
  <2> QED BY <1>1, <2>1, WordIs, WordWillBe DEF WordsAreSent
<1>3. /\ turn' = [d \in Clients |-> IF turn[d] = "server" THEN "client" ELSE turn[d]]
      /\ word' = [d \in Clients |-> IF turn[d] = "server" THEN << >> ELSE word[d]]
  BY <1>2 DEF Word
<1>4. Service!ServerLeaves
  BY <1>3 DEF Service!ServerLeaves
<1> QED BY <1>4 DEF Service!Next

(* A connection made is not heard yet.                                     *)
LEMMA ArriveTalks ==
  ASSUME IInv, IInv', NEW c \in Clients, Arrive(c)
  PROVE  UNCHANGED Service!vars
<1>1. /\ pc[c] = "off" /\ conn' = [conn EXCEPT ![c] = NewConn]
      /\ pc' = [pc EXCEPT ![c] = "hello"] /\ sent' = [sent EXCEPT ![c] = Hello(c)]
  BY DEF Arrive, OpenAny, OpenEpoll, Open, Connect
<1>2. \A d \in Clients \ {c} : conn'[d] = conn[d] /\ pc'[d] = pc[d] /\ sent'[d] = sent[d]
  BY <1>1 DEF IInv, Types
<1>3. Talk(c) = "client" /\ Talk(c)' = "client"
  BY <1>1 DEF Talk, Waiting, IInv, Types
<1> QED BY <1>2, <1>3, OthersQuiet, QuietIf, StaysQuiet

(* ImplementsConversations: every client and the server talk in turns, and *)
(* the answer is the client's own last message; a client or the server may *)
(* leave at any moment (epoll/server.cpp:123-138, epoll/client.cpp:77-104).*)
THEOREM Echoing == Spec => ImplementsConversations
<1>1. Init => Service!Init
  <2> SUFFICES ASSUME Init PROVE Service!Init
    OBVIOUS
  <2>1. \A c \in Clients : Talk(c) = "client"
    BY DEF Init, AllClientsInit, ClientInit, Talk, Waiting
  <2> QED BY <2>1 DEF Service!Init
<1>2. IInv /\ IInv' /\ [Next]_vars => [Service!Next]_(Service!vars)
  <2> SUFFICES ASSUME IInv, IInv', [Next]_vars
               PROVE  Service!Next \/ UNCHANGED Service!vars
    OBVIOUS
  <2>1. CASE \E c \in Clients : Arrive(c) \/ ClientStep(c) \/ ClientInterrupt(c)
    BY <2>1, ArriveTalks, ClientTalks
  <2>2. CASE Serve
    BY <2>2, ServerTalks
  <2>3. CASE Stop
    BY <2>3, StopTalks
  <2>4. CASE UNCHANGED vars
    <3>1. UNCHANGED <<conn, pc, sent>>
      BY <2>4 DEF vars, tcpVars, allClientVars, clientVars
    <3>2. ASSUME NEW d \in Clients PROVE Quiet(d)
      <4>1. Talk(d)' = Talk(d)
        BY <3>1 DEF Talk, Waiting, ServerOpen
      <4> QED BY <3>1, <4>1, QuietIf
    <3> QED BY <3>2, StaysQuiet
  <2> QED BY <2>1, <2>2, <2>3, <2>4 DEF Next
<1> QED BY <1>1, <1>2, Invariance, PTL DEF Spec, ImplementsConversations, Service!Spec
=============================================================================
