---------------------------- MODULE RoundProofs ----------------------------
(***************************************************************************)
(* What holds of the select server and of the poll server for any number   *)
(* of clients and of descriptors: types, one descriptor for each           *)
(* connection, a round that stays true to what it was told, and that the   *)
(* service is the conversation of each client with its welcome.            *)
(***************************************************************************)
EXTENDS RoundService, FiniteSetTheorems, SequenceTheorems, WellFoundedInduction, TLAPS

Mail        == Messages \cup {Welcome}
Connections == [st : [Ends -> States], rx : [Ends -> Seq(Mail)]]

(* TypeOK with a name for the type of a connection. *)
Types ==
  /\ conn \in [Clients -> Connections]
  /\ backlog \in Seq(Clients)
  /\ program \in {"select", "poll"}
  /\ alive \in BOOLEAN
  /\ peer \in [Fds -> Clients \cup {NULL}]
  /\ watched \subseteq Fds
  /\ ready \subseteq Fds \cup {Listen}
  /\ answering \in Fds \cup {0}
  /\ pc \in [Clients -> PCs]
  /\ sent \in [Clients -> Messages]
  /\ cnt \in [EpollClients -> 0..Wrap - 1]

(* What the two ends know of each other: a connection one end closed is    *)
(* gone at the other one, and gone for both when both closed it.  Nothing  *)
(* is left to read for an end that closed or that met the reset.           *)
Gone == {"fin", "reset", "broken"}

Link(k) ==
  /\ \/ k = NoConn
     \/ k.st["srv"] = "est" /\ k.st["cli"] = "est"
     \/ k.st["srv"] = "closed" /\ k.st["cli"] \in Gone
     \/ k.st["srv"] \in Gone /\ k.st["cli"] = "closed"
  /\ k.st["srv"] \in {"closed", "broken"} => k.rx["srv"] = << >>
  /\ k.st["cli"] \in {"closed", "broken"} => k.rx["cli"] = << >>

Joined(c) ==
  /\ Link(conn[c])
  /\ pc[c] = "off" <=> conn[c].st["cli"] \in {"none", "closed"}

Linked == \A c \in Clients : Joined(c)

Once == \A i, j \in 1..Len(backlog) : backlog[i] = backlog[j] => i = j

(* Connections and descriptors. *)
Queued(c) == \E i \in 1..Len(backlog) : backlog[i] = c

Descriptors ==
  /\ \A f, g \in Fds : peer[f] # NULL /\ peer[f] = peer[g] => f = g
  /\ watched = {f \in Fds : peer[f] # NULL}
  /\ \A c \in Clients :
       /\ ServerOpen(c) <=> Queued(c) \/ Accepted(c)
       /\ Queued(c) => ~Accepted(c)
       /\ alive => conn[c].st["srv"] # "closed"

(* The message of a client that waits is in one of three places: unread at *)
(* the server, read and about to be answered, or answered.                 *)
Busy(c) == answering # 0 /\ peer[answering] = c

Flight(c) ==
  /\ pc[c] \in {"hello", "reply", "asleep"} =>
       conn[c].rx["srv"] = << >> /\ conn[c].rx["cli"] = << >>
  /\ pc[c] = "asleep" => ~ServerOpen(c)
  /\ Waiting(c) /\ ServerOpen(c) /\ ~Busy(c) =>
       \/ conn[c].rx["srv"] = <<sent[c]>> /\ conn[c].rx["cli"] = << >>
       \/ conn[c].rx["srv"] = << >> /\ conn[c].rx["cli"] = <<Welcome>>
  /\ Waiting(c) /\ ~ServerOpen(c) => conn[c].rx["cli"] \in {<< >>, <<Welcome>>}
  /\ Busy(c) => /\ conn[c].rx["srv"] = << >> /\ conn[c].rx["cli"] = << >>
                /\ pc[c] \in {"first", "wait", "off"}
  /\ Queued(c) => pc[c] \in {"hello", "first", "off"} /\ conn[c].rx["cli"] = << >>

Flying == \A c \in Clients : Flight(c)

(* What a round has still to do.                                           *)
Told(f) ==
  \/ Readable(conn[peer[f]], "srv")
  \/ program = "poll" /\ pc[peer[f]] = "hello"

Rounds ==
  /\ ready \ {Listen} \subseteq watched
  /\ Listen \in ready => backlog # << >> /\ answering = 0
  /\ answering # 0 => answering \in ready
  /\ \A f \in ready \ {Listen, answering} : Told(f)

IInv == Types /\ Linked /\ Once /\ Descriptors /\ Flying /\ Rounds

-----------------------------------------------------------------------------
(* The calls on one connection *)

(* No connection and a new one are connections whose ends agree.           *)
LEMMA NewTyped ==
  /\ NoConn \in Connections /\ Link(NoConn)
  /\ NewConn \in Connections /\ Link(NewConn)
  /\ "srv" \in Ends /\ Other("srv") = "cli" /\ "cli" \in Ends /\ Other("cli") = "srv"
<1>1. NoConn \in Connections /\ NewConn \in Connections
  <2>1. \A S : \A x \in S : Both(x) \in [Ends -> S]
    BY DEF Both, Ends
  <2>2. << >> \in Seq(Mail) /\ "none" \in States /\ "est" \in States
    BY EmptySeq DEF States
  <2> QED BY <2>1, <2>2 DEF NoConn, NewConn, Connections
<1>2. Link(NoConn) /\ Link(NewConn)
  BY DEF NoConn, NewConn, Both, Link
<1>3. "srv" \in Ends /\ Other("srv") = "cli" /\ "cli" \in Ends /\ Other("cli") = "srv"
  BY DEF Ends, Other
<1> QED BY <1>1, <1>2, <1>3

(* recv empties one end of a connection; one that was reset is broken from *)
(* then on.                                                                *)
LEMMA RecvResult ==
  ASSUME NEW k \in Connections, Link(k), NEW e \in Ends, NEW a, a = AfterRecv(k, e)
  PROVE  /\ a \in Connections
         /\ Link(a)
         /\ a.rx[e] = << >>
         /\ a.rx[Other(e)] = k.rx[Other(e)]
         /\ a.st[Other(e)] = k.st[Other(e)]
         /\ \/ a.st[e] = k.st[e]
            \/ k.rx[e] = << >> /\ k.st[e] = "reset" /\ a.st[e] = "broken"
<1>1. a \in Connections
  BY EmptySeq DEF AfterRecv, Connections, Ends, States
<1>2. /\ a.rx[e] = << >>
      /\ a.rx[Other(e)] = k.rx[Other(e)]
      /\ a.st[Other(e)] = k.st[Other(e)]
      /\ \/ a.st[e] = k.st[e]
         \/ k.rx[e] = << >> /\ k.st[e] = "reset" /\ a.st[e] = "broken"
  <2>1. CASE e = "srv"
    BY <2>1 DEF AfterRecv, Connections, Ends, Other
  <2>2. CASE e = "cli"
    BY <2>2 DEF AfterRecv, Connections, Ends, Other
  <2> QED BY <2>1, <2>2 DEF Ends
<1>3. k = NoConn => a = NoConn
  BY DEF AfterRecv, NoConn, Both, Ends
<1>4. Link(a)
  BY <1>2, <1>3, NewTyped DEF Link, Gone, Ends, Other
<1> QED BY <1>1, <1>2, <1>4

(* send puts its data at the other end, or breaks a connection whose other *)
(* end is gone.                                                            *)
LEMMA SendResult ==
  ASSUME NEW k \in Connections, Link(k), NEW e \in Ends, k.st[e] \notin {"none", "closed"},
         k.rx[e] = << >>, NEW data \in Seq(Mail), NEW a, a = AfterSend(k, e, data)
  PROVE  /\ a \in Connections
         /\ Link(a)
         /\ a.rx[e] = << >>
         /\ a.st[Other(e)] = k.st[Other(e)]
         /\ IF k.st[e] = "est"
            THEN a.st[e] = "est" /\ a.rx[Other(e)] = k.rx[Other(e)] \o data
            ELSE a.st[e] = "broken" /\ a.rx[Other(e)] = k.rx[Other(e)]
<1>1. a \in Connections
  <2>1. k.rx[Other(e)] \o data \in Seq(Mail)
    BY ConcatProperties DEF Connections, Other, Ends
  <2> QED BY <2>1 DEF AfterSend, Connections, Other, Ends, States
<1>2. /\ a.rx[e] = << >>
      /\ a.st[Other(e)] = k.st[Other(e)]
      /\ IF k.st[e] = "est"
         THEN a.st[e] = "est" /\ a.rx[Other(e)] = k.rx[Other(e)] \o data
         ELSE a.st[e] = "broken" /\ a.rx[Other(e)] = k.rx[Other(e)]
  <2>1. CASE e = "srv"
    BY <2>1 DEF AfterSend, Connections, Ends, Other
  <2>2. CASE e = "cli"
    BY <2>2 DEF AfterSend, Connections, Ends, Other
  <2> QED BY <2>1, <2>2 DEF Ends
<1>3. k # NoConn
  BY DEF NoConn, Both, Ends
<1>4. Link(a)
  BY <1>2, <1>3 DEF Link, Gone, Ends, Other
<1> QED BY <1>1, <1>2, <1>4

(* close leaves the end or the reset at the other side, and nothing when   *)
(* that side had closed before.                                            *)
LEMMA CloseResult ==
  ASSUME NEW k \in Connections, Link(k), NEW e \in Ends, k.st[e] \notin {"none", "closed"},
         NEW a, a = AfterClose(k, e)
  PROVE  /\ a \in Connections
         /\ Link(a)
         /\ IF k.st[Other(e)] = "closed" THEN a = NoConn
            ELSE /\ a.st[e] = "closed" /\ a.st[Other(e)] \in {"fin", "reset"}
                 /\ a.rx[Other(e)] = k.rx[Other(e)]
<1>0. k # NoConn
  BY DEF NoConn, Both, Ends
<1>1. a \in Connections
  BY NewTyped, EmptySeq DEF AfterClose, Connections, Other, Ends, States
<1>2. CASE k.st[Other(e)] = "closed"
  BY <1>1, <1>2, NewTyped DEF AfterClose
<1>3. CASE k.st[Other(e)] # "closed"
  <2>1. k.st[Other(e)] = "est"
    BY <1>0, <1>3 DEF Link, Gone, Ends, Other
  <2>2. /\ a.st[e] = "closed" /\ a.st[Other(e)] \in {"fin", "reset"}
        /\ a.rx[Other(e)] = k.rx[Other(e)] /\ a.rx[e] = << >>
    <3>1. CASE e = "srv"
      BY <1>3, <2>1, <3>1 DEF AfterClose, Connections, Ends, Other
    <3>2. CASE e = "cli"
      BY <1>3, <2>1, <3>2 DEF AfterClose, Connections, Ends, Other
    <3> QED BY <3>1, <3>2 DEF Ends
  <2>3. Link(a)
    BY <2>2 DEF Link, Gone, Ends, Other
  <2> QED BY <1>1, <1>3, <2>2, <2>3
<1> QED BY <1>2, <1>3

(* A descriptor whose client is gone: recv and close leave nothing. *)
LEMMA EndResult ==
  ASSUME NEW k \in Connections, Link(k), k.st["srv"] \in Gone
  PROVE  AfterClose(AfterRecv(k, "srv"), "srv") = NoConn
<1>1. k.st["cli"] = "closed"
  BY DEF Link, Gone, NoConn, Both
<1>2. /\ AfterRecv(k, "srv") \in Connections
      /\ AfterRecv(k, "srv").st["cli"] = "closed"
  BY <1>1, NewTyped, RecvResult
<1> QED BY <1>2, NewTyped DEF AfterClose

-----------------------------------------------------------------------------
(* The accept queue and the descriptors *)

(* A client that connects is in the accept queue, behind the others.       *)
LEMMA QueueGrows ==
  ASSUME backlog \in Seq(Clients), NEW c \in Clients, backlog' = Append(backlog, c)
  PROVE  /\ backlog' \in Seq(Clients)
         /\ \A d \in Clients : Queued(d)' <=> Queued(d) \/ d = c
         /\ Once /\ ~Queued(c) => Once'
         /\ backlog' # << >>
<1>1. /\ backlog' \in Seq(Clients) /\ Len(backlog) \in Nat
      /\ Len(backlog') = Len(backlog) + 1
      /\ \A i \in 1..Len(backlog) : backlog'[i] = backlog[i]
      /\ backlog'[Len(backlog) + 1] = c
  BY AppendProperties, LenProperties
<1>2. \A d \in Clients : Queued(d)' <=> Queued(d) \/ d = c
  BY <1>1 DEF Queued
<1>3. ASSUME Once, ~Queued(c) PROVE Once'
  BY <1>1, <1>3 DEF Once, Queued
<1>4. backlog' # << >>
  BY <1>1, EmptySeq
<1> QED BY <1>1, <1>2, <1>3, <1>4

(* accept takes the first connection of the queue and leaves the others.   *)
LEMMA QueueShrinks ==
  ASSUME backlog \in Seq(Clients), Once, backlog # << >>, backlog' = Tail(backlog)
  PROVE  /\ backlog' \in Seq(Clients)
         /\ Head(backlog) \in Clients
         /\ Queued(Head(backlog))
         /\ \A d \in Clients : Queued(d)' <=> Queued(d) /\ d # Head(backlog)
         /\ Once'
<1>1. /\ backlog' \in Seq(Clients) /\ Head(backlog) \in Clients
      /\ Len(backlog) \in Nat /\ Len(backlog) > 0
      /\ Len(backlog') = Len(backlog) - 1
      /\ \A i \in 1..Len(backlog') : backlog'[i] = backlog[i + 1]
      /\ Head(backlog) = backlog[1]
  BY HeadTailProperties, LenProperties, EmptySeq
<1>2. Queued(Head(backlog))
  BY <1>1 DEF Queued
<1>3. ASSUME NEW d \in Clients
      PROVE  Queued(d)' <=> Queued(d) /\ d # Head(backlog)
  <2>1. ASSUME Queued(d)' PROVE Queued(d) /\ d # Head(backlog)
    BY <1>1, <2>1 DEF Queued, Once
  <2>2. ASSUME Queued(d), d # Head(backlog) PROVE Queued(d)'
    <3>1. PICK i \in 1..Len(backlog) : backlog[i] = d
      BY <2>2 DEF Queued
    <3>2. i - 1 \in 1..Len(backlog') /\ backlog'[i - 1] = d
      BY <1>1, <2>2, <3>1
    <3> QED BY <3>2 DEF Queued
  <2> QED BY <2>1, <2>2
<1>4. Once'
  BY <1>1 DEF Once
<1> QED BY <1>1, <1>2, <1>3, <1>4

(* Without a listening socket nobody is queued.                            *)
LEMMA QueueEmpties ==
  ASSUME backlog' = << >>
  PROVE  backlog' \in Seq(Clients) /\ (\A d \in Clients : ~Queued(d)') /\ Once'
<1>1. Len(backlog') = 0 /\ backlog' \in Seq(Clients)
  BY EmptySeq
<1> QED BY <1>1 DEF Queued, Once

(* A set of descriptors that is not empty has a lowest one. *)
LEMMA LowestIsFree ==
  ASSUME FreeFds # {}
  PROVE  LowestFree \in Fds /\ peer[LowestFree] = NULL
<1> DEFINE R == {ss \in Nat \X Nat : ss[1] < ss[2]}
<1>1. IsWellFoundedOn(R, Nat)
  BY NatLessThanWellFounded, Zenon DEF OpToRel
<1>2. \A x, y \in Nat : x < y => <<x, y>> \in R
  BY SMT
<1>3. FreeFds \subseteq Nat /\ FreeFds \subseteq Fds
  BY FdAssumption, SMT DEF FreeFds, Fds
<1> HIDE DEF R
<1>4. PICK f \in FreeFds : \A g \in FreeFds : ~(<<g, f>> \in R)
  BY <1>1, <1>3, WFMin, Zenon
<1>5. \A g \in FreeFds : f <= g
  <2>1. \A g \in FreeFds : ~(g < f)
    BY <1>2, <1>3, <1>4, Zenon
  <2> QED BY <1>3, <2>1, SMT
<1>6. LowestFree \in FreeFds
  BY <1>5, Zenon DEF LowestFree
<1> QED BY <1>3, <1>6 DEF FreeFds

(* A descriptor that was reported is open, and so is its connection.       *)
LEMMA ReadyIsOpen ==
  ASSUME IInv, NEW f \in ready, f # Listen
  PROVE  f \in Fds /\ f # Listen /\ peer[f] \in Clients /\ ServerOpen(peer[f])
<1>1. f \in watched /\ f \in Fds
  BY DEF IInv, Rounds, Types
<1>2. peer[f] # NULL /\ peer[f] \in Clients
  BY <1>1 DEF IInv, Descriptors, Types
<1> QED BY <1>1, <1>2 DEF IInv, Descriptors, Accepted

(* The answer goes to a descriptor of this round that is open.             *)
LEMMA AnsweringIsOpen ==
  ASSUME IInv, answering # 0
  PROVE  answering \in ready /\ answering \in Fds /\ answering # Listen /\ Listen \notin ready
<1> QED BY FdAssumption DEF IInv, Rounds, Types, Fds, Listen


-----------------------------------------------------------------------------
(* The steps of a client *)

(* What client c may say. *)
Texts == ({"hello", "got your message"} \X {0}) \cup ({"cnt"} \X (0..Wrap - 1))

Own(c) == {msg \in Messages : \E w \in Texts : msg = <<c>> \o w}

(* A message of a client begins with its name.                             *)
LEMMA Prefixed ==
  ASSUME NEW c, NEW t, NEW n
  PROVE  <<c>> \o <<t, n>> = <<c, t, n>>
<1> DEFINE S == {c, t, n}
           u == <<c>>
           v == <<t, n>>
           w == <<c, t, n>>
<1>1. u \in Seq(S) /\ v \in Seq(S) /\ w \in Seq(S)
  OBVIOUS
<1>2. /\ Len(u) = 1 /\ Len(v) = 2 /\ Len(w) = 3
      /\ u[1] = c /\ v[1] = t /\ v[2] = n /\ w[1] = c /\ w[2] = t /\ w[3] = n
  OBVIOUS
<1> HIDE DEF S, u, v, w
<1>3. PICK s : s = u \o v
  OBVIOUS
<1>4. /\ s \in Seq(S) /\ Len(s) = Len(u) + Len(v)
      /\ \A i \in 1..Len(u) + Len(v) : s[i] = IF i <= Len(u) THEN u[i] ELSE v[i - Len(u)]
  BY <1>1, <1>3, ConcatProperties, Zenon
<1>5. \A i \in 1..3 : s[i] = IF i <= 1 THEN u[i] ELSE v[i - 1]
  BY <1>2, <1>4
<1>6. Len(s) = 3 /\ \A i \in 1..3 : s[i] = w[i]
  BY <1>2, <1>4, <1>5
<1>7. s = w
  BY <1>1, <1>2, <1>4, <1>6, SeqEqual
<1> QED BY <1>3, <1>7 DEF u, v, w

(* Whatever a client says is one of its own messages.                      *)
LEMMA OwnMessages ==
  ASSUME NEW c \in Clients
  PROVE  /\ Hello(c) \in Own(c)
         /\ c \in ReplyClients => GotYourMessage(c) \in Own(c)
         /\ c \in EpollClients /\ cnt \in [EpollClients -> 0..Wrap - 1] => Counter(c) \in Own(c)
<1>1. \A t, n : <<c>> \o <<t, n>> = <<c, t, n>>
  BY Prefixed
<1>2. Hello(c) \in Own(c)
  <2>1. Hello(c) \in Messages /\ <<"hello", 0>> \in Texts
    BY DEF Messages, Texts
  <2> QED BY <1>1, <2>1 DEF Own, Hello
<1>3. ASSUME c \in ReplyClients PROVE GotYourMessage(c) \in Own(c)
  <2>1. GotYourMessage(c) \in Messages /\ <<"got your message", 0>> \in Texts
    BY <1>3 DEF Messages, Texts
  <2> QED BY <1>1, <2>1 DEF Own, GotYourMessage
<1>4. ASSUME c \in EpollClients, cnt \in [EpollClients -> 0..Wrap - 1] PROVE Counter(c) \in Own(c)
  <2>1. Counter(c) \in Messages /\ <<"cnt", cnt[c]>> \in Texts
    BY <1>4 DEF Messages, Texts, Counter
  <2> QED BY <1>1, <2>1 DEF Own, Counter
<1> QED BY <1>2, <1>3, <1>4

(* A client says hello first, and anything else after an answer. *)
Says(c, msg, next) ==
  /\ pc[c] = IF next = "first" THEN "hello" ELSE "reply"
  /\ Send(c, msg, next)

Sleeps(c, next) ==
  /\ GetsEnd(c)
  /\ conn' = [conn EXCEPT ![c] = AfterRecv(@, "cli")]
  /\ pc' = [pc EXCEPT ![c] = next]
  /\ UNCHANGED <<backlog, sent>>


(* The three kinds of clients send, receive, wait on and leave.            *)
LEMMA ClientSteps ==
  ASSUME Types, NEW c \in Clients, ClientStep(c) \/ ClientInterrupt(c)
  PROVE  /\ cnt' \in [EpollClients -> 0..Wrap - 1]
         /\ UNCHANGED <<serverVars, backlog>>
         /\ \/ \E msg \in Own(c) : \E next \in {"first", "wait"} : Says(c, msg, next)
            \/ Receive(c)
            \/ \E next \in {"asleep", pc[c]} : Sleeps(c, next)
            \/ pc[c] # "off" /\ Exit(c)
<1>1. Hello(c) \in Own(c) /\ "first" \in {"first", "wait"} /\ "wait" \in {"first", "wait"}
  BY OwnMessages
<1>2. CASE c \in ReplyClients /\ ReplyStep(c) /\ UNCHANGED <<cnt, serverVars>>
  <2>1. GotYourMessage(c) \in Own(c)
    BY <1>2, OwnMessages
  <2>2. CASE SayHello(c)
    <3>1. Says(c, Hello(c), "first") /\ UNCHANGED backlog
      BY <2>2 DEF SayHello, Says, Send
    <3> QED BY <1>1, <1>2, <3>1 DEF Types
  <2>3. CASE Receive(c)
    BY <1>2, <2>3 DEF Receive, Types
  <2>4. CASE ReplyAnswer(c)
    <3>1. Says(c, GotYourMessage(c), "wait") /\ UNCHANGED backlog
      BY <2>4 DEF ReplyAnswer, Says, Send
    <3> QED BY <1>1, <1>2, <2>1, <3>1 DEF Types
  <2>5. CASE ReplyEnd(c)
    BY <1>2, <2>5 DEF ReplyEnd, GetsEnd, Waiting, Exit, Types
  <2> QED BY <1>2, <2>2, <2>3, <2>4, <2>5 DEF ReplyStep
<1>3. CASE c \in EpollClients /\ EpollStep(c) /\ UNCHANGED serverVars
  <2>1. Counter(c) \in Own(c)
    BY <1>3, OwnMessages DEF Types
  <2>2. CASE EpollHello(c)
    <3>1. Says(c, Hello(c), "first") /\ UNCHANGED backlog
      BY <2>2 DEF EpollHello, SayHello, Says, Send
    <3> QED BY <1>1, <1>3, <2>2, <3>1 DEF EpollHello, Types
  <2>3. CASE EpollReceive(c)
    BY <1>3, <2>3 DEF EpollReceive, Receive, Types
  <2>4. CASE EpollAnswer(c)
    <3>1. cnt' \in [EpollClients -> 0..Wrap - 1]
      BY <1>3, <2>4, EpollAssumption DEF EpollAnswer, Types
    <3>2. Says(c, Counter(c), "wait") /\ UNCHANGED backlog
      BY <2>4 DEF EpollAnswer, Says, Send
    <3> QED BY <1>1, <1>3, <2>1, <3>1, <3>2
  <2>5. CASE EpollEnd(c)
    <3>1. pc' = [pc EXCEPT ![c] = "asleep"] \/ pc' = [pc EXCEPT ![c] = pc[c]]
      BY <2>5 DEF EpollEnd
    <3> QED BY <1>3, <2>5, <3>1 DEF EpollEnd, Sleeps, Types
  <2> QED BY <1>3, <2>2, <2>3, <2>4, <2>5 DEF EpollStep
<1>4. CASE ClientInterrupt(c)
  BY <1>4 DEF ClientInterrupt, InterruptAny, Interrupt, Exit, Types
<1> QED BY <1>2, <1>3, <1>4 DEF ClientStep, StepAny

(* What a step of client c does to its own connection, and to nothing else *)
(* the server knows of.                                                    *)
Keeps(c) ==
  /\ conn' \in [Clients -> Connections] /\ pc' \in [Clients -> PCs]
  /\ sent' \in [Clients -> Messages]
  /\ \A d \in Clients \ {c} : conn'[d] = conn[d] /\ pc'[d] = pc[d] /\ sent'[d] = sent[d]
  /\ Joined(c)' /\ Flight(c)'
  /\ ServerOpen(c)' <=> ServerOpen(c)
  /\ conn'[c].st["srv"] = "closed" => conn[c].st["srv"] = "closed"
  /\ ServerOpen(c) /\ Readable(conn[c], "srv") => Readable(conn'[c], "srv")
  /\ ServerOpen(c) /\ pc[c] = "hello" => Readable(conn'[c], "srv") \/ pc'[c] = "hello"

(* The server has nothing to do with a client in these states.             *)
LEMMA NotBusy ==
  ASSUME IInv, NEW c \in Clients
  PROVE  /\ pc[c] \in {"hello", "reply", "asleep"} \/ conn[c].rx["cli"] # << >> => ~Busy(c)
         /\ Busy(c) => ServerOpen(c) /\ ~Queued(c)
<1>1. Flight(c)
  BY DEF IInv, Flying
<1>2. ASSUME Busy(c) PROVE Accepted(c)
  BY <1>2, AnsweringIsOpen DEF Busy, Accepted
<1> QED BY <1>1, <1>2 DEF Flight, IInv, Descriptors

(* A message said on a quiet connection is all there is to read of it,     *)
(* unless the server is gone.                                              *)
LEMMA SpeechResult ==
  ASSUME NEW k \in Connections, Link(k), k.st["cli"] \notin {"none", "closed"},
         k.rx["srv"] = << >>, k.rx["cli"] = << >>, NEW msg \in Messages,
         NEW a, a = AfterSend(k, "cli", <<msg>>)
  PROVE  /\ a \in Connections /\ Link(a)
         /\ a.rx["cli"] = << >>
         /\ a.st["srv"] = k.st["srv"]
         /\ IF k.st["cli"] = "est" THEN a.st["cli"] = "est" /\ a.rx["srv"] = <<msg>>
                                  ELSE a.st["cli"] = "broken" /\ a.rx["srv"] = << >>
<1>1. PICK data \in Seq(Mail) : data = <<msg>> /\ << >> \o data = data
  <2>1. <<msg>> \in Seq(Mail) /\ << >> \o <<msg>> = <<msg>>
    BY DEF Mail
  <2> QED BY <2>1
<1>2. "cli" \in Ends /\ Other("cli") = "srv"
  BY NewTyped
<1>3. a = AfterSend(k, "cli", data)
  BY <1>1
<1>4. a \in Connections /\ Link(a) /\ a.rx["cli"] = << >>
  BY <1>2, <1>3, SendResult
<1>5. a.st[Other("cli")] = k.st[Other("cli")]
  BY <1>2, <1>3, SendResult
<1>6. IF k.st["cli"] = "est" THEN a.st["cli"] = "est" /\ a.rx["srv"] = k.rx["srv"] \o data
                            ELSE a.st["cli"] = "broken" /\ a.rx["srv"] = k.rx["srv"]
  BY <1>2, <1>3 DEF AfterSend, Connections, Ends
<1> QED BY <1>1, <1>2, <1>4, <1>5, <1>6

(* A client that is about to speak has an empty line; it speaks to a       *)
(* server that is there, or its words are lost.                            *)
LEMMA SaysResult ==
  ASSUME IInv, NEW c \in Clients, UNCHANGED <<serverVars, backlog>>,
         NEW msg \in Messages, NEW next \in {"first", "wait"}, Says(c, msg, next)
  PROVE  /\ Keeps(c) /\ sent'[c] = msg
         /\ Talk(c) = "client" /\ Talk(c)' = IF ServerOpen(c) THEN "server" ELSE "client"
<1> DEFINE k == conn[c]
<1>1. /\ k \in Connections /\ Link(k) /\ pc[c] \in {"hello", "reply"}
      /\ k.st["cli"] \notin {"none", "closed"}
      /\ k.rx["srv"] = << >> /\ k.rx["cli"] = << >>
  BY DEF Says, IInv, Types, Linked, Joined, Flying, Flight
<1>2. ~Busy(c) /\ (Queued(c) => next = "first")
  BY <1>1, NotBusy DEF Says, IInv, Flying, Flight
<1>3. PICK a : a = AfterSend(k, "cli", <<msg>>)
  OBVIOUS
<1>5. /\ a \in Connections /\ Link(a)
      /\ a.rx["cli"] = << >>
      /\ a.st["srv"] = k.st["srv"]
      /\ IF k.st["cli"] = "est" THEN a.st["cli"] = "est" /\ a.rx["srv"] = <<msg>>
                               ELSE a.st["cli"] = "broken" /\ a.rx["srv"] = << >>
  BY <1>1, <1>3, SpeechResult
<1>6. /\ conn' = [conn EXCEPT ![c] = a] /\ pc' = [pc EXCEPT ![c] = next]
      /\ sent' = [sent EXCEPT ![c] = msg] /\ UNCHANGED <<peer, answering, backlog>>
  BY <1>3 DEF Says, Send, serverVars
<1>7. conn'[c] = a /\ pc'[c] = next /\ sent'[c] = msg
  BY <1>6 DEF IInv, Types
<1>8. /\ conn' \in [Clients -> Connections] /\ pc' \in [Clients -> PCs]
      /\ sent' \in [Clients -> Messages]
      /\ \A d \in Clients \ {c} : conn'[d] = conn[d] /\ pc'[d] = pc[d] /\ sent'[d] = sent[d]
  BY <1>5, <1>6 DEF IInv, Types, PCs
<1>9. k.st["cli"] = "est" <=> ServerOpen(c)
  BY <1>1 DEF Link, Gone, NoConn, Both, ServerOpen
<1>10. Joined(c)'
  BY <1>5, <1>7 DEF Joined
<1>11. Flight(c)'
  <2>1. ~Busy(c)' /\ (Queued(c)' <=> Queued(c))
    BY <1>2, <1>6 DEF Busy, Queued
  <2> QED BY <1>2, <1>5, <1>7, <1>9, <2>1 DEF Flight, ServerOpen
<1>12. /\ Readable(k, "srv") => Readable(a, "srv")
       /\ ServerOpen(c) => Readable(a, "srv")
  <2>1. <<msg>> # << >>
    OBVIOUS
  <2> QED BY <1>1, <1>5, <1>9, <2>1 DEF Readable
<1>13. Talk(c) = "client"
  BY <1>1 DEF Talk, Waiting
<1>14. Talk(c)' = IF ServerOpen(c) THEN "server" ELSE "client"
  BY <1>5, <1>7 DEF Talk, Waiting, ServerOpen
<1> QED BY <1>5, <1>7, <1>8, <1>10, <1>11, <1>12, <1>13, <1>14 DEF Keeps, ServerOpen

(* An answer received leaves nothing under way: it is the client's turn.   *)
LEMMA ReceiveResult ==
  ASSUME IInv, NEW c \in Clients, UNCHANGED <<serverVars, backlog>>, Receive(c)
  PROVE  Keeps(c) /\ Talk(c) = "answer" /\ Talk(c)' = "client"
<1> DEFINE k == conn[c]
<1>1. /\ k \in Connections /\ Link(k) /\ pc[c] \in {"first", "wait"}
      /\ k.rx["cli"] # << >> /\ Flight(c)
  BY DEF Receive, GetsData, Waiting, IInv, Types, Linked, Joined, Flying
<1>2. ~Busy(c) /\ ~Queued(c)
  BY <1>1, NotBusy DEF Flight
<1>3. k.rx["srv"] = << >> /\ k.st["cli"] \notin {"none", "closed", "broken"}
  <2>1. k.st["cli"] \notin {"none", "closed", "broken"}
    BY <1>1 DEF Link, IInv, Linked, Joined
  <2>2. CASE ServerOpen(c)
    BY <1>1, <1>2, <2>1, <2>2 DEF Flight, Waiting
  <2>3. CASE ~ServerOpen(c)
    BY <1>1, <2>1, <2>3 DEF ServerOpen, Link, NoConn, Both
  <2> QED BY <2>1, <2>2, <2>3
<1>4. PICK a : a = AfterRecv(k, "cli")
  OBVIOUS
<1>5. /\ a \in Connections /\ Link(a)
      /\ a.rx["cli"] = << >> /\ a.rx["srv"] = << >>
      /\ a.st["srv"] = k.st["srv"] /\ a.st["cli"] = k.st["cli"]
  BY <1>1, <1>3, <1>4, NewTyped, RecvResult
<1>6. /\ conn' = [conn EXCEPT ![c] = a] /\ pc' = [pc EXCEPT ![c] = "reply"]
      /\ UNCHANGED <<sent, peer, answering, backlog>>
  BY <1>4 DEF Receive, serverVars
<1>7. conn'[c] = a /\ pc'[c] = "reply"
  BY <1>6 DEF IInv, Types
<1>8. /\ conn' \in [Clients -> Connections] /\ pc' \in [Clients -> PCs]
      /\ sent' \in [Clients -> Messages]
      /\ \A d \in Clients \ {c} : conn'[d] = conn[d] /\ pc'[d] = pc[d] /\ sent'[d] = sent[d]
  BY <1>5, <1>6 DEF IInv, Types, PCs
<1>9. Joined(c)' /\ Flight(c)'
  <2>1. ~Busy(c)' /\ ~Queued(c)'
    BY <1>2, <1>6 DEF Busy, Queued
  <2> QED BY <1>3, <1>5, <1>7, <2>1 DEF Joined, Flight, Waiting
<1>10. Readable(k, "srv") => Readable(a, "srv")
  BY <1>3, <1>5 DEF Readable
<1>11. Talk(c) = "answer" /\ Talk(c)' = "client"
  BY <1>1, <1>7 DEF Talk, Waiting
<1> QED BY <1>1, <1>5, <1>7, <1>8, <1>9, <1>10, <1>11 DEF Keeps, ServerOpen

(* A client hears of the end only when the server closed.                  *)
LEMMA SleepsResult ==
  ASSUME IInv, NEW c \in Clients, UNCHANGED <<serverVars, backlog>>,
         NEW next \in {"asleep", pc[c]}, Sleeps(c, next)
  PROVE  Keeps(c) /\ Talk(c) = "client" /\ Talk(c)' = "client"
<1> DEFINE k == conn[c]
<1>1. /\ k \in Connections /\ Link(k) /\ pc[c] \in {"first", "wait"}
      /\ k.rx["cli"] = << >> /\ k.st["cli"] \in Gone
  BY DEF Sleeps, GetsEnd, Readable, Waiting, Gone, IInv, Types, Linked, Joined
<1>2. k.st["srv"] = "closed" /\ k.rx["srv"] = << >> /\ ~ServerOpen(c)
  BY <1>1 DEF Link, Gone, NoConn, Both, ServerOpen
<1>3. ~Busy(c) /\ ~Queued(c)
  BY <1>2, NotBusy DEF IInv, Descriptors
<1>4. PICK a : a = AfterRecv(k, "cli")
  OBVIOUS
<1>5. /\ a \in Connections /\ Link(a)
      /\ a.rx["cli"] = << >> /\ a.rx["srv"] = << >>
      /\ a.st["srv"] = "closed" /\ a.st["cli"] \in Gone
  BY <1>1, <1>2, <1>4, NewTyped, RecvResult DEF Gone
<1>6. /\ conn' = [conn EXCEPT ![c] = a] /\ pc' = [pc EXCEPT ![c] = next]
      /\ UNCHANGED <<sent, peer, answering, backlog>>
  BY <1>4 DEF Sleeps, serverVars
<1>7. conn'[c] = a /\ pc'[c] = next /\ next \in {"asleep", "first", "wait"}
  BY <1>1, <1>6 DEF IInv, Types
<1>8. /\ conn' \in [Clients -> Connections] /\ pc' \in [Clients -> PCs]
      /\ sent' \in [Clients -> Messages]
      /\ \A d \in Clients \ {c} : conn'[d] = conn[d] /\ pc'[d] = pc[d] /\ sent'[d] = sent[d]
  BY <1>5, <1>6, <1>7 DEF IInv, Types, PCs
<1>9. Joined(c)' /\ Flight(c)' /\ ~ServerOpen(c)'
  <2>1. ~Busy(c)' /\ ~Queued(c)'
    BY <1>3, <1>6 DEF Busy, Queued
  <2> QED BY <1>5, <1>7, <2>1 DEF Joined, Flight, Waiting, ServerOpen, Gone
<1>10. Talk(c) = "client" /\ Talk(c)' = "client"
  BY <1>1, <1>2, <1>5, <1>7, <1>9 DEF Talk, Waiting
<1> QED BY <1>2, <1>8, <1>9, <1>10 DEF Keeps

(* A client that leaves closes its end.                                    *)
LEMMA ExitResult ==
  ASSUME IInv, NEW c \in Clients, UNCHANGED <<serverVars, backlog>>, pc[c] # "off", Exit(c)
  PROVE  Keeps(c) /\ Talk(c)' = "client"
<1> DEFINE k == conn[c]
<1>1. k \in Connections /\ Link(k) /\ k.st["cli"] \notin {"none", "closed"} /\ Flight(c)
  BY DEF IInv, Types, Linked, Joined, Flying
<1>2. PICK a : a = AfterClose(k, "cli")
  OBVIOUS
<1>3. /\ a \in Connections /\ Link(a)
      /\ IF k.st["srv"] = "closed" THEN a = NoConn
         ELSE /\ a.st["cli"] = "closed" /\ a.st["srv"] \in {"fin", "reset"}
              /\ a.rx["srv"] = k.rx["srv"]
  BY <1>1, <1>2, NewTyped, CloseResult
<1>4. a.st["cli"] \in {"none", "closed"} /\ a.rx["cli"] = << >>
  BY <1>3 DEF Link, NoConn, Both
<1>5. /\ conn' = [conn EXCEPT ![c] = a] /\ pc' = [pc EXCEPT ![c] = "off"]
      /\ UNCHANGED <<sent, peer, answering, backlog>>
  BY <1>2 DEF Exit, serverVars
<1>6. conn'[c] = a /\ pc'[c] = "off"
  BY <1>5 DEF IInv, Types
<1>7. /\ conn' \in [Clients -> Connections] /\ pc' \in [Clients -> PCs]
      /\ sent' \in [Clients -> Messages]
      /\ \A d \in Clients \ {c} : conn'[d] = conn[d] /\ pc'[d] = pc[d] /\ sent'[d] = sent[d]
  BY <1>3, <1>5 DEF IInv, Types, PCs
<1>8. Joined(c)' /\ Flight(c)'
  <2>1. Busy(c)' <=> Busy(c)
    BY <1>5 DEF Busy
  <2>2. Busy(c) => a.rx["srv"] = << >>
    BY <1>1, <1>3 DEF Flight, NoConn, Both
  <2> QED BY <1>3, <1>4, <1>6, <2>1, <2>2 DEF Joined, Flight, Waiting
<1>9. k.st["srv"] # "none" /\ (ServerOpen(c) <=> k.st["srv"] # "closed")
  BY <1>1 DEF ServerOpen, Link, NoConn, Both, Gone
<1>10. /\ ServerOpen(c)' <=> ServerOpen(c)
       /\ a.st["srv"] # "closed"
       /\ ServerOpen(c) => Readable(a, "srv")
  BY <1>3, <1>6, <1>9 DEF ServerOpen, NoConn, Both, Readable
<1>11. Talk(c)' = "client"
  BY <1>6 DEF Talk, Waiting
<1> QED BY <1>6, <1>7, <1>8, <1>10, <1>11 DEF Keeps

(* Steps of a client and its interruption.                                 *)
LEMMA ClientKeeps ==
  ASSUME IInv, NEW c \in Clients, ClientStep(c) \/ ClientInterrupt(c)
  PROVE  IInv'
<1>1. /\ cnt' \in [EpollClients -> 0..Wrap - 1]
      /\ UNCHANGED <<serverVars, backlog>>
      /\ \/ \E msg \in Own(c) : \E next \in {"first", "wait"} : Says(c, msg, next)
         \/ Receive(c)
         \/ \E next \in {"asleep", pc[c]} : Sleeps(c, next)
         \/ pc[c] # "off" /\ Exit(c)
  BY ClientSteps DEF IInv
<1>2. Keeps(c)
  BY <1>1, SaysResult, ReceiveResult, SleepsResult, ExitResult DEF Own
<1>3. UNCHANGED <<backlog, program, alive, peer, watched, ready, answering>>
  BY <1>1 DEF serverVars
<1>4. Types'
  <2>1. conn' \in [Clients -> Connections] /\ pc' \in [Clients -> PCs] /\ sent' \in [Clients -> Messages]
    BY <1>2 DEF Keeps
  <2> QED BY <1>1, <1>3, <2>1, Zenon DEF IInv, Types
<1>5. ASSUME NEW d \in Clients, d # c
      PROVE  conn'[d] = conn[d] /\ pc'[d] = pc[d] /\ sent'[d] = sent[d]
  BY <1>2, <1>5 DEF Keeps
<1>6. Linked' /\ Flying'
  <2>1. ASSUME NEW d \in Clients PROVE Joined(d)' /\ Flight(d)'
    <3>1. CASE d = c
      BY <1>2, <3>1 DEF Keeps
    <3>2. CASE d # c
      <4>1. Joined(d) /\ Flight(d)
        BY DEF IInv, Linked, Flying
      <4>2. (Busy(d)' <=> Busy(d)) /\ (Queued(d)' <=> Queued(d))
        BY <1>3 DEF Busy, Queued
      <4> QED BY <1>5, <3>2, <4>1, <4>2 DEF Joined, Flight, Waiting, ServerOpen
    <3> QED BY <3>1, <3>2
  <2> QED BY <2>1 DEF Linked, Flying
<1>7. Once'
  BY <1>3 DEF IInv, Once
<1>8. ASSUME NEW d \in Clients
      PROVE  /\ ServerOpen(d)' <=> ServerOpen(d)
             /\ conn'[d].st["srv"] = "closed" => conn[d].st["srv"] = "closed"
             /\ ServerOpen(d) /\ Readable(conn[d], "srv") => Readable(conn'[d], "srv")
             /\ ServerOpen(d) /\ pc[d] = "hello" => Readable(conn'[d], "srv") \/ pc'[d] = "hello"
  BY <1>2, <1>5 DEF Keeps, ServerOpen
<1>9. Descriptors'
  <2>1. \A d \in Clients : (Queued(d)' <=> Queued(d)) /\ (Accepted(d)' <=> Accepted(d))
    BY <1>3 DEF Queued, Accepted
  <2>2. Descriptors
    BY DEF IInv
  <2> QED BY <1>3, <1>8, <2>1, <2>2 DEF Descriptors
<1>10. Rounds'
  <2>1. ASSUME NEW f \in ready \ {Listen, answering} PROVE Told(f)'
    <3>1. Told(f) /\ peer[f] \in Clients /\ ServerOpen(peer[f])
      BY ReadyIsOpen DEF IInv, Rounds
    <3>2. PICK d \in Clients : d = peer[f]
      BY <3>1
    <3> QED BY <1>3, <1>8, <3>1, <3>2 DEF Told
  <2> QED BY <1>3, <2>1 DEF IInv, Rounds
<1> QED BY <1>4, <1>6, <1>7, <1>9, <1>10 DEF IInv

(* A new process connects: its connection is queued and nothing else.      *)
LEMMA ArriveKeeps ==
  ASSUME IInv, NEW c \in Clients, Arrive(c)
  PROVE  IInv'
<1>1. /\ pc[c] = "off" /\ conn[c] = NoConn
      /\ conn' = [conn EXCEPT ![c] = NewConn] /\ backlog' = Append(backlog, c)
      /\ pc' = [pc EXCEPT ![c] = "hello"] /\ sent' = [sent EXCEPT ![c] = Hello(c)]
  BY DEF Arrive, OpenAny, OpenEpoll, Open, Connect
<1>2. UNCHANGED <<program, alive, peer, watched, ready, answering>>
  BY DEF Arrive, serverVars
<1>3. cnt' \in [EpollClients -> 0..Wrap - 1]
  <2>1. cnt' = cnt \/ cnt' = [cnt EXCEPT ![c] = 0]
    BY DEF Arrive, OpenAny, OpenEpoll
  <2>2. 0 \in 0..Wrap - 1 /\ cnt \in [EpollClients -> 0..Wrap - 1]
    BY EpollAssumption DEF IInv, Types
  <2> QED BY <2>1, <2>2
<1>4. Hello(c) \in Messages
  BY DEF Messages
<1>5. /\ conn'[c] = NewConn /\ pc'[c] = "hello" /\ sent'[c] = Hello(c)
      /\ \A d \in Clients \ {c} : conn'[d] = conn[d] /\ pc'[d] = pc[d] /\ sent'[d] = sent[d]
  BY <1>1 DEF IInv, Types
<1>6. ~ServerOpen(c) /\ ~Queued(c) /\ ~Accepted(c) /\ ~Busy(c)
  <2>1. ~ServerOpen(c)
    BY <1>1 DEF ServerOpen, NoConn, Both
  <2> QED BY <2>1, NotBusy DEF IInv, Descriptors
<1>7. /\ backlog' \in Seq(Clients)
      /\ \A d \in Clients : Queued(d)' <=> Queued(d) \/ d = c
      /\ Once' /\ backlog' # << >>
  BY <1>1, <1>6, QueueGrows DEF IInv, Types
<1>8. Types'
  <2>1. /\ conn' \in [Clients -> Connections] /\ pc' \in [Clients -> PCs]
        /\ sent' \in [Clients -> Messages]
    BY <1>1, <1>4, NewTyped DEF IInv, Types, PCs
  <2> QED BY <1>2, <1>3, <1>7, <2>1, Zenon DEF IInv, Types
<1>9. Linked' /\ Flying'
  <2>1. ASSUME NEW d \in Clients PROVE Joined(d)' /\ Flight(d)'
    <3>0. Busy(d)' <=> Busy(d)
      BY <1>2 DEF Busy
    <3>1. CASE d = c
      BY <1>5, <1>6, <3>0, <3>1, NewTyped DEF Joined, Flight, Waiting, NewConn, Both
    <3>2. CASE d # c
      <4>1. Joined(d) /\ Flight(d)
        BY DEF IInv, Linked, Flying
      <4> QED BY <1>5, <1>7, <3>0, <3>2, <4>1 DEF Joined, Flight, Waiting, ServerOpen
    <3> QED BY <3>1, <3>2
  <2> QED BY <2>1 DEF Linked, Flying
<1>10. Descriptors'
  <2>1. \A d \in Clients : Accepted(d)' <=> Accepted(d)
    BY <1>2 DEF Accepted
  <2>2. \A d \in Clients \ {c} : ServerOpen(d)' <=> ServerOpen(d)
    BY <1>5 DEF ServerOpen
  <2>3. ServerOpen(c)' /\ conn'[c].st["srv"] # "closed"
    BY <1>5 DEF ServerOpen, NewConn, Both
  <2> QED BY <1>2, <1>5, <1>6, <1>7, <2>1, <2>2, <2>3 DEF IInv, Descriptors
<1>11. Rounds'
  <2>1. ASSUME NEW f \in ready \ {Listen, answering} PROVE Told(f)'
    <3>1. Told(f) /\ peer[f] \in Clients /\ ServerOpen(peer[f])
      BY ReadyIsOpen DEF IInv, Rounds
    <3>2. PICK d \in Clients : d = peer[f] /\ d # c
      BY <1>6, <3>1
    <3> QED BY <1>2, <1>5, <3>1, <3>2 DEF Told
  <2> QED BY <1>2, <1>7, <2>1 DEF IInv, Rounds
<1> QED BY <1>7, <1>8, <1>9, <1>10, <1>11 DEF IInv


-----------------------------------------------------------------------------
(* The steps of the server *)

(* Nothing but what the round has still to do changes.                     *)
LEMMA OnlyRounds ==
  ASSUME IInv, ready' \subseteq Fds \cup {Listen}, Rounds',
         UNCHANGED <<conn, backlog, program, alive, peer, watched, answering, allClientVars>>
  PROVE  IInv'
<1>1. UNCHANGED <<conn, backlog, program, alive, peer, watched, answering, pc, sent, cnt>>
  BY DEF allClientVars, clientVars
<1>2. Types'
  BY <1>1, Zenon DEF IInv, Types
<1>3. Linked' /\ Once'
  BY <1>1 DEF IInv, Linked, Joined, Once
<1>4. Descriptors'
  BY <1>1 DEF IInv, Descriptors, ServerOpen, Queued, Accepted
<1>5. Flying'
  <2>1. ASSUME NEW c \in Clients
        PROVE  /\ Waiting(c)' <=> Waiting(c)
               /\ ServerOpen(c)' <=> ServerOpen(c)
               /\ Busy(c)' <=> Busy(c)
               /\ Queued(c)' <=> Queued(c)
    BY <1>1, Zenon DEF Waiting, ServerOpen, Busy, Queued
  <2>2. ASSUME NEW c \in Clients, Flight(c)
        PROVE  Flight(c)'
    BY <1>1, <2>1, <2>2, Zenon DEF Flight
  <2> QED BY <2>2 DEF IInv, Flying
<1> QED BY <1>2, <1>3, <1>4, <1>5 DEF IInv

(* The listening socket is none of the descriptors accept returns.         *)
LEMMA ListenIsNoFd == Listen \notin Fds /\ 0 \notin Fds /\ Listen = 0
  BY FdAssumption DEF Fds, Listen

(* What select or poll reports is so.                                      *)
LEMMA WaitKeeps ==
  ASSUME IInv, Wait, UNCHANGED allClientVars
  PROVE  IInv'
<1>1. /\ UNCHANGED <<conn, backlog, program, alive, peer, watched, answering>>
      /\ ready' = {f \in watched : Readable(conn[peer[f]], "srv")}
                    \cup (IF backlog # << >> THEN {Listen} ELSE {})
      /\ answering = 0
  BY DEF Wait
<1>2. UNCHANGED <<pc>>
  BY DEF allClientVars, clientVars
<1>3. watched \subseteq Fds
  BY DEF IInv, Types
<1>4. ready' \subseteq Fds \cup {Listen}
  BY <1>1, <1>3
<1>5. Rounds'
  <2>1. ready' \ {Listen} \subseteq watched'
    BY <1>1
  <2>2. Listen \in ready' => backlog' # << >> /\ answering' = 0
    BY <1>1, <1>3, ListenIsNoFd
  <2>3. \A f \in ready' \ {Listen, answering'} : Told(f)'
    BY <1>1, <1>2 DEF Told
  <2>4. answering' = 0
    BY <1>1
  <2> QED BY <2>1, <2>2, <2>3, <2>4 DEF Rounds
<1> QED BY <1>1, <1>4, <1>5, OnlyRounds

(* accept without a free descriptor.                                       *)
LEMMA RefusalKeeps ==
  ASSUME IInv, AcceptFails, UNCHANGED allClientVars
  PROVE  IInv'
<1>1. /\ UNCHANGED <<conn, backlog, program, alive, peer, watched, answering>>
      /\ ready' = ready \ {Listen} /\ Listen \in ready
  BY DEF AcceptFails
<1>2. UNCHANGED <<pc>>
  BY DEF allClientVars, clientVars
<1>3. ready' \subseteq Fds \cup {Listen}
  BY <1>1 DEF IInv, Types
<1>4. Rounds'
  BY <1>1, <1>2 DEF IInv, Rounds, Told
<1> QED BY <1>1, <1>3, <1>4, OnlyRounds

(* One accept: the first connection of the queue, on the lowest            *)
(* descriptor.  If garbage makes poll's loop read it in the same round,    *)
(* its client has spoken, is gone, or is about to say hello.               *)
LEMMA AcceptKeeps ==
  ASSUME IInv, Accept, UNCHANGED allClientVars
  PROVE  IInv'
<1>1. /\ backlog # << >> /\ FreeFds # {} /\ backlog' = Tail(backlog) /\ alive
      /\ answering = 0 /\ Listen \in ready
  BY DEF Accept, IInv, Rounds
<1>2. LowestFree \in Fds /\ peer[LowestFree] = NULL
  BY <1>1, LowestIsFree
<1>3. PICK f \in Fds : f = LowestFree /\ peer[f] = NULL
  BY <1>2
<1>4. /\ backlog' \in Seq(Clients)
      /\ Head(backlog) \in Clients
      /\ Queued(Head(backlog))
      /\ \A d \in Clients : Queued(d)' <=> Queued(d) /\ d # Head(backlog)
      /\ Once'
  BY <1>1, QueueShrinks DEF IInv, Types
<1>5. PICK c \in Clients : c = Head(backlog)
  BY <1>4
<1>6. /\ Queued(c) /\ \A d \in Clients : Queued(d)' <=> Queued(d) /\ d # c
      /\ c # NULL
  BY <1>4, <1>5, FdAssumption
<1>7. /\ UNCHANGED <<conn, program, alive, answering, pc, sent, cnt>>
      /\ peer' = [peer EXCEPT ![f] = c] /\ watched' = watched \cup {f}
      /\ \/ ready' = ready \ {Listen}
         \/ program = "poll" /\ ready' = (ready \ {Listen}) \cup {f}
  BY <1>3, <1>5 DEF Accept, allClientVars, clientVars
<1>8. /\ peer'[f] = c /\ f # Listen
      /\ \A g \in Fds \ {f} : peer'[g] = peer[g]
      /\ \A g \in Fds : peer[g] # c
      /\ f \notin watched
  <2>1. ~Accepted(c) /\ f \notin watched
    BY <1>3, <1>6 DEF IInv, Descriptors
  <2> QED BY <1>7, <2>1, ListenIsNoFd DEF IInv, Types, Accepted
<1>9. Types'
  <2>1. peer' \in [Fds -> Clients \cup {NULL}]
    BY <1>7 DEF IInv, Types
  <2>2. watched' \subseteq Fds /\ ready' \subseteq Fds \cup {Listen}
    BY <1>7 DEF IInv, Types
  <2> QED BY <1>4, <1>7, <2>1, <2>2, Zenon DEF IInv, Types
<1>10. \A d \in Clients : (~Busy(d) /\ ~Busy(d)') /\ (Accepted(d)' <=> Accepted(d) \/ d = c)
  <2>1. ASSUME NEW d \in Clients PROVE Accepted(d)' <=> Accepted(d) \/ d = c
    BY <1>3, <1>8, FdAssumption DEF Accepted
  <2> QED BY <1>1, <1>7, <2>1 DEF Busy
<1>11. Linked' /\ Flying'
  <2>1. ASSUME NEW d \in Clients PROVE Joined(d)' /\ Flight(d)'
    <3>1. Joined(d) /\ Flight(d)
      BY DEF IInv, Linked, Flying
    <3> QED BY <1>6, <1>7, <1>10, <3>1 DEF Joined, Flight, Waiting, ServerOpen
  <2> QED BY <2>1 DEF Linked, Flying
<1>12. Descriptors'
  <2>1. \A g, h \in Fds : peer'[g] # NULL /\ peer'[g] = peer'[h] => g = h
    BY <1>8 DEF IInv, Descriptors
  <2>2. watched' = {g \in Fds : peer'[g] # NULL}
    BY <1>6, <1>7, <1>8 DEF IInv, Descriptors
  <2>3. ASSUME NEW d \in Clients
        PROVE  /\ ServerOpen(d)' <=> Queued(d)' \/ Accepted(d)'
               /\ Queued(d)' => ~Accepted(d)'
               /\ alive' => conn'[d].st["srv"] # "closed"
    BY <1>6, <1>7, <1>10 DEF IInv, Descriptors, ServerOpen
  <2> QED BY <2>1, <2>2, <2>3 DEF Descriptors
<1>13. Readable(conn[c], "srv") \/ pc[c] = "hello"
  <2>1. Joined(c) /\ Link(conn[c]) /\ Flight(c) /\ ServerOpen(c)
    BY <1>6 DEF IInv, Linked, Joined, Flying, Descriptors
  <2>2. pc[c] \in {"hello", "first", "off"} /\ conn[c].rx["cli"] = << >>
    BY <1>6, <2>1 DEF Flight
  <2>3. CASE pc[c] = "first"
    <3>1. conn[c].rx["srv"] = <<sent[c]>>
      <4>1. <<Welcome>> # << >>
        OBVIOUS
      <4> QED BY <1>10, <2>1, <2>2, <2>3, <4>1 DEF Flight, Waiting
    <3>2. <<sent[c]>> # << >>
      OBVIOUS
    <3> QED BY <3>1, <3>2 DEF Readable
  <2>4. CASE pc[c] = "off"
    BY <2>1, <2>4 DEF Joined, Link, Gone, NoConn, Both, ServerOpen, Readable
  <2> QED BY <2>2, <2>3, <2>4
<1>14. Rounds'
  <2>1. ready' \ {Listen} \subseteq watched'
    BY <1>7 DEF IInv, Rounds
  <2>2. Listen \notin ready' /\ answering' = 0
    BY <1>1, <1>7, <1>8
  <2>3. ASSUME NEW g \in ready', g # Listen PROVE Told(g)'
    <3>1. CASE g = f
      <4>1. program' = "poll"
        <5>1. f \notin ready
          BY <1>8 DEF IInv, Rounds
        <5> QED BY <1>7, <2>3, <3>1, <5>1
      <4> QED BY <1>7, <1>8, <1>13, <3>1, <4>1 DEF Told
    <3>2. CASE g # f
      <4>1. g \in ready \ {Listen} /\ g # 0
        BY <1>7, <2>3, <3>2, ListenIsNoFd
      <4>2. Told(g) /\ g \in Fds
        BY <1>1, <4>1, ReadyIsOpen DEF IInv, Rounds
      <4> QED BY <1>7, <1>8, <3>2, <4>2 DEF Told
    <3> QED BY <3>1, <3>2
  <2> QED BY <2>1, <2>2, <2>3, ListenIsNoFd DEF Rounds
<1> QED BY <1>4, <1>9, <1>11, <1>12, <1>14 DEF IInv

(* What reading from descriptor f, answering on it or closing it does:     *)
(* only the connection of its client c and what the round keeps for f      *)
(* change.                                                                 *)
Deals(f, c) ==
  /\ peer[f] = c /\ alive /\ f \in ready /\ Listen \notin ready /\ answering \in {0, f}
  /\ conn' \in [Clients -> Connections]
  /\ \A d \in Clients \ {c} : conn'[d] = conn[d]
  /\ UNCHANGED <<backlog, program, alive, allClientVars>>
  /\ Joined(c)' /\ Flight(c)'
  /\ conn'[c].st["srv"] # "closed"
  /\ \/ peer' = peer /\ watched' = watched /\ ServerOpen(c)'
     \/ peer' = [peer EXCEPT ![f] = NULL] /\ watched' = watched \ {f} /\ ~ServerOpen(c)'
        /\ answering' = 0
  /\ \/ answering' = f /\ ready' = ready
     \/ answering' = 0 /\ ready' = ready \ {f}

(* Whatever the server does to one connection it has accepted.             *)
LEMMA DealsKeeps ==
  ASSUME IInv, NEW f \in Fds, NEW c \in Clients, Deals(f, c)
  PROVE  IInv'
<1>1. /\ UNCHANGED <<backlog, program, alive, pc, sent, cnt>> /\ alive
      /\ \A d \in Clients \ {c} : conn'[d] = conn[d]
      /\ peer[f] = c /\ c # NULL /\ f # Listen /\ f # 0
      /\ f \in ready /\ Listen \notin ready /\ answering \in {0, f} /\ answering' \in {0, f}
      /\ conn'[c].st["srv"] # "closed"
  BY FdAssumption, ListenIsNoFd DEF Deals, allClientVars, clientVars
<1>2. /\ peer'[f] \in {c, NULL} /\ \A g \in Fds \ {f} : peer'[g] = peer[g]
      /\ peer' \in [Fds -> Clients \cup {NULL}]
      /\ peer'[f] = c <=> ServerOpen(c)'
      /\ watched' = {g \in Fds : peer'[g] # NULL}
  <2>1. peer \in [Fds -> Clients \cup {NULL}] /\ watched = {g \in Fds : peer[g] # NULL}
    BY DEF IInv, Types, Descriptors
  <2>2. CASE peer' = peer /\ watched' = watched /\ ServerOpen(c)'
    BY <1>1, <2>1, <2>2
  <2>3. CASE peer' = [peer EXCEPT ![f] = NULL] /\ watched' = watched \ {f} /\ ~ServerOpen(c)'
    BY <1>1, <2>1, <2>3
  <2> QED BY <2>2, <2>3 DEF Deals
<1>3. Types'
  <2>1. conn' \in [Clients -> Connections]
    BY DEF Deals
  <2>2. /\ watched' \subseteq Fds /\ ready' \subseteq Fds \cup {Listen}
        /\ answering' \in Fds \cup {0}
    BY <1>1, <1>2 DEF Deals, IInv, Types
  <2> QED BY <1>1, <1>2, <2>1, <2>2, Zenon DEF IInv, Types
<1>4. \A g \in Fds \ {f} : peer[g] # c /\ peer'[g] # c
  BY <1>1, <1>2 DEF IInv, Descriptors
<1>5. \A d \in Clients \ {c} : (Accepted(d)' <=> Accepted(d)) /\ ~Busy(d) /\ ~Busy(d)'
  BY <1>1, <1>2, FdAssumption DEF Accepted, Busy
<1>6. \A d \in Clients : Queued(d)' <=> Queued(d)
  BY <1>1 DEF Queued
<1>7. Linked' /\ Flying'
  <2>1. ASSUME NEW d \in Clients PROVE Joined(d)' /\ Flight(d)'
    <3>1. CASE d = c
      BY <3>1 DEF Deals
    <3>2. CASE d # c
      <4>1. Joined(d) /\ Flight(d)
        BY DEF IInv, Linked, Flying
      <4> QED BY <1>1, <1>5, <1>6, <3>2, <4>1 DEF Joined, Flight, Waiting, ServerOpen
    <3> QED BY <3>1, <3>2
  <2> QED BY <2>1 DEF Linked, Flying
<1>8. Once'
  BY <1>1 DEF IInv, Once
<1>9. (Accepted(c)' <=> ServerOpen(c)') /\ ~Queued(c)
  <2>1. ~Queued(c)
    BY <1>1 DEF IInv, Descriptors, Accepted
  <2> QED BY <1>2, <1>4, <2>1 DEF Accepted
<1>10. Descriptors'
  <2>1. \A g, h \in Fds : peer'[g] # NULL /\ peer'[g] = peer'[h] => g = h
    BY <1>2, <1>4 DEF IInv, Descriptors
  <2>2. ASSUME NEW d \in Clients
        PROVE  /\ ServerOpen(d)' <=> Queued(d)' \/ Accepted(d)'
               /\ Queued(d)' => ~Accepted(d)'
               /\ alive' => conn'[d].st["srv"] # "closed"
    <3>1. CASE d = c
      BY <1>1, <1>6, <1>9, <3>1
    <3>2. CASE d # c
      BY <1>1, <1>5, <1>6, <3>2 DEF IInv, Descriptors, ServerOpen
    <3> QED BY <3>1, <3>2
  <2> QED BY <1>2, <2>1, <2>2 DEF Descriptors
<1>11. Rounds'
  <2>1. ready' \subseteq ready /\ Listen \notin ready'
    BY <1>1 DEF Deals
  <2>2. answering' # 0 => answering' = f /\ f \in ready' /\ peer'[f] = c
    BY <1>1 DEF Deals
  <2>3. answering' = 0 => f \notin ready'
    BY <1>1 DEF Deals
  <2>4. ASSUME NEW g \in ready' PROVE g \in Fds /\ peer'[g] # NULL /\ (g # f => Told(g)')
    <3>1. g \in ready /\ g # Listen
      BY <2>1
    <3>2. g \in Fds /\ peer[g] \in Clients
      BY <3>1, ReadyIsOpen
    <3>3. CASE g = f
      BY <1>1, <2>2, <2>3, <3>2, <3>3
    <3>4. CASE g # f
      <4>1. g # answering
        BY <1>1, <3>2, <3>4, ListenIsNoFd
      <4>2. Told(g) /\ peer[g] # c /\ peer'[g] = peer[g]
        BY <1>2, <1>4, <3>1, <3>2, <3>4, <4>1 DEF IInv, Rounds
      <4> QED BY <1>1, <3>2, <4>2, FdAssumption DEF Told
    <3> QED BY <3>3, <3>4
  <2>5. ready' \ {Listen} \subseteq watched'
    BY <1>2, <2>4
  <2>6. \A g \in ready' \ {Listen, answering'} : Told(g)'
    BY <1>1, <2>3, <2>4
  <2> QED BY <2>1, <2>2, <2>5, <2>6 DEF Rounds
<1> QED BY <1>3, <1>7, <1>8, <1>10, <1>11 DEF IInv

(* The only thing under way was the message: now it waits for its answer.  *)
LEMMA MessageDeals ==
  ASSUME IInv, NEW f \in Fds, ReadMessage(f), UNCHANGED allClientVars
  PROVE  \E c \in Clients : Deals(f, c) /\ Talk(c)' = Talk(c)
<1>1. /\ peer[f] \in Clients /\ ServerOpen(peer[f]) /\ alive
      /\ f \in ready /\ Listen \notin ready /\ answering = 0 /\ f # 0
  BY ReadyIsOpen, ListenIsNoFd DEF ReadMessage, Reads
<1>2. PICK c \in Clients, k \in Connections : peer[f] = c /\ conn[c] = k
  BY <1>1 DEF IInv, Types
<1>3. Link(k) /\ k.rx["srv"] # << >> /\ Flight(c) /\ Joined(c) /\ ServerOpen(c)
  BY <1>1, <1>2 DEF ReadMessage, Received, IInv, Linked, Joined, Flying
<1>4. ~Busy(c) /\ ~Queued(c)
  BY <1>1, <1>2 DEF Busy, IInv, Descriptors, Accepted
<1>5. pc[c] \in {"first", "wait", "off"} /\ k.rx["cli"] = << >> /\ k.st["srv"] # "broken"
  <2>1. pc[c] \in PCs
    BY DEF IInv, Types
  <2>2. k.st["srv"] # "broken"
    BY <1>3 DEF Link
  <2>3. pc[c] \in {"first", "wait", "off"}
    BY <1>2, <1>3, <2>1 DEF Flight, PCs
  <2>4. CASE pc[c] = "off"
    BY <1>2, <1>3, <2>2, <2>4 DEF Joined, Link, NoConn, Both, Waiting
  <2>5. CASE Waiting(c)
    BY <1>2, <1>3, <1>4, <2>2, <2>3, <2>5 DEF Flight
  <2> QED BY <2>2, <2>3, <2>4, <2>5 DEF Waiting
<1>6. PICK a : a = AfterRecv(k, "srv")
  OBVIOUS
<1>7. /\ a \in Connections /\ Link(a) /\ a.rx["srv"] = << >>
      /\ a.rx["cli"] = << >> /\ a.st["cli"] = k.st["cli"] /\ a.st["srv"] = k.st["srv"]
  BY <1>3, <1>5, <1>6, NewTyped, RecvResult
<1>8. /\ conn' = [conn EXCEPT ![c] = a] /\ answering' = f
      /\ UNCHANGED <<backlog, program, alive, peer, watched, ready>>
  BY <1>2, <1>6 DEF ReadMessage
<1>9. UNCHANGED <<pc, sent, cnt>>
  BY DEF allClientVars, clientVars
<1>10. /\ conn'[c] = a
       /\ conn' \in [Clients -> Connections]
       /\ \A d \in Clients \ {c} : conn'[d] = conn[d]
  BY <1>2, <1>7, <1>8 DEF IInv, Types
<1>11. Joined(c)'
  BY <1>2, <1>3, <1>5, <1>7, <1>9, <1>10 DEF Joined
<1>12. ServerOpen(c)' /\ conn'[c].st["srv"] # "closed"
  BY <1>2, <1>3, <1>7, <1>10 DEF ServerOpen
<1>13. Flight(c)'
  <2>1. Busy(c)' /\ ~Queued(c)'
    BY <1>1, <1>2, <1>4, <1>8 DEF Busy, Queued
  <2> QED BY <1>5, <1>7, <1>9, <1>10, <1>12, <2>1 DEF Flight
<1>14. Deals(f, c)
  BY <1>1, <1>2, <1>8, <1>10, <1>11, <1>12, <1>13 DEF Deals
<1>15. Talk(c)' = Talk(c)
  BY <1>2, <1>3, <1>5, <1>7, <1>9, <1>10, <1>12 DEF Talk, Waiting
<1> QED BY <1>14, <1>15

(* Nothing is left of the connection of a client that is gone.             *)
LEMMA EndDeals ==
  ASSUME IInv, NEW f \in Fds, ReadEnd(f), UNCHANGED allClientVars
  PROVE  \E c \in Clients : Deals(f, c) /\ Talk(c)' = Talk(c)
<1>1. /\ peer[f] \in Clients /\ ServerOpen(peer[f]) /\ alive
      /\ f \in ready /\ Listen \notin ready /\ answering = 0 /\ f # 0
  BY ReadyIsOpen, ListenIsNoFd DEF ReadEnd, Reads
<1>2. PICK c \in Clients, k \in Connections : peer[f] = c /\ conn[c] = k
  BY <1>1 DEF IInv, Types
<1>3. Link(k) /\ k.st["srv"] \in Gone /\ Joined(c) /\ ServerOpen(c)
  BY <1>1, <1>2 DEF ReadEnd, Received, Readable, Gone, IInv, Linked, Joined
<1>4. pc[c] = "off" /\ ~Queued(c)
  BY <1>2, <1>3 DEF Joined, Link, Gone, NoConn, Both, IInv, Descriptors, Accepted
<1>5. AfterClose(AfterRecv(k, "srv"), "srv") = NoConn
  BY <1>3, EndResult
<1>6. /\ conn' = [conn EXCEPT ![c] = NoConn] /\ peer' = [peer EXCEPT ![f] = NULL]
      /\ watched' = watched \ {f} /\ ready' = ready \ {f}
      /\ UNCHANGED <<backlog, program, alive, answering>>
  BY <1>2, <1>5 DEF ReadEnd
<1>7. UNCHANGED <<pc, sent, cnt>>
  BY DEF allClientVars, clientVars
<1>8. /\ conn'[c] = NoConn
      /\ conn' \in [Clients -> Connections]
      /\ \A d \in Clients \ {c} : conn'[d] = conn[d]
  BY <1>2, <1>6, NewTyped DEF IInv, Types
<1>9. Joined(c)' /\ Flight(c)' /\ ~ServerOpen(c)' /\ conn'[c].st["srv"] # "closed"
  <2>1. ~Busy(c)' /\ ~Queued(c)'
    BY <1>1, <1>4, <1>6 DEF Busy, Queued
  <2> QED BY <1>4, <1>7, <1>8, <2>1, NewTyped DEF Joined, Flight, Waiting, ServerOpen, NoConn, Both
<1>10. Deals(f, c)
  BY <1>1, <1>2, <1>6, <1>8, <1>9 DEF Deals
<1>11. Talk(c)' = Talk(c)
  BY <1>4, <1>7 DEF Talk, Waiting
<1> QED BY <1>10, <1>11

(* The welcome goes on its way; if the client is gone it meets a reset.    *)
LEMMA AnswerDeals ==
  ASSUME IInv, Answer, UNCHANGED allClientVars
  PROVE  \E f \in Fds, c \in Clients :
           Deals(f, c) /\ (Talk(c)' = Talk(c) \/ (Talk(c) = "server" /\ Talk(c)' = "answer"))
<1>1. answering \in Fds /\ answering \in ready /\ answering # Listen /\ Listen \notin ready /\ alive
  BY AnsweringIsOpen DEF Answer
<1>2. PICK f \in Fds, c \in Clients, k \in Connections :
        answering = f /\ peer[f] = c /\ conn[c] = k
  BY <1>1, ReadyIsOpen DEF IInv, Types
<1>3. Link(k) /\ Joined(c) /\ Flight(c) /\ Busy(c) /\ ServerOpen(c) /\ ~Queued(c)
  BY <1>1, <1>2, ListenIsNoFd DEF Busy, IInv, Linked, Joined, Flying, Descriptors, Accepted
<1>4. /\ k.st["srv"] \notin {"none", "closed"} /\ k.rx["srv"] = << >> /\ k.rx["cli"] = << >>
      /\ pc[c] \in {"first", "wait", "off"}
  BY <1>2, <1>3 DEF ServerOpen, Flight
<1>5. PICK text \in Seq(Mail) : text = <<Welcome>> /\ text # << >> /\ << >> \o text = text
  <2>1. <<Welcome>> \in Seq(Mail) /\ <<Welcome>> # << >> /\ << >> \o <<Welcome>> = <<Welcome>>
    BY DEF Mail
  <2> QED BY <2>1
<1>6. PICK a : a = AfterSend(k, "srv", text)
  OBVIOUS
<1>7. /\ a \in Connections /\ Link(a) /\ a.rx["srv"] = << >>
      /\ a.st["cli"] = k.st["cli"]
      /\ IF k.st["srv"] = "est" THEN a.st["srv"] = "est" /\ a.rx["cli"] = text
                               ELSE a.st["srv"] = "broken" /\ a.rx["cli"] = << >>
  <2>1. "srv" \in Ends /\ Other("srv") = "cli"
    BY NewTyped
  <2>2. a \in Connections /\ Link(a) /\ a.rx["srv"] = << >>
    BY <1>3, <1>4, <1>6, <2>1, SendResult
  <2>3. a.st[Other("srv")] = k.st[Other("srv")]
    BY <1>3, <1>4, <1>6, <2>1, SendResult
  <2>4. IF k.st["srv"] = "est" THEN a.st["srv"] = "est" /\ a.rx["cli"] = k.rx["cli"] \o text
                             ELSE a.st["srv"] = "broken" /\ a.rx["cli"] = k.rx["cli"]
    BY <1>6, <2>1 DEF AfterSend, Connections, Ends
  <2> QED BY <1>4, <1>5, <2>1, <2>2, <2>3, <2>4
<1>8. /\ conn' = [conn EXCEPT ![c] = a]
      /\ answering' = 0 /\ ready' = ready \ {f}
      /\ UNCHANGED <<backlog, program, alive, peer, watched>>
  BY <1>2, <1>5, <1>6 DEF Answer
<1>9. UNCHANGED <<pc, sent, cnt>>
  BY DEF allClientVars, clientVars
<1>10. /\ conn'[c] = a
       /\ conn' \in [Clients -> Connections]
       /\ \A d \in Clients \ {c} : conn'[d] = conn[d]
  BY <1>2, <1>7, <1>8 DEF IInv, Types
<1>11. Joined(c)'
  BY <1>2, <1>3, <1>7, <1>9, <1>10 DEF Joined
<1>12. ServerOpen(c)' /\ conn'[c].st["srv"] # "closed"
  BY <1>4, <1>7, <1>10 DEF ServerOpen
<1>13. Waiting(c) => k.st["srv"] = "est"
  BY <1>2, <1>3, <1>4 DEF Waiting, Joined, Link, Gone, NoConn, Both
<1>14. Flight(c)'
  <2>1. ~Busy(c)' /\ ~Queued(c)'
    BY <1>3, <1>8 DEF Busy, Queued
  <2> QED BY <1>4, <1>5, <1>7, <1>9, <1>10, <1>12, <1>13, <2>1 DEF Flight, Waiting
<1>15. Deals(f, c)
  BY <1>1, <1>2, <1>8, <1>10, <1>11, <1>12, <1>14 DEF Deals
<1>16. Talk(c)' = Talk(c) \/ (Talk(c) = "server" /\ Talk(c)' = "answer")
  <2>1. CASE ~Waiting(c)
    BY <1>9, <2>1 DEF Talk, Waiting
  <2>2. CASE Waiting(c)
    <3>1. Talk(c) = "server"
      BY <1>2, <1>3, <1>4, <2>2 DEF Talk
    <3>2. a.rx["cli"] # << >>
      BY <1>5, <1>7, <1>13, <2>2
    <3>3. Talk(c)' = "answer"
      BY <1>9, <1>10, <2>2, <3>2 DEF Talk, Waiting
    <3> QED BY <3>1, <3>3
  <2> QED BY <2>1, <2>2
<1> QED BY <1>15, <1>16


(* What the end of the server does to one connection.                      *)
LEMMA OneDies ==
  ASSUME IInv, Die, UNCHANGED allClientVars, NEW c \in Clients
  PROVE  /\ conn'[c] \in Connections
         /\ ~ServerOpen(c)'
         /\ Joined(c)' /\ Flight(c)'
         /\ Talk(c)' = IF Talk(c) = "server" THEN "client" ELSE Talk(c)
<1>1. PICK k \in Connections : k = conn[c]
  BY DEF IInv, Types
<1>2. Link(k) /\ Joined(c) /\ Flight(c)
  BY <1>1 DEF IInv, Linked, Joined, Flying
<1>3. UNCHANGED <<pc, sent>> /\ ~Busy(c)' /\ ~Queued(c)'
  <2>1. answering' = 0 /\ backlog' = << >>
    BY DEF Die
  <2> QED BY <2>1, QueueEmpties DEF allClientVars, clientVars, Busy
<1>4. PICK b : b = AfterClose(k, "srv")
  OBVIOUS
<1>5. conn'[c] = IF k = NoConn THEN NoConn
                 ELSE IF Accepted(c) \/ b.st["cli"] # "fin" THEN b
                 ELSE [b EXCEPT !.st["cli"] = "reset"]
  BY <1>1, <1>4 DEF Die
<1>6. PICK a : a = conn'[c]
  OBVIOUS
<1>7. CASE k = NoConn
  <2>1. conn'[c] = NoConn
    BY <1>5, <1>7
  <2>2. pc[c] = "off"
    BY <1>1, <1>2, <1>7 DEF Joined, NoConn, Both
  <2>3. Talk(c) = "client" /\ Talk(c)' = "client"
    BY <1>3, <2>2 DEF Talk, Waiting
  <2>4. Joined(c)' /\ Flight(c)' /\ ~ServerOpen(c)'
    BY <1>3, <2>1, <2>2, NewTyped DEF Joined, Flight, Waiting, ServerOpen, NoConn, Both
  <2> QED BY <2>1, <2>3, <2>4, NewTyped
<1>8. CASE k # NoConn
  <2>1. k.st["srv"] \notin {"none", "closed"} /\ ServerOpen(c)
    <3>1. k.st["srv"] # "closed"
      BY <1>1 DEF Die, IInv, Descriptors
    <3> QED BY <1>1, <1>2, <1>8, <3>1 DEF Link, ServerOpen, Gone
  <2>2. /\ b \in Connections /\ Link(b)
        /\ IF k.st["cli"] = "closed" THEN b = NoConn
           ELSE /\ b.st["srv"] = "closed" /\ b.st["cli"] \in {"fin", "reset"}
                /\ b.rx["cli"] = k.rx["cli"]
    BY <1>2, <1>4, <2>1, NewTyped, CloseResult
  <2>3. /\ a \in Connections /\ Link(a)
        /\ IF k.st["cli"] = "closed" THEN a = NoConn
           ELSE /\ a.st["srv"] = "closed" /\ a.st["cli"] \in {"fin", "reset"}
                /\ a.rx["cli"] = k.rx["cli"]
    <3>1. CASE Accepted(c) \/ b.st["cli"] # "fin"
      BY <1>5, <1>6, <1>8, <2>2, <3>1
    <3>2. CASE ~Accepted(c) /\ b.st["cli"] = "fin"
      <4>1. a = [b EXCEPT !.st["cli"] = "reset"]
        BY <1>5, <1>6, <1>8, <3>2
      <4>2. /\ a \in Connections
            /\ a.st["srv"] = b.st["srv"] /\ a.st["cli"] = "reset" /\ a.rx = b.rx
        BY <2>2, <4>1 DEF Connections, Ends, States
      <4>3. b.st["srv"] = "closed" /\ k.st["cli"] # "closed"
        BY <2>2, <3>2 DEF Link, NoConn, Both
      <4> QED BY <2>2, <4>2, <4>3 DEF Link, Gone, NoConn, Both
    <3> QED BY <3>1, <3>2
  <2>4. a.rx["srv"] = << >> /\ ~ServerOpen(c)'
    BY <1>6, <2>3 DEF Link, ServerOpen, NoConn, Both
  <2>5. Joined(c)'
    BY <1>1, <1>2, <1>3, <1>6, <1>8, <2>3 DEF Joined, Link, Gone, NoConn, Both
  <2>6. Waiting(c) => k.rx["cli"] \in {<< >>, <<Welcome>>}
    <3>1. CASE Busy(c)
      BY <1>1, <1>2, <3>1 DEF Flight
    <3>2. CASE ~Busy(c)
      BY <1>1, <1>2, <2>1, <3>2 DEF Flight
    <3> QED BY <3>1, <3>2
  <2>7. a.rx["cli"] \in {<< >>, k.rx["cli"]}
    BY <2>3 DEF NoConn, Both
  <2>8. Flight(c)'
    BY <1>1, <1>2, <1>3, <1>6, <2>4, <2>6, <2>7 DEF Flight, Waiting
  <2>9. Talk(c)' = IF Talk(c) = "server" THEN "client" ELSE Talk(c)
    <3>1. CASE ~Waiting(c)
      BY <1>3, <3>1 DEF Talk, Waiting
    <3>2. CASE Waiting(c)
      <4>1. k.st["cli"] # "closed" /\ conn'[c].rx["cli"] = k.rx["cli"]
        BY <1>1, <1>2, <1>6, <2>3, <3>2 DEF Joined, Waiting
      <4> QED BY <1>1, <1>3, <2>1, <2>4, <3>2, <4>1 DEF Talk, Waiting
    <3> QED BY <3>1, <3>2
  <2> QED BY <1>6, <2>3, <2>4, <2>5, <2>8, <2>9
<1> QED BY <1>7, <1>8

(* The server ends.                                                        *)
LEMMA DieKeeps ==
  ASSUME IInv, Die, UNCHANGED allClientVars
  PROVE  IInv'
<1>1. /\ alive' = FALSE /\ backlog' = << >> /\ watched' = {} /\ ready' = {}
      /\ answering' = 0 /\ peer' = [f \in Fds |-> NULL]
      /\ UNCHANGED <<program, pc, sent, cnt>>
  BY DEF Die, allClientVars, clientVars
<1>2. \A c \in Clients : conn'[c] \in Connections /\ ~ServerOpen(c)' /\ Joined(c)' /\ Flight(c)'
  BY OneDies
<1>3. backlog' \in Seq(Clients) /\ (\A d \in Clients : ~Queued(d)') /\ Once'
  BY <1>1, QueueEmpties
<1>4. Types'
  <2>1. conn' \in [Clients -> Connections]
    <3>1. conn' = [c \in Clients |-> conn'[c]]
      BY DEF Die
    <3> QED BY <1>2, <3>1
  <2>2. /\ peer' \in [Fds -> Clients \cup {NULL}] /\ answering' \in Fds \cup {0}
        /\ watched' \subseteq Fds /\ ready' \subseteq Fds \cup {Listen}
    BY <1>1
  <2>3. alive' \in BOOLEAN
    BY <1>1
  <2> QED BY <1>1, <1>3, <2>1, <2>2, <2>3, Zenon DEF IInv, Types
<1>5. Linked' /\ Flying'
  BY <1>2 DEF Linked, Flying
<1>6. \A f \in Fds : peer'[f] = NULL
  BY <1>1
<1>7. \A c \in Clients : ~Accepted(c)'
  BY <1>6, FdAssumption DEF Accepted
<1>8. Descriptors'
  BY <1>1, <1>2, <1>3, <1>6, <1>7 DEF Descriptors
<1>9. Rounds'
  BY <1>1 DEF Rounds
<1> QED BY <1>3, <1>4, <1>5, <1>8, <1>9 DEF IInv

-----------------------------------------------------------------------------

(* The types named here are those of TypeOK.                               *)
LEMMA TypesAreTypes ==
  ASSUME Types
  PROVE  TypeOK
<1>1. conn \in [Clients -> [st : [Ends -> States],
                           rx : [Ends -> Seq(Messages \cup {Welcome})]]]
  BY DEF Types, Connections, Mail
<1>2. AllClientsTypeOK
  BY Zenon DEF Types, AllClientsTypeOK
<1> QED BY <1>1, <1>2, Zenon DEF Types, TypeOK

(* The invariant holds before anything was started.                        *)
LEMMA InitHolds == Init => IInv
<1> SUFFICES ASSUME Init PROVE IInv
  OBVIOUS
<1> USE DEF Init, TcpInit, ServerInit, AllClientsInit, ClientInit, EpollClientInit
<1>1. \A c \in Clients : conn[c] = NoConn /\ pc[c] = "off"
  OBVIOUS
<1>2. backlog \in Seq(Clients) /\ Len(backlog) = 0
  BY EmptySeq
<1>3. Types
  <2>1. /\ conn \in [Clients -> Connections] /\ pc \in [Clients -> PCs]
    BY NewTyped DEF PCs
  <2>2. sent \in [Clients -> Messages]
    BY DEF Messages
  <2>3. cnt \in [EpollClients -> 0..Wrap - 1]
    BY EpollAssumption
  <2>4. /\ peer \in [Fds -> Clients \cup {NULL}]
        /\ watched \subseteq Fds /\ ready \subseteq Fds \cup {Listen}
        /\ answering \in Fds \cup {0}
    OBVIOUS
  <2> QED BY <1>2, <2>1, <2>2, <2>3, <2>4, Zenon DEF Types
<1>4. Linked /\ Flying
  <2>1. \A c \in Clients : ~Busy(c) /\ ~Queued(c)
    BY <1>2 DEF Busy, Queued
  <2> QED BY <1>1, <2>1, NewTyped DEF Linked, Joined, Flying, Flight, Waiting, NoConn, Both
<1>5. Once
  BY <1>2 DEF Once
<1>6. \A f \in Fds : peer[f] = NULL
  OBVIOUS
<1>7. Descriptors
  BY <1>1, <1>2, <1>6, FdAssumption DEF Descriptors, ServerOpen, Queued, Accepted, NoConn, Both
<1>8. Rounds
  BY DEF Rounds
<1> QED BY <1>3, <1>4, <1>5, <1>7, <1>8 DEF IInv

(* Every step keeps the invariant.                                         *)
LEMMA Inductive == IInv /\ [Next]_vars => IInv'
<1> SUFFICES ASSUME IInv, [Next]_vars PROVE IInv'
  OBVIOUS
<1>1. CASE \E c \in Clients : Arrive(c) \/ ClientStep(c) \/ ClientInterrupt(c)
  BY <1>1, ArriveKeeps, ClientKeeps
<1>2. CASE Serve
  <2>1. UNCHANGED allClientVars
    BY <1>2 DEF Serve
  <2>2. CASE Wait \/ Accept \/ AcceptFails \/ AcceptAborts
    BY <2>1, <2>2, WaitKeeps, AcceptKeeps, RefusalKeeps, DieKeeps DEF AcceptAborts
  <2>3. CASE Answer
    BY <2>1, <2>3, AnswerDeals, DealsKeeps
  <2>4. CASE \E f \in Fds : ReadMessage(f) \/ ReadEnd(f)
    BY <2>1, <2>4, MessageDeals, EndDeals, DealsKeeps
  <2> QED BY <1>2, <2>2, <2>3, <2>4 DEF Serve, ServerStep
<1>3. CASE Stop
  BY <1>3, DieKeeps DEF Stop
<1>4. CASE UNCHANGED vars
  <2>1. UNCHANGED <<conn, backlog, program, alive, peer, watched, answering, allClientVars, ready>>
    BY <1>4 DEF vars, tcpVars, serverVars
  <2>2. UNCHANGED pc
    BY <2>1 DEF allClientVars, clientVars
  <2>3. Rounds' /\ ready' \subseteq Fds \cup {Listen}
    BY <2>1, <2>2 DEF IInv, Types, Rounds, Told
  <2> QED BY <2>1, <2>3, OnlyRounds
<1> QED BY <1>1, <1>2, <1>3, <1>4 DEF Next

(* The invariant holds always.                                             *)
LEMMA Invariance == Spec => []IInv
<1> QED BY InitHolds, Inductive, PTL DEF Spec

(* TypeOK: every variable keeps its type, whatever clients, descriptors    *)
(* and queue there are (select/server.cpp:81-117, poll/server.cpp:83-113). *)
THEOREM Typing == Spec => []TypeOK
<1>1. IInv => TypeOK
  BY TypesAreTypes DEF IInv
<1> QED BY <1>1, Invariance, PTL

(* WatchesOpen: the list of descriptors is that of the open ones, and each *)
(* connection is once in the accept queue or has one descriptor, although  *)
(* a round accepts and closes while it goes over the list                  *)
(* (select/server.cpp:81-117, poll/server.cpp:83-113).                     *)
THEOREM OneEach == Spec => []WatchesOpen
<1>1. IInv => WatchesOpen
  <2> SUFFICES ASSUME IInv PROVE WatchesOpen
    OBVIOUS
  <2>1. ASSUME NEW c \in Clients
        PROVE  Cardinality({f \in Fds : peer[f] = c})
                 + Cardinality({i \in 1..Len(backlog) : backlog[i] = c})
                 = IF ServerOpen(c) THEN 1 ELSE 0
    <3> DEFINE F == {f \in Fds : peer[f] = c}
               Q == {i \in 1..Len(backlog) : backlog[i] = c}
    <3>1. /\ ServerOpen(c) <=> Queued(c) \/ Accepted(c)
          /\ Queued(c) => ~Accepted(c)
      BY DEF IInv, Descriptors
    <3>2. IF Accepted(c) THEN \E f : F = {f} ELSE F = {}
      BY FdAssumption DEF Accepted, IInv, Descriptors
    <3>3. IF Queued(c) THEN \E i : Q = {i} ELSE Q = {}
      <4>1. CASE Queued(c)
        <5>1. PICK i \in 1..Len(backlog) : backlog[i] = c
          BY <4>1 DEF Queued
        <5>2. \A j \in 1..Len(backlog) : backlog[j] = c => j = i
          BY <5>1 DEF IInv, Once
        <5>3. Q = {i}
          BY <5>1, <5>2
        <5> QED BY <4>1, <5>3
      <4>2. CASE ~Queued(c)
        BY <4>2 DEF Queued
      <4> QED BY <4>1, <4>2
    <3>4. Cardinality(F) = IF Accepted(c) THEN 1 ELSE 0
      <4> HIDE DEF F
      <4> QED BY <3>2, FS_EmptySet, FS_Singleton
    <3>5. Cardinality(Q) = IF Queued(c) THEN 1 ELSE 0
      <4> HIDE DEF Q
      <4> QED BY <3>3, FS_EmptySet, FS_Singleton
    <3> HIDE DEF F, Q
    <3>6. Cardinality(F) + Cardinality(Q) = IF ServerOpen(c) THEN 1 ELSE 0
      BY <3>1, <3>4, <3>5
    <3> QED BY <3>6 DEF F, Q
  <2>2. /\ watched = {f \in Fds : peer[f] # NULL}
        /\ ready \ {Listen} \subseteq watched
        /\ answering # 0 => answering \in ready
    BY DEF IInv, Descriptors, Rounds
  <2> QED BY <2>1, <2>2, Zenon DEF WatchesOpen
<1> QED BY <1>1, Invariance, PTL

(* ReadsWhatIsReady: no blocking call of a round waits for what it was not *)
(* promised: accept finds a connection, recv finds data or the end; but    *)
(* poll's server may wait for a client accepted in the same round          *)
(* (select/server.cpp:101-115, poll/server.cpp:94-109).                    *)
THEOREM Prompt == Spec => []ReadsWhatIsReady
<1>1. IInv => ReadsWhatIsReady
  BY DEF IInv, Rounds, Told, ReadsWhatIsReady
<1> QED BY <1>1, Invariance, PTL

(* NoLostWakeup: a client that waits can read itself, or is to be accepted,*)
(* or is being answered, or the next round asks for its descriptor and     *)
(* finds it readable (select/server.cpp:81-117, poll/server.cpp:83-113);   *)
(* and an epoll client sleeps for good only when the server closed, with   *)
(* no answer unread (epoll/client.cpp:93).                                 *)
THEOREM AskedFor == Spec => []NoLostWakeup
<1>1. IInv => SleepsAfterEnd
  BY DEF IInv, Flying, Flight, SleepsAfterEnd
<1>2. IInv => NoLostWakeup
  <2> SUFFICES ASSUME IInv, NEW c \in Clients, Waiting(c)
               PROVE  \/ Readable(conn[c], "cli")
                      \/ Queued(c)
                      \/ \E f \in watched :
                           peer[f] = c /\ (answering = f \/ Readable(conn[c], "srv"))
    BY <1>1 DEF NoLostWakeup, Queued
  <2>1. Flight(c) /\ Joined(c) /\ pc[c] # "off"
    BY DEF IInv, Flying, Linked, Waiting
  <2>2. CASE ~ServerOpen(c)
    <3>1. conn[c].st["srv"] = "closed"
      BY <2>1, <2>2 DEF Joined, Link, ServerOpen, NoConn, Both, Gone
    <3> QED BY <2>1, <3>1 DEF Joined, Link, NoConn, Both, Gone, Readable
  <2>3. CASE ServerOpen(c) /\ ~Queued(c)
    <3>1. PICK f \in Fds : peer[f] = c
      BY <2>3 DEF IInv, Descriptors, Accepted
    <3>2. f \in watched
      BY <3>1, FdAssumption DEF IInv, Descriptors
    <3>3. CASE Busy(c)
      <4>1. answering \in Fds /\ peer[answering] = c
        BY <3>3 DEF Busy, IInv, Types
      <4>2. answering = f
        BY <3>1, <4>1, FdAssumption DEF IInv, Descriptors
      <4> QED BY <3>1, <3>2, <4>2
    <3>4. CASE ~Busy(c)
      <4>1. \/ conn[c].rx["srv"] = <<sent[c]>>
            \/ conn[c].rx["cli"] = <<Welcome>>
        BY <2>1, <2>3, <3>4 DEF Flight
      <4>2. \A x : <<x>> # << >>
        OBVIOUS
      <4>3. Readable(conn[c], "srv") \/ Readable(conn[c], "cli")
        BY <4>1, <4>2, Zenon DEF Readable
      <4> QED BY <3>1, <3>2, <4>3
    <3> QED BY <3>3, <3>4
  <2> QED BY <2>2, <2>3
<1> QED BY <1>2, Invariance, PTL

-----------------------------------------------------------------------------
(* The service is the conversation of each client with its welcome         *)

(* What the server holds of a client's is what it is about to answer.      *)
LEMMA HeldIs ==
  ASSUME IInv, NEW c \in Clients
  PROVE  Held(c) = IF Busy(c) THEN <<sent[c]>> ELSE << >>
<1> QED BY DEF Held, Busy

Word(c) == IF Talk(c) = "client" THEN << >> ELSE UnderWay(c)

WordsAreSent ==
  \A c \in Clients :
    Word(c) = IF Talk(c) = "client" THEN << >>
              ELSE IF Talk(c) = "server" THEN <<sent[c]>> ELSE <<Welcome>>

(* The word of the conversation is the client's last message.              *)
LEMMA WordIs == IInv => WordsAreSent
<1> SUFFICES ASSUME IInv, NEW c \in Clients
             PROVE  Word(c) = IF Talk(c) = "client" THEN << >>
                              ELSE IF Talk(c) = "server" THEN <<sent[c]>> ELSE <<Welcome>>
  BY DEF WordsAreSent
<1>1. Flight(c) /\ Link(conn[c])
  BY DEF IInv, Flying, Linked, Joined
<1>2. \A s \in Seq(Mail) : << >> \o s = s /\ s \o << >> = s
  BY ConcatEmptySeq
<1>3. << >> \in Seq(Mail) /\ <<sent[c]>> \in Seq(Mail) /\ <<Welcome>> \in Seq(Mail)
  <2>1. sent[c] \in Mail /\ Welcome \in Mail
    BY DEF IInv, Types, Mail
  <2> QED BY <2>1, EmptySeq
<1>4. <<Welcome>> # << >>
  OBVIOUS
<1>5. CASE Talk(c) = "client"
  BY <1>5 DEF Word
<1>6. CASE Talk(c) = "server"
  <2>1. Waiting(c) /\ conn[c].rx["cli"] = << >> /\ ServerOpen(c)
    BY <1>6 DEF Talk
  <2>2. CASE Busy(c)
    <3>1. Held(c) = <<sent[c]>> /\ conn[c].rx["srv"] = << >>
      BY <1>1, <2>2, HeldIs DEF Flight
    <3> QED BY <1>2, <1>3, <1>6, <2>1, <3>1 DEF Word, UnderWay
  <2>3. CASE ~Busy(c)
    <3>1. Held(c) = << >> /\ conn[c].rx["srv"] = <<sent[c]>>
      BY <1>1, <1>4, <2>1, <2>3, HeldIs DEF Flight
    <3> QED BY <1>2, <1>3, <1>6, <2>1, <3>1 DEF Word, UnderWay
  <2> QED BY <2>2, <2>3
<1>7. CASE Talk(c) \notin {"client", "server"}
  <2>1. Waiting(c) /\ conn[c].rx["cli"] # << >>
    BY <1>7 DEF Talk
  <2>2. ~Busy(c) /\ Held(c) = << >>
    BY <2>1, NotBusy, HeldIs
  <2>3. conn[c].rx["srv"] = << >> /\ conn[c].rx["cli"] = <<Welcome>>
    <3>1. CASE ServerOpen(c)
      BY <1>1, <2>1, <2>2, <3>1 DEF Flight
    <3>2. CASE ~ServerOpen(c)
      <4>1. conn[c].rx["srv"] = << >>
        BY <1>1, <3>2 DEF Link, ServerOpen, NoConn, Both, Gone
      <4> QED BY <1>1, <2>1, <3>2, <4>1 DEF Flight
    <3> QED BY <3>1, <3>2
  <2> QED BY <1>2, <1>3, <1>7, <2>2, <2>3 DEF Word, UnderWay
<1> QED BY <1>5, <1>6, <1>7

(* The same for the state after a step.                                    *)
LEMMA WordWillBe == IInv' => WordsAreSent'
  BY WordIs, PTL

Quiet(c) == Talk(c)' = Talk(c) /\ Word(c)' = Word(c)

(* When neither the turn nor the word changes, nothing is heard of the     *)
(* client.                                                                 *)
LEMMA QuietIf ==
  ASSUME IInv, IInv', NEW c \in Clients, Talk(c)' = Talk(c),
         sent'[c] = sent[c] \/ Talk(c) = "client"
  PROVE  Quiet(c)
<1>1. Word(c) = IF Talk(c) = "client" THEN << >>
                ELSE IF Talk(c) = "server" THEN <<sent[c]>> ELSE <<Welcome>>
  BY WordIs DEF WordsAreSent
<1>2. Word(c)' = IF Talk(c)' = "client" THEN << >>
                 ELSE IF Talk(c)' = "server" THEN <<sent'[c]>> ELSE <<Welcome>>
  BY WordWillBe DEF WordsAreSent, Welcome
<1> QED BY <1>1, <1>2 DEF Quiet


(* A step that leaves the talk of every client but c as it was.            *)
LEMMA OthersQuiet ==
  ASSUME IInv, IInv', NEW c \in Clients,
         \A d \in Clients \ {c} : conn'[d] = conn[d] /\ pc'[d] = pc[d] /\ sent'[d] = sent[d]
  PROVE  \A d \in Clients \ {c} : Quiet(d)
<1> SUFFICES ASSUME NEW d \in Clients \ {c} PROVE Quiet(d)
  OBVIOUS
<1>1. Talk(d)' = Talk(d)
  BY DEF Talk, Waiting, ServerOpen
<1> QED BY <1>1, QuietIf

(* A step nothing is heard of is a stutter of the conversations.           *)
LEMMA StaysQuiet ==
  ASSUME \A d \in Clients : Quiet(d)
  PROVE  UNCHANGED Service!vars
<1>1. /\ [d \in Clients |-> Talk(d)]' = [d \in Clients |-> Talk(d)]
      /\ [d \in Clients |-> Word(d)]' = [d \in Clients |-> Word(d)]
  BY DEF Quiet
<1> QED BY <1>1 DEF Service!vars, Word

(* Steps of a client are steps of its conversation.                        *)
LEMMA ClientTalks ==
  ASSUME IInv, IInv', NEW c \in Clients, ClientStep(c) \/ ClientInterrupt(c)
  PROVE  Service!Next \/ UNCHANGED Service!vars
<1> DEFINE turn == [d \in Clients |-> Talk(d)]
           word == [d \in Clients |-> IF Talk(d) = "client" THEN << >> ELSE UnderWay(d)]
<1>1. /\ UNCHANGED <<serverVars, backlog>>
      /\ \/ \E msg \in Own(c) : \E next \in {"first", "wait"} : Says(c, msg, next)
         \/ Receive(c)
         \/ \E next \in {"asleep", pc[c]} : Sleeps(c, next)
         \/ pc[c] # "off" /\ Exit(c)
  BY ClientSteps DEF IInv
<1>2. Keeps(c)
  BY <1>1, SaysResult, ReceiveResult, SleepsResult, ExitResult DEF Own
<1>3. \A d \in Clients \ {c} : Quiet(d)
  BY <1>2, OthersQuiet DEF Keeps
<1>4. /\ turn' = [turn EXCEPT ![c] = Talk(c)']
      /\ word' = [word EXCEPT ![c] = Word(c)']
  BY <1>3 DEF Quiet, Word
<1>5. /\ Talk(c) = "client" => Word(c) = << >>
      /\ Talk(c)' = "client" => Word(c)' = << >>
      /\ Talk(c)' = "server" => Word(c)' = <<sent'[c]>>
  BY WordIs, WordWillBe DEF WordsAreSent
<1>6. CASE \E msg \in Own(c) : \E next \in {"first", "wait"} : Says(c, msg, next)
  <2>1. PICK msg \in Own(c), next \in {"first", "wait"} : Says(c, msg, next)
    BY <1>6
  <2>2. /\ sent'[c] = msg
        /\ Talk(c) = "client" /\ Talk(c)' = IF ServerOpen(c) THEN "server" ELSE "client"
    BY <1>1, <2>1, SaysResult DEF Own
  <2>3. CASE ServerOpen(c)
    <3>1. PICK w \in Texts : msg = <<c>> \o w
      BY DEF Own
    <3>2. /\ turn' = [turn EXCEPT ![c] = "server"]
          /\ word' = [word EXCEPT ![c] = << <<c>> \o w >>]
          /\ turn[c] = "client"
      BY <1>4, <1>5, <2>2, <2>3, <3>1
    <3>3. Service!Say(c)
      BY <3>2 DEF Service!Say, Texts
    <3> QED BY <3>3 DEF Service!Next
  <2>4. CASE ~ServerOpen(c)
    <3>1. Quiet(c)
      BY <1>5, <2>2, <2>4 DEF Quiet
    <3> QED BY <1>3, <3>1, StaysQuiet
  <2> QED BY <2>3, <2>4
<1>7. CASE Receive(c)
  <2>1. Talk(c) = "answer" /\ Talk(c)' = "client"
    BY <1>1, <1>7, ReceiveResult
  <2>2. /\ turn' = [turn EXCEPT ![c] = "client"]
        /\ word' = [word EXCEPT ![c] = << >>]
        /\ turn[c] = "answer"
    BY <1>4, <1>5, <2>1
  <2>3. Service!Hear(c)
    BY <2>2 DEF Service!Hear
  <2> QED BY <2>3 DEF Service!Next
<1>8. CASE \E next \in {"asleep", pc[c]} : Sleeps(c, next)
  <2>1. Talk(c) = "client" /\ Talk(c)' = "client"
    BY <1>1, <1>8, SleepsResult
  <2>2. Quiet(c)
    BY <1>5, <2>1 DEF Quiet
  <2> QED BY <1>3, <2>2, StaysQuiet
<1>9. CASE pc[c] # "off" /\ Exit(c)
  <2>1. Talk(c)' = "client"
    BY <1>1, <1>9, ExitResult
  <2>2. turn' = [turn EXCEPT ![c] = "client"] /\ word' = [word EXCEPT ![c] = << >>]
    BY <1>4, <1>5, <2>1
  <2>3. Service!Leave(c)
    BY <2>2 DEF Service!Leave
  <2> QED BY <2>3 DEF Service!Next
<1> QED BY <1>1, <1>6, <1>7, <1>8, <1>9

(* A server that ends ends all the conversations it is in.                 *)
LEMMA DieTalks ==
  ASSUME IInv, IInv', Die, UNCHANGED allClientVars
  PROVE  Service!Next
<1> DEFINE turn == [d \in Clients |-> Talk(d)]
           word == [d \in Clients |-> IF Talk(d) = "client" THEN << >> ELSE UnderWay(d)]
<1>1. UNCHANGED <<pc, sent>>
  BY DEF allClientVars, clientVars
<1>2. ASSUME NEW d \in Clients
      PROVE  /\ Talk(d)' = IF Talk(d) = "server" THEN "client" ELSE Talk(d)
             /\ Word(d)' = IF Talk(d) = "server" THEN << >> ELSE Word(d)
  <2>1. Talk(d)' = IF Talk(d) = "server" THEN "client" ELSE Talk(d)
    BY OneDies
  <2> QED BY <1>1, <2>1, WordIs, WordWillBe DEF WordsAreSent, Welcome
<1>3. /\ turn' = [d \in Clients |-> IF turn[d] = "server" THEN "client" ELSE turn[d]]
      /\ word' = [d \in Clients |-> IF turn[d] = "server" THEN << >> ELSE word[d]]
  BY <1>2 DEF Word
<1>4. Service!ServerLeaves
  BY <1>3 DEF Service!ServerLeaves
<1> QED BY <1>4 DEF Service!Next

(* Steps of the server are steps of one conversation.                      *)
LEMMA ServerTalks ==
  ASSUME IInv, IInv', Serve
  PROVE  Service!Next \/ UNCHANGED Service!vars
<1> DEFINE turn == [d \in Clients |-> Talk(d)]
           word == [d \in Clients |-> IF Talk(d) = "client" THEN << >> ELSE UnderWay(d)]
<1>1. UNCHANGED <<pc, sent>> /\ UNCHANGED allClientVars
  BY DEF Serve, allClientVars, clientVars
<1>2. CASE Wait \/ Accept \/ AcceptFails
  <2>1. conn' = conn
    BY <1>2 DEF Wait, Accept, AcceptFails
  <2>2. ASSUME NEW d \in Clients PROVE Quiet(d)
    <3>1. Talk(d)' = Talk(d)
      BY <1>1, <2>1 DEF Talk, Waiting, ServerOpen
    <3> QED BY <1>1, <3>1, QuietIf
  <2> QED BY <2>2, StaysQuiet
<1>3. CASE Answer \/ \E f \in Fds : ReadMessage(f) \/ ReadEnd(f)
  <2>1. PICK f \in Fds, c \in Clients :
          Deals(f, c) /\ (Talk(c)' = Talk(c) \/ (Talk(c) = "server" /\ Talk(c)' = "answer"))
    BY <1>1, <1>3, MessageDeals, EndDeals, AnswerDeals
  <2>2. \A d \in Clients \ {c} : Quiet(d)
    <3>1. \A d \in Clients \ {c} : conn'[d] = conn[d]
      BY <2>1 DEF Deals
    <3> QED BY <1>1, <3>1, OthersQuiet
  <2>3. CASE Talk(c)' = Talk(c)
    <3>1. Quiet(c)
      BY <1>1, <2>3, QuietIf
    <3> QED BY <2>2, <3>1, StaysQuiet
  <2>4. CASE Talk(c) = "server" /\ Talk(c)' = "answer"
    <3>1. Word(c)' = <<Welcome>>
      BY <2>4, WordWillBe DEF WordsAreSent, Welcome
    <3>2. /\ turn' = [turn EXCEPT ![c] = "answer"]
          /\ word' = [word EXCEPT ![c] = Greeting(word[c])]
          /\ turn[c] = "server"
      BY <2>2, <2>4, <3>1 DEF Quiet, Word, Greeting
    <3>3. Service!Answer(c)
      BY <3>2 DEF Service!Answer, Greeting
    <3> QED BY <3>3 DEF Service!Next
  <2> QED BY <2>1, <2>3, <2>4
<1>4. CASE AcceptAborts
  BY <1>1, <1>4, DieTalks DEF AcceptAborts
<1> QED BY <1>2, <1>3, <1>4 DEF Serve, ServerStep


(* A connection made is not heard yet.                                     *)
LEMMA ArriveTalks ==
  ASSUME IInv, IInv', NEW c \in Clients, Arrive(c)
  PROVE  UNCHANGED Service!vars
<1>1. /\ pc[c] = "off" /\ conn' = [conn EXCEPT ![c] = NewConn]
      /\ pc' = [pc EXCEPT ![c] = "hello"] /\ sent' = [sent EXCEPT ![c] = Hello(c)]
  BY DEF Arrive, OpenAny, OpenEpoll, Open, Connect
<1>2. \A d \in Clients \ {c} : conn'[d] = conn[d] /\ pc'[d] = pc[d] /\ sent'[d] = sent[d]
  BY <1>1 DEF IInv, Types
<1>3. Talk(c) = "client" /\ Talk(c)' = "client"
  BY <1>1 DEF Talk, Waiting, IInv, Types
<1> QED BY <1>2, <1>3, OthersQuiet, QuietIf, StaysQuiet

(* ImplementsConversations: every client and the server talk in turns, the *)
(* answer to whatever it says is the welcome, and a client or the server   *)
(* may leave at any moment; descriptors closed and opened in one round     *)
(* never mix two conversations (select/server.cpp:81-117,                  *)
(* poll/server.cpp:83-113).                                                *)
THEOREM Greeted == Spec => ImplementsConversations
<1>1. Init => Service!Init
  <2> SUFFICES ASSUME Init PROVE Service!Init
    OBVIOUS
  <2>1. \A c \in Clients : Talk(c) = "client"
    BY DEF Init, AllClientsInit, ClientInit, Talk, Waiting
  <2> QED BY <2>1 DEF Service!Init
<1>2. IInv /\ IInv' /\ [Next]_vars => [Service!Next]_(Service!vars)
  <2> SUFFICES ASSUME IInv, IInv', [Next]_vars
               PROVE  Service!Next \/ UNCHANGED Service!vars
    OBVIOUS
  <2>1. CASE \E c \in Clients : Arrive(c) \/ ClientStep(c) \/ ClientInterrupt(c)
    BY <2>1, ArriveTalks, ClientTalks
  <2>2. CASE Serve
    BY <2>2, ServerTalks
  <2>3. CASE Stop
    BY <2>3, DieTalks DEF Stop
  <2>4. CASE UNCHANGED vars
    <3>1. UNCHANGED <<conn, pc, sent>>
      BY <2>4 DEF vars, tcpVars, allClientVars, clientVars
    <3>2. ASSUME NEW d \in Clients PROVE Quiet(d)
      <4>1. Talk(d)' = Talk(d)
        BY <3>1 DEF Talk, Waiting, ServerOpen
      <4> QED BY <3>1, <4>1, QuietIf
    <3> QED BY <3>2, StaysQuiet
  <2> QED BY <2>1, <2>2, <2>3, <2>4 DEF Next
<1> QED BY <1>1, <1>2, Invariance, PTL DEF Spec, ImplementsConversations, Service!Spec
=============================================================================
