--------------------------- MODULE ThreadedProofs ---------------------------
(***************************************************************************)
(* What holds of the threaded server and of 01_blockIO.cpp for any number  *)
(* of clients, descriptors and pushes: types, that the reader misses no    *)
(* connection, that the connection closed is the one read from, and where  *)
(* alone the reader can block.                                             *)
(***************************************************************************)
EXTENDS ThreadedService, SequenceTheorems, WellFoundedInduction, TLAPS

Messages    == {<< >>, <<Hello>>}
Connections == [st : [Ends -> States], rx : [Ends -> Messages]]

(* TypeOK with a name for the type of a connection. *)
Types ==
  /\ conn \in [Clients -> Connections]
  /\ backlog \in Seq(Clients)
  /\ program \in {"thread", "block"}
  /\ peer \in [Fds -> Clients \cup {NULL}]
  /\ nonblock \subseteq Fds
  /\ fdList \in Seq(Numbers)
  /\ main \in {"accept", "fcntl", "push", "pushing", "recv", "close"}
  /\ got \in Numbers
  /\ reader \in {"range", "next", "recv", "asleep", "close", "lost", "crashed"}
  /\ range \in Seq(Numbers)
  /\ astray \in BOOLEAN
  /\ fd \in Numbers
  /\ from \in Clients \cup {NULL}

(* The second thread runs in "thread" only, and main reads in "block" only. *)
Halves ==
  /\ program = "block" => reader = "range"
  /\ main \in {"push", "pushing"} => program = "thread"
  /\ main \in {"recv", "close"} => program = "block"

(* What is about to be closed is the descriptor of a client. *)
Reading ==
  /\ reader = "close" => fd \in Fds /\ peer[fd] = from /\ from \in Clients
  /\ main = "close" => got \in Fds /\ peer[got] = from /\ from \in Clients

(* Only main between accept and fcntl has a connection that blocks, a pass *)
(* that has not gone astray meets numbers of the list only, and nobody     *)
(* closes the connection the reader sleeps on.                             *)
InList(n) == \E i \in 1..Len(fdList) : fdList[i] = n

OneBlocks ==
  program = "thread" => \A f \in Fds :
    peer[f] # NULL /\ f \notin nonblock => main = "fcntl" /\ got = f

InRange == ~astray => \A i \in 1..Len(range) : InList(range[i])

MetInList == ~astray /\ reader = "recv" => InList(fd)

SleepsOnOpen == reader = "asleep" => Open

Blocking == OneBlocks /\ InRange /\ MetInList /\ SleepsOnOpen

IInv == Types /\ Halves /\ Reading /\ Listed /\ Blocking

-----------------------------------------------------------------------------

(* A set of descriptors that is not empty has a lowest one. *)
LEMMA LowestIsFree ==
  ASSUME FreeFds # {}
  PROVE  LowestFree \in Fds /\ peer[LowestFree] = NULL
<1> DEFINE R == {ss \in Nat \X Nat : ss[1] < ss[2]}
<1>1. IsWellFoundedOn(R, Nat)
  BY NatLessThanWellFounded, Zenon DEF OpToRel
<1>2. \A x, y \in Nat : x < y => <<x, y>> \in R
  BY SMT
<1>3. FreeFds \subseteq Nat /\ FreeFds \subseteq Fds
  BY ThreadedAssumption, SMT DEF FreeFds, Fds
<1> HIDE DEF R
<1>4. PICK f \in FreeFds : \A g \in FreeFds : ~(<<g, f>> \in R)
  BY <1>1, <1>3, WFMin, Zenon
<1>5. \A g \in FreeFds : f <= g
  <2>1. \A g \in FreeFds : ~(g < f)
    BY <1>2, <1>3, <1>4, Zenon
  <2> QED BY <1>3, <2>1, SMT
<1>6. LowestFree \in FreeFds
  BY <1>5, Zenon DEF LowestFree
<1> QED BY <1>3, <1>6 DEF FreeFds

(* The kernel's side of a connection: each call leaves it well typed. *)
LEMMA CallsTyped ==
  ASSUME NEW k \in Connections, NEW e \in Ends
  PROVE  /\ AfterRecv(k, e) \in Connections
         /\ AfterClose(k, e) \in Connections
         /\ k.rx[Other(e)] = << >> => AfterSend(k, e, <<Hello>>) \in Connections
<1>1. AfterRecv(k, e) \in Connections
  BY DEF AfterRecv, Connections, Ends, States, Messages
<1>2. NoConn \in Connections
  BY DEF NoConn, Both, Connections, Ends, States, Messages
<1>3. AfterClose(k, e) \in Connections
  BY <1>2 DEF AfterClose, Connections, Other, Ends, States, Messages
<1>4. ASSUME k.rx[Other(e)] = << >>
      PROVE  AfterSend(k, e, <<Hello>>) \in Connections
  <2>1. << >> \o <<Hello>> = <<Hello>>
    OBVIOUS
  <2> QED BY <1>4, <2>1 DEF AfterSend, Connections, Other, Ends, States, Messages
<1> QED BY <1>1, <1>3, <1>4

(* A change of one connection by such a call keeps the type of conn, also  *)
(* when the descriptor was no connection's (then nothing changes).         *)
LEMMA OneConn ==
  ASSUME conn \in [Clients -> Connections], NEW c, NEW e \in Ends
  PROVE  /\ [conn EXCEPT ![c] = AfterRecv(@, e)] \in [Clients -> Connections]
         /\ [conn EXCEPT ![c] = AfterClose(@, e)] \in [Clients -> Connections]
<1>1. \A k \in Connections :
        AfterRecv(k, e) \in Connections /\ AfterClose(k, e) \in Connections
  BY CallsTyped
<1> QED BY <1>1, Zenon

(* The types named here are those of TypeOK.                               *)
LEMMA TypesAreTypes == TypeOK <=> Types
BY Zenon DEF TypeOK, Types, Connections, Messages

(* The invariant holds before anything was started.                        *)
LEMMA InitHolds == Init => IInv
<1> SUFFICES ASSUME Init PROVE IInv
  OBVIOUS
<1> USE DEF Init, TcpInit, ServerInit
<1>1. NoConn \in Connections
  BY DEF NoConn, Both, Connections, Ends, States, Messages
<1>2. Types
  BY <1>1, EmptySeq DEF Types, Numbers
<1>3. Blocking
  BY EmptySeq DEF Blocking, OneBlocks, InRange, MetInList, SleepsOnOpen
<1> QED BY <1>2, <1>3 DEF IInv, Halves, Reading, Listed

-----------------------------------------------------------------------------
(* Types *)

(* The types, steps of a client.                                           *)
LEMMA ClientTyped ==
  ASSUME Types, NEW c \in Clients, Arrive(c) \/ Say(c) \/ Leave(c)
  PROVE  Types'
<1> USE DEF Types, serverVars, listVars, mainVars, readerVars
<1>1. conn[c] \in Connections
  BY Zenon
<1>2. CASE Arrive(c)
  <2>1. NewConn \in Connections
    BY DEF NewConn, Both, Connections, Ends, States, Messages
  <2>2. backlog' \in Seq(Clients)
    BY <1>2, AppendProperties DEF Arrive, Connect
  <2> QED BY <1>2, <2>1, <2>2 DEF Arrive, Connect
<1>3. CASE Say(c)
  <2>1. "cli" \in Ends /\ Other("cli") = "srv"
    BY DEF Ends, Other
  <2>2. AfterSend(conn[c], "cli", <<Hello>>) \in Connections
    BY <1>1, <1>3, <2>1, CallsTyped DEF Say
  <2> QED BY <1>3, <2>2 DEF Say
<1>4. CASE Leave(c)
  <2>1. "cli" \in Ends
    BY DEF Ends
  <2>2. AfterClose(conn[c], "cli") \in Connections
    BY <1>1, <2>1, CallsTyped
  <2> QED BY <1>4, <2>2 DEF Leave
<1> QED BY <1>2, <1>3, <1>4

(* The types, steps of the thread that accepts.                            *)
LEMMA MainTyped ==
  ASSUME Types, MainStep
  PROVE  Types'
<1> USE DEF Types, tcpVars, listVars, mainVars, readerVars, MainGoes
<1>0. "srv" \in Ends
  BY DEF Ends
<1>1. CASE Accept
  <2>1. Head(backlog) \in Clients /\ Tail(backlog) \in Seq(Clients)
    BY <1>1, HeadTailProperties DEF Accept
  <2>2. LowestFree \in Fds
    BY <1>1, LowestIsFree DEF Accept
  <2> QED BY <1>1, <2>1, <2>2 DEF Accept, Numbers
<1>2. CASE AcceptFails
  BY <1>2 DEF AcceptFails, Numbers
<1>3. CASE Fcntl
  BY <1>3 DEF Fcntl
<1>4. CASE PushBegin
  BY <1>4 DEF PushBegin
<1>5. CASE PushEnd
  <2>1. fdList' \in Seq(Numbers)
    BY <1>5, AppendProperties DEF PushEnd
  <2>2. astray' \in BOOLEAN
    BY <1>5, Zenon DEF PushEnd
  <2> QED BY <1>5, <2>1, <2>2 DEF PushEnd
<1>6. CASE RecvOnce
  <2>1. conn' \in [Clients -> Connections] /\ from' \in Clients
    BY <1>0, <1>6, OneConn DEF RecvOnce, OpenAt
  <2> QED BY <1>6, <2>1 DEF RecvOnce
<1>7. CASE RecvOnceNothing
  <2>1. conn' \in [Clients -> Connections]
    BY <1>0, <1>7, OneConn DEF RecvOnceNothing
  <2> QED BY <1>7, <2>1 DEF RecvOnceNothing
<1>8. CASE CloseOnce
  <2>1. conn' \in [Clients -> Connections]
    BY <1>0, <1>8, OneConn DEF CloseOnce, Closes
  <2> QED BY <1>8, <2>1 DEF CloseOnce, Closes
<1> QED BY <1>1, <1>2, <1>3, <1>4, <1>5, <1>6, <1>7, <1>8 DEF MainStep

(* The types, steps of the thread that reads.                              *)
LEMMA ReaderTyped ==
  ASSUME Types, ReaderStep
  PROVE  Types'
<1> USE DEF Types, tcpVars, listVars, mainVars, readerVars, ReaderGoes
<1>0. "srv" \in Ends
  BY DEF Ends
<1>1. CASE Pass
  <2>1. astray' \in BOOLEAN
    BY <1>1, Zenon DEF Pass
  <2> QED BY <1>1, <2>1 DEF Pass
<1>2. CASE Lost
  BY <1>2 DEF Lost
<1>3. CASE Entry
  <2>1. fd' \in Numbers /\ range' \in Seq(Numbers)
    <3>1. range \in Seq(Numbers)
      OBVIOUS
    <3>2. CASE range # << >> /\ fd' = Head(range) /\ range' = Tail(range)
      <4>1. Head(range) \in Numbers /\ Tail(range) \in Seq(Numbers)
        BY <3>1, <3>2, HeadTailProperties
      <4> QED BY <3>2, <4>1
    <3>3. CASE fd' \in Numbers /\ range' = range
      BY <3>1, <3>3
    <3> QED BY <1>3, <3>2, <3>3 DEF Entry
  <2> QED BY <1>3, <2>1 DEF Entry
<1>4. CASE EndOfPass
  BY <1>4, EmptySeq DEF EndOfPass
<1>5. CASE Crash
  <2>1. \A c \in Clients : AfterClose(conn[c], "srv") \in Connections
    BY <1>0, CallsTyped
  <2>2. conn' \in [Clients -> Connections]
    BY <1>5, <2>1 DEF Crash
  <2> QED BY <1>5, <2>2, EmptySeq DEF Crash
<1>6. CASE Recv
  <2>1. conn' \in [Clients -> Connections] /\ from' \in Clients
    BY <1>0, <1>6, OneConn DEF Recv, Open, OpenAt
  <2> QED BY <1>6, <2>1 DEF Recv, RecvReturns
<1>7. CASE RecvNothing
  <2>1. conn' \in [Clients -> Connections]
    BY <1>0, <1>7, OneConn DEF RecvNothing
  <2> QED BY <1>7, <2>1 DEF RecvNothing, RecvReturns
<1>8. CASE Close
  <2>1. conn' \in [Clients -> Connections]
    BY <1>0, <1>8, OneConn DEF Close, Closes
  <2> QED BY <1>8, <2>1 DEF Close, Closes
<1>9. CASE FallAsleep
  BY <1>9 DEF FallAsleep
<1> QED BY <1>1, <1>2, <1>3, <1>4, <1>5, <1>6, <1>7, <1>8, <1>9 DEF ReaderStep

(* Every step keeps the types.                                             *)
LEMMA NextTyped == Types /\ [Next]_vars => Types'
<1> SUFFICES ASSUME Types, [Next]_vars PROVE Types'
  OBVIOUS
<1>1. CASE UNCHANGED vars
  BY <1>1 DEF vars, tcpVars, serverVars, listVars, mainVars, readerVars, Types
<1> QED BY <1>1, ClientTyped, MainTyped, ReaderTyped DEF Next

-----------------------------------------------------------------------------
(* Safety *)

(* Each program keeps to its own steps.                                    *)
LEMMA HalvesKept == Types /\ Halves /\ [Next]_vars => Halves'
<1> SUFFICES ASSUME Types, Halves, [Next]_vars PROVE Halves'
  OBVIOUS
<1> USE DEF Types, Halves, serverVars, mainVars, readerVars
<1>1. CASE \E c \in Clients : Arrive(c) \/ Say(c) \/ Leave(c)
  BY <1>1 DEF Arrive, Say, Leave
<1>2. CASE MainStep
  BY <1>2 DEF MainStep, MainGoes, Accept, AcceptFails, Fcntl, PushBegin, PushEnd,
              RecvOnce, RecvOnceNothing, CloseOnce
<1>3. CASE ReaderStep
  BY <1>3 DEF ReaderStep, ReaderGoes, Pass, Lost, Entry, EndOfPass, Crash,
              FallAsleep, RecvReturns, Recv, RecvNothing, Close
<1>4. CASE UNCHANGED vars
  BY <1>4 DEF vars
<1> QED BY <1>1, <1>2, <1>3, <1>4 DEF Next

(* While one of the two is between recv and close, nobody else closes that *)
(* descriptor, and accept gives away only numbers that are free.           *)
LEMMA ReadingKept == IInv /\ [Next]_vars => Reading'
<1> SUFFICES ASSUME IInv, [Next]_vars PROVE Reading'
  OBVIOUS
<1> USE ThreadedAssumption DEF IInv, Types, Halves, Reading, serverVars, mainVars, readerVars
<1>1. CASE \E c \in Clients : Arrive(c) \/ Say(c) \/ Leave(c)
  BY <1>1 DEF Arrive, Say, Leave
<1>2. CASE Accept
  BY <1>2, LowestIsFree DEF Accept, MainGoes
<1>3. CASE AcceptFails \/ Fcntl \/ PushBegin \/ PushEnd \/ RecvOnceNothing
  BY <1>3 DEF AcceptFails, Fcntl, PushBegin, PushEnd, RecvOnceNothing, MainGoes
<1>4. CASE RecvOnce
  BY <1>4 DEF RecvOnce, MainGoes, OpenAt
<1>5. CASE CloseOnce
  BY <1>5 DEF CloseOnce, MainGoes
<1>6. CASE Pass \/ Lost \/ Entry \/ EndOfPass \/ RecvNothing
  BY <1>6 DEF Pass, Lost, Entry, EndOfPass, RecvNothing, RecvReturns, ReaderGoes
<1>7. CASE Crash
  BY <1>7 DEF Crash, ReaderGoes
<1>8. CASE Recv
  BY <1>8 DEF Recv, RecvReturns, ReaderGoes, Open, OpenAt
<1>9. CASE Close
  BY <1>9 DEF Close, ReaderGoes
<1>10. CASE UNCHANGED vars
  BY <1>10 DEF vars
<1>11. CASE FallAsleep
  BY <1>11 DEF FallAsleep, ReaderGoes
<1> QED BY <1>1, <1>2, <1>3, <1>4, <1>5, <1>6, <1>7, <1>8, <1>9, <1>10, <1>11
        DEF Next, MainStep, ReaderStep

(* Every step keeps the open connections listed, or about to be.           *)
LEMMA ListedKept == IInv /\ [Next]_vars => Listed'
<1> SUFFICES ASSUME IInv, [Next]_vars, program' = "thread", NEW f \in Fds, peer'[f] # NULL
             PROVE  \/ \E i \in 1..Len(fdList') : fdList'[i] = f
                    \/ f = got' /\ main' # "accept"
  BY DEF Listed
<1>0. /\ program = "thread"
      /\ peer[f] # NULL => \/ \E i \in 1..Len(fdList) : fdList[i] = f
                           \/ f = got /\ main # "accept"
  <2>1. program' = program
    BY DEF Next, MainStep, ReaderStep, MainGoes, ReaderGoes, Arrive, Say, Leave,
           Accept, AcceptFails, Fcntl, PushBegin, PushEnd, RecvOnce,
           RecvOnceNothing, CloseOnce, Pass, Lost, Entry, EndOfPass, Crash,
           FallAsleep, RecvReturns, Recv, RecvNothing, Close, vars, serverVars
  <2> QED BY <2>1 DEF IInv, Listed
<1> USE DEF IInv, Types, Halves, serverVars, mainVars, readerVars, listVars
<1>1. CASE \E c \in Clients : Arrive(c) \/ Say(c) \/ Leave(c)
  BY <1>0, <1>1 DEF Arrive, Say, Leave
<1>2. CASE Accept
  BY <1>0, <1>2, LowestIsFree DEF Accept, MainGoes
<1>3. CASE AcceptFails \/ Fcntl \/ PushBegin
  BY <1>0, <1>3 DEF AcceptFails, Fcntl, PushBegin, MainGoes
<1>4. CASE PushEnd
  <2>1. /\ Len(fdList) \in Nat /\ Len(fdList') = Len(fdList) + 1
        /\ \A i \in 1..Len(fdList) : fdList'[i] = fdList[i]
        /\ fdList'[Len(fdList) + 1] = got
    BY <1>4, AppendProperties, LenProperties DEF PushEnd
  <2>2. peer[f] # NULL
    BY <1>4 DEF PushEnd
  <2>3. CASE f = got
    BY <2>1, <2>3
  <2>4. CASE \E i \in 1..Len(fdList) : fdList[i] = f
    BY <2>1, <2>4
  <2> QED BY <1>0, <2>2, <2>3, <2>4
<1>5. CASE RecvOnce \/ RecvOnceNothing \/ CloseOnce
  BY <1>0, <1>5 DEF RecvOnce, RecvOnceNothing, CloseOnce, MainGoes
<1>6. CASE Pass \/ Lost \/ Entry \/ EndOfPass \/ FallAsleep \/ Recv \/ RecvNothing
  BY <1>0, <1>6
     DEF Pass, Lost, Entry, EndOfPass, FallAsleep, Recv, RecvNothing, RecvReturns, ReaderGoes
<1>7. CASE Crash
  BY <1>7 DEF Crash
<1>8. CASE Close
  BY <1>0, <1>8 DEF Close, Closes, ReaderGoes
<1>9. CASE UNCHANGED vars
  BY <1>0, <1>9 DEF vars
<1> QED BY <1>1, <1>2, <1>3, <1>4, <1>5, <1>6, <1>7, <1>8, <1>9
        DEF Next, MainStep, ReaderStep

(* What is in the list stays there: entries are never removed.             *)
LEMMA InListStays ==
  ASSUME Types, [Next]_vars, NEW n, InList(n) PROVE InList(n)'
<1>1. CASE fdList' = fdList
  BY <1>1 DEF InList
<1>2. CASE PushEnd
  <2>1. /\ Len(fdList) \in Nat /\ Len(fdList') = Len(fdList) + 1
        /\ \A i \in 1..Len(fdList) : fdList'[i] = fdList[i]
    BY <1>2, AppendProperties, LenProperties DEF PushEnd, Types
  <2> QED BY <2>1 DEF InList
<1>3. fdList' = fdList \/ PushEnd
  BY DEF Next, MainStep, ReaderStep, Arrive, Say, Leave, Accept, AcceptFails, Fcntl,
         PushBegin, RecvOnce, RecvOnceNothing, CloseOnce, Pass, Lost, Entry,
         EndOfPass, Crash, FallAsleep, Recv, RecvNothing, Close, vars, serverVars, listVars
<1> QED BY <1>1, <1>2, <1>3

(* One connection blocks at most, the one main is about to make otherwise. *)
LEMMA OneBlocksKept == IInv /\ [Next]_vars => OneBlocks'
<1> SUFFICES ASSUME IInv, [Next]_vars, program' = "thread", NEW f \in Fds,
                    peer'[f] # NULL, f \notin nonblock'
             PROVE  main' = "fcntl" /\ got' = f
  BY DEF OneBlocks
<1>0. program' = program => program = "thread"
  OBVIOUS
<1> USE ThreadedAssumption DEF IInv, Types, Halves, Reading, Blocking, OneBlocks, serverVars,
        mainVars, readerVars
<1>1. CASE \E c \in Clients : Arrive(c) \/ Say(c) \/ Leave(c)
  BY <1>0, <1>1 DEF Arrive, Say, Leave
<1>2. CASE Accept
  BY <1>0, <1>2, LowestIsFree DEF Accept, MainGoes
<1>3. CASE Fcntl
  BY <1>0, <1>3 DEF Fcntl, MainGoes
<1>4. CASE AcceptFails \/ PushBegin \/ PushEnd \/ RecvOnce \/ RecvOnceNothing \/ CloseOnce
  BY <1>0, <1>4
     DEF AcceptFails, PushBegin, PushEnd, RecvOnce, RecvOnceNothing, CloseOnce, MainGoes
<1>5. CASE Pass \/ Lost \/ Entry \/ EndOfPass \/ FallAsleep \/ Recv \/ RecvNothing
  BY <1>0, <1>5
     DEF Pass, Lost, Entry, EndOfPass, FallAsleep, Recv, RecvNothing, RecvReturns, ReaderGoes
<1>6. CASE Crash
  BY <1>6 DEF Crash
<1>7. CASE Close
  BY <1>0, <1>7 DEF Close, Closes, ReaderGoes
<1>8. CASE UNCHANGED vars
  BY <1>0, <1>8 DEF vars
<1> QED BY <1>1, <1>2, <1>3, <1>4, <1>5, <1>6, <1>7, <1>8 DEF Next, MainStep, ReaderStep

(* A pass takes its entries from the list.                                 *)
LEMMA RangeKept == IInv /\ [Next]_vars => InRange' /\ MetInList'
<1> SUFFICES ASSUME IInv, [Next]_vars PROVE InRange' /\ MetInList'
  OBVIOUS
<1>0. \A n : InList(n) => InList(n)'
  BY InListStays DEF IInv
<1> USE DEF IInv, Blocking, serverVars, listVars, mainVars, readerVars
<1>1. CASE Pass
  BY <1>1 DEF Pass, ReaderGoes, InRange, MetInList, InList
<1>2. CASE Entry
  <2>1. CASE astray
    BY <1>2, <2>1 DEF Entry, InRange, MetInList
  <2>2. CASE ~astray
    <3>1. range # << >> /\ fd' = Head(range) /\ range' = Tail(range) /\ range \in Seq(Numbers)
      BY <1>2, <2>2 DEF Entry, Types
    <3>2. /\ Len(range) \in Nat /\ Len(range) > 0 /\ Len(range') = Len(range) - 1
          /\ \A i \in 1..Len(range') : range'[i] = range[i + 1]
          /\ fd' = range[1]
      BY <3>1, HeadTailProperties, LenProperties, EmptySeq
    <3>3. InList(fd)'
      <4>1. InList(range[1])
        BY <2>2, <3>2 DEF InRange
      <4> QED BY <1>0, <1>2, <3>2, <4>1 DEF Entry, InList
    <3>4. \A i \in 1..Len(range') : InList(range[i + 1])
      BY <2>2, <3>2 DEF InRange
    <3>5. InRange'
      BY <1>2, <3>2, <3>4 DEF InRange, InList, Entry
    <3> QED BY <3>3, <3>5 DEF MetInList
  <2> QED BY <2>1, <2>2
<1>3. CASE EndOfPass
  BY <1>3 DEF EndOfPass, ReaderGoes, InRange, MetInList
<1>4. CASE UNCHANGED range /\ (reader' = "recv" => reader = "recv" /\ UNCHANGED fd)
           /\ (astray => astray')
  <2>1. ASSUME NEW i \in 1..Len(range), ~astray PROVE InList(range[i])'
    <3>1. InList(range[i])
      BY <2>1 DEF InRange
    <3>2. InList(range[i])' <=> \E j \in 1..Len(fdList') : fdList'[j] = range[i]
      BY <1>4 DEF InList
    <3>3. \E j \in 1..Len(fdList') : fdList'[j] = range[i]
      BY <1>0, <3>1 DEF InList
    <3> QED BY <3>2, <3>3
  <2>2. ASSUME ~astray, reader = "recv", UNCHANGED fd PROVE InList(fd)'
    BY <1>0, <2>2 DEF MetInList, InList
  <2> QED BY <1>4, <2>1, <2>2 DEF InRange, MetInList
<1>5. CASE \E c \in Clients : Arrive(c) \/ Say(c) \/ Leave(c)
  BY <1>4, <1>5 DEF Arrive, Say, Leave
<1>6. CASE MainStep
  BY <1>4, <1>6 DEF MainStep, Accept, AcceptFails, Fcntl, PushBegin, PushEnd,
                    RecvOnce, RecvOnceNothing, CloseOnce
<1>7. CASE Lost \/ Crash \/ FallAsleep \/ Recv \/ RecvNothing \/ Close
  BY <1>4, <1>7 DEF Lost, Crash, FallAsleep, Recv, RecvNothing, RecvReturns, Close, ReaderGoes
<1>8. CASE UNCHANGED vars
  BY <1>4, <1>8 DEF vars
<1> QED BY <1>1, <1>2, <1>3, <1>5, <1>6, <1>7, <1>8 DEF Next, ReaderStep

(* Nobody closes the connection the reader sleeps on.                      *)
LEMMA SleepKept == IInv /\ [Next]_vars => SleepsOnOpen'
<1> SUFFICES ASSUME IInv, [Next]_vars, reader' = "asleep" PROVE Open'
  BY DEF SleepsOnOpen
<1> USE ThreadedAssumption DEF IInv, Types, Halves, Blocking, SleepsOnOpen, Open, OpenAt,
        serverVars, mainVars, readerVars
<1>1. CASE \E c \in Clients : Arrive(c) \/ Say(c) \/ Leave(c)
  BY <1>1 DEF Arrive, Say, Leave
<1>2. CASE Accept
  BY <1>2, LowestIsFree DEF Accept
<1>3. CASE AcceptFails \/ Fcntl \/ PushBegin \/ PushEnd \/ RecvOnceNothing
  BY <1>3 DEF AcceptFails, Fcntl, PushBegin, PushEnd, RecvOnceNothing
<1>4. CASE RecvOnce \/ CloseOnce
  BY <1>4 DEF RecvOnce, CloseOnce, MainGoes
<1>5. CASE ReaderStep
  BY <1>5 DEF ReaderStep, Pass, Lost, Entry, EndOfPass, Crash, FallAsleep, Recv,
              RecvNothing, RecvReturns, Close, ReaderGoes
<1>6. CASE UNCHANGED vars
  BY <1>6 DEF vars
<1> QED BY <1>1, <1>2, <1>3, <1>4, <1>5, <1>6 DEF Next, MainStep

(* Every step keeps the invariant.                                         *)
LEMMA Inductive == IInv /\ [Next]_vars => IInv'
BY NextTyped, HalvesKept, ReadingKept, ListedKept, OneBlocksKept, RangeKept, SleepKept
   DEF IInv, Blocking

-----------------------------------------------------------------------------

(* TypeOK: types only; fcntl and recv are called on -1 when accept failed. *)
THEOREM Typing == Spec => []TypeOK
<1>1. IInv => TypeOK
  BY TypesAreTypes DEF IInv
<1> QED BY <1>1, InitHolds, Inductive, PTL DEF Spec

(* The reader misses no connection, although numbers are given again and   *)
(* entries are never removed (02_IO_Multiple.cpp:63, 86), for any number   *)
(* of descriptors.                                                         *)
THEOREM NoneMissed == Spec => []Listed
<1>1. IInv => Listed
  BY DEF IInv
<1> QED BY <1>1, InitHolds, Inductive, PTL DEF Spec

(* The connection closed is the one a message was read from, whatever the  *)
(* other thread does in between and also when the pass has gone astray     *)
(* (02_IO_Multiple.cpp:55-65, 01_blockIO.cpp:62-72).                       *)
THEOREM ClosesTheRightOne == Spec => []ClosesWhatItRead
<1>1. IInv => ClosesWhatItRead
  BY DEF IInv, Reading, ClosesWhatItRead
<1> QED BY <1>1, InitHolds, Inductive, PTL DEF Spec

(* BlocksOnReused: recv can block only on the connection main has accepted *)
(* and not yet made non-blocking, met before it is pushed because of its   *)
(* number or astray, and who sleeps does so on an open connection          *)
(* (02_IO_Multiple.cpp:55-65, 83-86), for any number of descriptors.       *)
THEOREM WaitsOnReused == Spec => []BlocksOnReused
<1>1. IInv => BlocksOnReused
  <2> SUFFICES ASSUME IInv
               PROVE  /\ reader = "recv" /\ Open /\ fd \notin nonblock =>
                           /\ main = "fcntl" /\ got = fd
                           /\ astray \/ InList(fd)
                      /\ reader = "asleep" => Open
    BY DEF BlocksOnReused, InList
  <2>1. reader = "recv" => program = "thread"
    BY DEF IInv, Types, Halves
  <2>2. reader = "recv" /\ Open /\ fd \notin nonblock => main = "fcntl" /\ got = fd
    BY <2>1 DEF IInv, Blocking, OneBlocks, Open, OpenAt
  <2>3. reader = "recv" => astray \/ InList(fd)
    BY DEF IInv, Types, Blocking, MetInList
  <2> QED BY <2>2, <2>3 DEF IInv, Blocking, SleepsOnOpen
<1> QED BY <1>1, InitHolds, Inductive, PTL DEF Spec
=============================================================================
