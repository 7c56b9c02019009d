--------------------------- MODULE WebsocketProofs ---------------------------
(***************************************************************************)
(* The echoes come back in order, none lost and none twice, for any number *)
(* of clients and whatever breaks; and the pair of programs is, step for   *)
(* step, the echo each client was promised.                                *)
(***************************************************************************)
EXTENDS WebsocketEcho, SequenceTheorems, TLAPS

Types ==
  /\ conn \in [Clients -> Connections]
  /\ asked \in [Clients -> SUBSET Ends]
  /\ flowing \in [Clients -> BOOLEAN]
  /\ buf \in [Clients -> Messages \cup {NULL}]
  /\ life \in [Clients -> {"off", "run", "exit", "ended", "crashed"}]
  /\ msgCount \in [Clients -> 0..3]
  /\ rx \in [Clients -> Seq(Messages)]

(* The messages after the first n, in order. *)
Follows(s, n) == \A i \in 1..Len(s) : s[i] = n + i

Printed(c) == Len(rx[c])
Returned(c) == Printed(c) + Len(conn[c].down)
Echoing(c)  == "srv" \in asked[c]

(* Nothing has happened on a connection that is not established. *)
Fresh(c) ==
  /\ conn[c].up = << >> /\ conn[c].down = << >> /\ rx[c] = << >>
  /\ msgCount[c] = 0
  /\ ~Echoing(c)

(* A frame is let in only when the buffer is free; what is on its way, on  *)
(* its way back and in the buffer are the messages after those printed.    *)
Flow(c) ==
  /\ flowing[c] <=> ~Echoing(c)
  /\ Echoing(c) => buf[c] \in Messages

Order(c) ==
  /\ life[c] = "off" => conn[c].cli = "none"
  /\ conn[c].cli \in {"none", "connecting"} => Fresh(c)
  /\ conn[c].srv = "none" => conn[c].cli # "open"
  /\ Follows(rx[c], 0)
  /\ Printed(c) <= msgCount[c]
  /\ conn[c].cli = "open" =>
       /\ Follows(conn[c].down, Printed(c))
       /\ Returned(c) <= msgCount[c]
  /\ conn[c].cli = "open" /\ conn[c].srv = "open" =>
       IF Echoing(c)
       THEN /\ buf[c] = Returned(c) + 1
            /\ Follows(conn[c].up, Returned(c) + 1)
            /\ Returned(c) + 1 + Len(conn[c].up) = msgCount[c]
       ELSE /\ Follows(conn[c].up, Returned(c))
            /\ Returned(c) + Len(conn[c].up) = msgCount[c]

IInv == Types /\ \A c \in Clients : Flow(c) /\ Order(c)

-----------------------------------------------------------------------------

(* A step about one client does not touch the order of another.            *)
LEMMA OtherOrder ==
  ASSUME NEW c \in Clients, Order(c), Flow(c),
         conn'[c] = conn[c], asked'[c] = asked[c], flowing'[c] = flowing[c],
         buf'[c] = buf[c], life'[c] = life[c], msgCount'[c] = msgCount[c],
         rx'[c] = rx[c]
  PROVE  Order(c)' /\ Flow(c)'
<1>1. Flow(c)'
  BY Zenon DEF Flow, Echoing
<1>2. /\ Printed(c)' = Printed(c) /\ Returned(c)' = Returned(c)
      /\ Echoing(c)' <=> Echoing(c)
      /\ Fresh(c)' <=> Fresh(c)
  BY Zenon DEF Printed, Returned, Echoing, Fresh
<1>3. Order(c)'
  BY <1>2, Zenon DEF Order, Follows
<1> QED BY <1>1, <1>3

(* The types of what belongs to one client. *)
LEMMA OneClient ==
  ASSUME Types, NEW c \in Clients
  PROVE  /\ conn[c] = [cli |-> conn[c].cli, srv |-> conn[c].srv,
                       up |-> conn[c].up, down |-> conn[c].down]
         /\ conn[c].cli \in {"none", "connecting", "open", "closed"}
         /\ conn[c].srv \in {"none", "open", "closed"}
         /\ conn[c].up \in Seq(Messages) /\ Len(conn[c].up) \in Nat
         /\ conn[c].down \in Seq(Messages) /\ Len(conn[c].down) \in Nat
         /\ rx[c] \in Seq(Messages)
         /\ msgCount[c] \in 0..3 /\ msgCount[c] \in Nat
         /\ Printed(c) \in Nat /\ Returned(c) \in Nat
         /\ Returned(c) = Printed(c) + Len(conn[c].down)
<1>1. conn[c] \in Connections /\ rx[c] \in Seq(Messages) /\ msgCount[c] \in 0..3
  BY DEF Types
<1>2. /\ conn[c] = [cli |-> conn[c].cli, srv |-> conn[c].srv,
                    up |-> conn[c].up, down |-> conn[c].down]
      /\ conn[c].cli \in {"none", "connecting", "open", "closed"}
      /\ conn[c].srv \in {"none", "open", "closed"}
      /\ conn[c].up \in Seq(Messages)
      /\ conn[c].down \in Seq(Messages)
  BY <1>1 DEF Connections
<1>3. Len(conn[c].up) \in Nat /\ Len(conn[c].down) \in Nat /\ Len(rx[c]) \in Nat
  BY <1>1, <1>2, LenProperties
<1>4. /\ Printed(c) \in Nat /\ Returned(c) \in Nat
      /\ Returned(c) = Printed(c) + Len(conn[c].down)
  <2>1. \A p, d \in Nat : p + d \in Nat
    OBVIOUS
  <2>2. Printed(c) = Len(rx[c]) /\ Returned(c) = Printed(c) + Len(conn[c].down)
    BY Zenon DEF Printed, Returned
  <2> QED BY <1>3, <2>1, <2>2, Zenon
<1>5. msgCount[c] \in Nat
  BY <1>1
<1> QED BY <1>1, <1>2, <1>3, <1>4, <1>5, Zenon

(* One part of one connection changes, and stays of its type. *)
LEMMA OnePart ==
  ASSUME Types, NEW c \in Clients, NEW s \in Seq(Messages)
  PROVE  /\ [conn EXCEPT ![c].up = s] \in [Clients -> Connections]
         /\ [conn EXCEPT ![c].down = s] \in [Clients -> Connections]
         /\ \A x \in {"open", "closed"} :
              [conn EXCEPT ![c].srv = x] \in [Clients -> Connections]
         /\ \A x \in {"connecting", "open", "closed"} :
              [conn EXCEPT ![c].cli = x] \in [Clients -> Connections]
<1>1. conn \in [Clients -> Connections] /\ conn[c] \in Connections
  BY DEF Types
<1>2. ASSUME NEW k \in Connections
      PROVE  [conn EXCEPT ![c] = k] \in [Clients -> Connections]
  BY <1>1
<1>3. [conn[c] EXCEPT !.up = s] \in Connections
  BY <1>1 DEF Connections
<1>4. [conn[c] EXCEPT !.down = s] \in Connections
  BY <1>1 DEF Connections
<1>5. ASSUME NEW x \in {"open", "closed"}
      PROVE  [conn[c] EXCEPT !.srv = x] \in Connections
  BY <1>1 DEF Connections
<1>6. ASSUME NEW x \in {"connecting", "open", "closed"}
      PROVE  [conn[c] EXCEPT !.cli = x] \in Connections
  BY <1>1 DEF Connections
<1> QED BY <1>2, <1>3, <1>4, <1>5, <1>6, Zenon

(* Taking the first of the messages after n, and adding the next. *)
LEMMA TakeFirst ==
  ASSUME NEW n \in Nat, NEW s \in Seq(Messages), s # << >>, Follows(s, n)
  PROVE  /\ Head(s) = n + 1 /\ Head(s) \in Messages
         /\ Tail(s) \in Seq(Messages) /\ Len(Tail(s)) = Len(s) - 1
         /\ Follows(Tail(s), n + 1)
<1>1. /\ Len(s) \in Nat \ {0} /\ Head(s) = s[1] /\ Head(s) \in Messages
      /\ Tail(s) \in Seq(Messages) /\ Len(Tail(s)) = Len(s) - 1
      /\ \A i \in 1..Len(Tail(s)) : Tail(s)[i] = s[i + 1]
  BY HeadTailProperties, EmptySeq, LenProperties
<1> QED BY <1>1 DEF Follows

(* One more message, the next in order, keeps the order.                   *)
LEMMA AddNext ==
  ASSUME NEW n \in Nat, NEW s \in Seq(Messages), Follows(s, n),
         NEW e \in Messages, e = n + Len(s) + 1
  PROVE  /\ Append(s, e) \in Seq(Messages) /\ Len(Append(s, e)) = Len(s) + 1
         /\ Follows(Append(s, e), n)
<1>1. /\ Len(s) \in Nat /\ Append(s, e) \in Seq(Messages)
      /\ Len(Append(s, e)) = Len(s) + 1
      /\ \A i \in 1..Len(s) : Append(s, e)[i] = s[i]
      /\ Append(s, e)[Len(s) + 1] = e
  BY AppendProperties, LenProperties
<1> QED BY <1>1 DEF Follows

(* The first message on its way back is the next one to print; what is     *)
(* printed and on its way stays in order and as much.                      *)
LEMMA PrintNext ==
  ASSUME NEW r \in Seq(Messages), NEW d \in Seq(Messages), d # << >>,
         Follows(r, 0), Follows(d, Len(r))
  PROVE  /\ Tail(d) \in Seq(Messages)
         /\ Follows(Tail(d), Len(r) + 1)
         /\ Append(r, Head(d)) \in Seq(Messages)
         /\ Len(Append(r, Head(d))) = Len(r) + 1
         /\ Follows(Append(r, Head(d)), 0)
         /\ Len(r) + 1 + Len(Tail(d)) = Len(r) + Len(d)
         /\ Len(r) + 1 <= Len(r) + Len(d)
<1>1. Len(r) \in Nat /\ Len(d) \in Nat /\ Len(d) # 0
  BY EmptySeq, LenProperties
<1>2. /\ Head(d) = Len(r) + 1 /\ Head(d) \in Messages
      /\ Tail(d) \in Seq(Messages) /\ Len(Tail(d)) = Len(d) - 1
      /\ Follows(Tail(d), Len(r) + 1)
  BY <1>1, TakeFirst
<1>3. Head(d) = 0 + Len(r) + 1 /\ 0 \in Nat
  BY <1>1, <1>2
<1>4. /\ Append(r, Head(d)) \in Seq(Messages)
      /\ Len(Append(r, Head(d))) = Len(r) + 1
      /\ Follows(Append(r, Head(d)), 0)
  BY <1>2, <1>3, AddNext
<1>5. /\ Len(r) + 1 + Len(Tail(d)) = Len(r) + Len(d)
      /\ Len(r) + 1 <= Len(r) + Len(d)
  BY <1>1, <1>2
<1> QED BY <1>2, <1>4, <1>5

(* The server receives a frame.                                            *)
LEMMA ReceiveKeeps ==
  ASSUME IInv, NEW c \in Clients, Receive(c), UNCHANGED clientVars PROVE IInv'
<1> USE DEF IInv
<1>0. ~Echoing(c)
  BY Zenon DEF Receive, Flow
<1>1. /\ conn' = [conn EXCEPT ![c].up = Tail(@)]
      /\ asked' = [asked EXCEPT ![c] = @ \cup {"srv"}]
      /\ flowing' = [flowing EXCEPT ![c] = FALSE]
      /\ buf' = [buf EXCEPT ![c] = Head(conn[c].up)]
      /\ UNCHANGED <<life, msgCount, rx>>
      /\ conn[c].srv = "open" /\ conn[c].up # << >>
  BY DEF Receive, RxFlowControl, OnWritable, clientVars
<1>2. Head(conn[c].up) \in Messages /\ Tail(conn[c].up) \in Seq(Messages)
  BY <1>1, OneClient, HeadTailProperties
<1>3. Types'
  <2>1. conn' \in [Clients -> Connections]
    BY <1>1, <1>2, OnePart
  <2> QED BY <1>1, <1>2, <2>1 DEF Types, Ends
<1>4. Order(c)'
  <2>1. /\ conn'[c] = [conn[c] EXCEPT !.up = Tail(@)]
        /\ Echoing(c)' /\ buf'[c] = Head(conn[c].up)
        /\ UNCHANGED <<life, rx, msgCount>>
    BY <1>1 DEF Types, Echoing
  <2>2. /\ conn'[c].cli = conn[c].cli /\ conn'[c].srv = conn[c].srv
        /\ conn'[c].down = conn[c].down /\ conn'[c].up = Tail(conn[c].up)
    BY <2>1, OneClient
  <2>3. Printed(c)' = Printed(c) /\ Returned(c)' = Returned(c)
    BY <2>1, <2>2 DEF Printed, Returned
  <2>4. conn[c].cli \notin {"none", "connecting"}
    BY <1>1 DEF Order, Fresh
  <2>5. conn[c].cli = "open" =>
          /\ Follows(Tail(conn[c].up), Returned(c) + 1)
          /\ Head(conn[c].up) = Returned(c) + 1
          /\ Returned(c) + 1 + Len(Tail(conn[c].up)) = msgCount[c]
    <3> SUFFICES ASSUME conn[c].cli = "open"
                 PROVE  /\ Follows(Tail(conn[c].up), Returned(c) + 1)
                        /\ Head(conn[c].up) = Returned(c) + 1
                        /\ Returned(c) + 1 + Len(Tail(conn[c].up)) = msgCount[c]
      OBVIOUS
    <3>1. Follows(conn[c].up, Returned(c)) /\ Returned(c) + Len(conn[c].up) = msgCount[c]
      BY <1>0, <1>1, Zenon DEF Order
    <3>2. Returned(c) \in Nat /\ conn[c].up \in Seq(Messages) /\ Len(conn[c].up) \in Nat
      BY OneClient
    <3> HIDE DEF IInv
    <3>3. /\ Head(conn[c].up) = Returned(c) + 1
          /\ Len(Tail(conn[c].up)) = Len(conn[c].up) - 1
          /\ Follows(Tail(conn[c].up), Returned(c) + 1)
      BY <1>1, <3>1, <3>2, TakeFirst
    <3> QED BY <3>1, <3>2, <3>3
  <2> QED BY <2>1, <2>2, <2>3, <2>4, <2>5, Zenon DEF Order, Follows
<1>5. Flow(c)'
  <2>1. flowing'[c] = FALSE /\ buf'[c] \in Messages /\ Echoing(c)'
    BY <1>1, <1>2 DEF Types, Echoing
  <2> QED BY <2>1, Zenon DEF Flow
<1>6. \A d \in Clients : d # c => Order(d)' /\ Flow(d)'
  BY <1>1, OtherOrder DEF Types
<1> QED BY <1>3, <1>4, <1>5, <1>6

(* The server echoes.                                                      *)
LEMMA ServerWriteableKeeps ==
  ASSUME IInv, NEW c \in Clients, ServerWriteable(c), UNCHANGED clientVars
  PROVE  IInv'
<1> USE DEF IInv
<1>1. /\ conn' = [conn EXCEPT ![c].down = Append(@, buf[c])]
      /\ asked' = [asked EXCEPT ![c] = @ \ {"srv"}]
      /\ flowing' = [flowing EXCEPT ![c] = TRUE]
      /\ UNCHANGED <<buf, life, msgCount, rx>>
      /\ conn[c].srv = "open" /\ Echoing(c)
  BY DEF ServerWriteable, Writable, RxFlowControl, serverVars, clientVars, Echoing
<1>2. buf[c] \in Messages /\ Append(conn[c].down, buf[c]) \in Seq(Messages)
  <2>1. buf[c] \in Messages
    BY <1>1, Zenon DEF Flow
  <2> QED BY <2>1, OneClient, AppendProperties
<1>3. Types'
  <2>1. conn' \in [Clients -> Connections]
    BY <1>1, <1>2, OnePart
  <2> QED BY <1>1, <2>1 DEF Types, Ends
<1>4. Order(c)'
  <2>1. /\ conn'[c] = [conn[c] EXCEPT !.down = Append(@, buf[c])]
        /\ asked'[c] = asked[c] \ {"srv"}
        /\ UNCHANGED <<life, rx, msgCount>>
    BY <1>1 DEF Types
  <2>2. /\ conn'[c].cli = conn[c].cli /\ conn'[c].srv = conn[c].srv
        /\ conn'[c].up = conn[c].up /\ conn'[c].down = Append(conn[c].down, buf[c])
        /\ Printed(c)' = Printed(c) /\ ~Echoing(c)'
    BY <2>1, OneClient DEF Printed, Echoing
  <2>3. conn[c].cli \notin {"none", "connecting"}
    BY <1>1, Zenon DEF Order, Fresh
  <2>4. conn[c].cli = "open" =>
          /\ Follows(Append(conn[c].down, buf[c]), Printed(c))
          /\ Returned(c)' = Returned(c) + 1
          /\ Returned(c) + 1 <= msgCount[c]
          /\ Follows(conn[c].up, Returned(c) + 1)
          /\ Returned(c) + 1 + Len(conn[c].up) = msgCount[c]
    <3> SUFFICES ASSUME conn[c].cli = "open"
                 PROVE  /\ Follows(Append(conn[c].down, buf[c]), Printed(c))
                        /\ Returned(c)' = Returned(c) + 1
                        /\ Returned(c) + 1 <= msgCount[c]
                        /\ Follows(conn[c].up, Returned(c) + 1)
                        /\ Returned(c) + 1 + Len(conn[c].up) = msgCount[c]
      OBVIOUS
    <3>1. /\ buf[c] = Returned(c) + 1
          /\ Follows(conn[c].up, Returned(c) + 1)
          /\ Returned(c) + 1 + Len(conn[c].up) = msgCount[c]
          /\ Follows(conn[c].down, Printed(c))
      BY <1>1, Zenon DEF Order
    <3>2. /\ Returned(c) \in Nat /\ Printed(c) \in Nat
          /\ conn[c].down \in Seq(Messages)
          /\ Len(conn[c].up) \in Nat /\ Len(conn[c].down) \in Nat
          /\ msgCount[c] \in Nat
          /\ Returned(c) = Printed(c) + Len(conn[c].down)
      BY OneClient, Zenon
    <3> HIDE DEF IInv
    <3>3. buf[c] = Printed(c) + Len(conn[c].down) + 1
      BY <3>1, <3>2
    <3>4. /\ Len(Append(conn[c].down, buf[c])) = Len(conn[c].down) + 1
          /\ Follows(Append(conn[c].down, buf[c]), Printed(c))
      BY <1>2, <3>1, <3>2, <3>3, AddNext
    <3>5. Returned(c)' = Printed(c) + Len(Append(conn[c].down, buf[c]))
      BY <2>2 DEF Returned
    <3> QED BY <3>1, <3>2, <3>4, <3>5
  <2> QED BY <2>1, <2>2, <2>3, <2>4, Zenon DEF Order, Follows
<1>5. Flow(c)'
  <2>1. asked'[c] = asked[c] \ {"srv"} /\ flowing'[c] = TRUE
    BY <1>1 DEF Types
  <2>2. ~Echoing(c)'
    BY <2>1 DEF Echoing
  <2> QED BY <2>1, <2>2, Zenon DEF Flow
<1>6. \A d \in Clients : d # c => Order(d)' /\ Flow(d)'
  BY <1>1, OtherOrder DEF Types
<1> QED BY <1>3, <1>4, <1>5, <1>6

(* An end that opens changes nothing that is under way. *)
LEMMA OpeningKeeps ==
  ASSUME IInv, NEW c \in Clients,
         \/ Established(c) /\ UNCHANGED clientVars
         \/ ClientEstablished(c) /\ UNCHANGED serverVars
  PROVE  IInv'
<1> USE DEF IInv
<1>1. /\ UNCHANGED <<asked, flowing, buf, life, msgCount, rx>>
      /\ conn[c].cli = "connecting"
      /\ \/ conn' = [conn EXCEPT ![c].srv = "open"]
         \/ conn[c].srv = "open" /\ conn' = [conn EXCEPT ![c].cli = "open"]
  BY DEF Established, ClientEstablished, serverVars, clientVars
<1>2. Types'
  <2>1. ASSUME conn' = [conn EXCEPT ![c].srv = "open"]
        PROVE  conn' \in [Clients -> Connections]
    BY <2>1, OnePart, EmptySeq
  <2>2. ASSUME conn' = [conn EXCEPT ![c].cli = "open"]
        PROVE  conn' \in [Clients -> Connections]
    BY <2>2, OnePart, EmptySeq
  <2> QED BY <1>1, <2>1, <2>2 DEF Types
<1>3. Order(c)'
  <2>1. /\ conn[c].up = << >> /\ conn[c].down = << >> /\ rx[c] = << >>
        /\ msgCount[c] = 0 /\ ~Echoing(c) /\ life[c] # "off"
    BY <1>1 DEF Order, Fresh
  <2>2. /\ conn'[c].up = << >> /\ conn'[c].down = << >>
        /\ rx'[c] = << >> /\ msgCount'[c] = 0 /\ ~Echoing(c)' /\ life'[c] # "off"
        /\ conn'[c].srv = "none" => conn'[c].cli # "open"
    BY <1>1, <2>1, OneClient DEF Types, Echoing
  <2>3. Len(<< >>) = 0 /\ \A n \in Nat : Follows(<< >>, n)
    BY EmptySeq DEF Follows
  <2>4. Printed(c)' = 0 /\ Returned(c)' = 0
    BY <2>2, <2>3 DEF Printed, Returned
  <2>5. Fresh(c)'
    BY <2>2 DEF Fresh
  <2> QED BY <2>2, <2>3, <2>4, <2>5 DEF Order, Follows
<1>4. Flow(c)'
  BY <1>1 DEF Flow, Echoing
<1>5. \A d \in Clients : d # c => Order(d)' /\ Flow(d)'
  BY <1>1, OtherOrder DEF Types
<1> QED BY <1>2, <1>3, <1>4, <1>5

(* An end that closes leaves the rest as it is, but for what was on its way. *)
LEMMA ServerEndClosed ==
  ASSUME Types, NEW c \in Clients, Order(c), Flow(c),
         \/ conn'[c] = conn[c]
         \/ conn'[c] = [conn[c] EXCEPT !.srv = "closed", !.up = << >>],
         asked'[c] = asked[c], flowing'[c] = flowing[c],
         buf'[c] = buf[c], life'[c] = life[c], msgCount'[c] = msgCount[c],
         rx'[c] = rx[c]
  PROVE  conn'[c] \in Connections /\ Order(c)' /\ Flow(c)'
<1>1. CASE conn'[c] = conn[c]
  BY <1>1, OtherOrder DEF Types
<1>2. CASE conn'[c] = [conn[c] EXCEPT !.srv = "closed", !.up = << >>]
  <2>1. conn[c] \in Connections
    BY DEF Types
  <2>0. << >> \in Seq(Messages)
    BY EmptySeq
  <2>2. /\ conn'[c] \in Connections
        /\ conn'[c].cli = conn[c].cli /\ conn'[c].srv = "closed"
        /\ conn'[c].up = << >> /\ conn'[c].down = conn[c].down
    BY <1>2, <2>0, <2>1 DEF Connections
  <2>3. /\ Printed(c)' = Printed(c) /\ Returned(c)' = Returned(c)
        /\ Echoing(c)' <=> Echoing(c)
    BY <2>2, Zenon DEF Printed, Returned, Echoing
  <2>4. Fresh(c) => Fresh(c)'
    BY <2>2, <2>3, Zenon DEF Fresh
  <2>5. Order(c)'
    BY <2>2, <2>3, <2>4, Zenon DEF Order, Follows
  <2>6. Flow(c)'
    BY <2>3, Zenon DEF Flow
  <2> QED BY <2>2, <2>5, <2>6
<1> QED BY <1>1, <1>2

(* A connection ends, SIGTERM comes, or the server ends.                   *)
LEMMA ServerClosingKeeps ==
  ASSUME IInv, Sighdl \/ Destroy \/ (\E c \in Clients : Closed(c)),
         UNCHANGED clientVars
  PROVE  IInv'
<1> USE DEF IInv
<1>1. /\ UNCHANGED <<asked, flowing, buf, life, msgCount, rx>>
      /\ conn' = [c \in Clients |-> conn'[c]]
      /\ \A c \in Clients :
           \/ conn'[c] = conn[c]
           \/ conn'[c] = [conn[c] EXCEPT !.srv = "closed", !.up = << >>]
  <2>1. CASE Sighdl
    BY <2>1 DEF Sighdl, lwsVars, clientVars, Types
  <2>2. CASE Destroy
    BY <2>2 DEF Destroy, clientVars
  <2>3. ASSUME NEW c \in Clients, Closed(c)
        PROVE  <1>1!:
    BY <2>3 DEF Closed, serverVars, clientVars, Types
  <2> QED BY <2>1, <2>2, <2>3
<1>2. \A c \in Clients : conn'[c] \in Connections /\ Order(c)' /\ Flow(c)'
  BY <1>1, ServerEndClosed
<1>3. conn' \in [Clients -> Connections]
  BY <1>1, <1>2
<1>4. Types'
  BY <1>1, <1>3 DEF Types
<1> QED BY <1>2, <1>4

(* A client's end that is closed, or was never opened. *)
LEMMA ClientEndClosed ==
  ASSUME IInv, NEW c \in Clients,
         \/ conn' = [conn EXCEPT ![c].cli = "closed", ![c].down = << >>]
         \/ conn' = [conn EXCEPT ![c].cli = "closed"]
         \/ conn[c].cli = "closed" /\ conn' = conn,
         NEW l \in {"run", "exit", "ended", "crashed"},
         life' = [life EXCEPT ![c] = l],
         UNCHANGED <<asked, flowing, buf, msgCount, rx>>
  PROVE  IInv'
<1> USE DEF IInv
<1>1. /\ conn' \in [Clients -> Connections]
      /\ conn'[c].cli = "closed"
      /\ \A d \in Clients : d # c => conn'[d] = conn[d]
  <2>1. CASE conn' = [conn EXCEPT ![c].cli = "closed", ![c].down = << >>]
    <3>1. << >> \in Seq(Messages)
      BY EmptySeq
    <3> DEFINE closed == [conn[c] EXCEPT !.cli = "closed", !.down = << >>]
    <3>2. conn[c] \in Connections /\ conn \in [Clients -> Connections]
      BY DEF Types
    <3>3. closed \in Connections /\ closed.cli = "closed"
      BY <3>1, <3>2 DEF Connections
    <3>4. conn' = [conn EXCEPT ![c] = closed]
      BY <2>1
    <3> HIDE DEF closed
    <3> QED BY <3>2, <3>3, <3>4
  <2>2. CASE conn' = [conn EXCEPT ![c].cli = "closed"]
    <3>1. conn' \in [Clients -> Connections]
      BY <2>2, OnePart, EmptySeq
    <3>2. conn' = [conn EXCEPT ![c] = [conn[c] EXCEPT !.cli = "closed"]]
      BY <2>2
    <3>3. [conn[c] EXCEPT !.cli = "closed"].cli = "closed"
      BY DEF Types, Connections
    <3> QED BY <3>1, <3>2, <3>3 DEF Types
  <2>3. CASE conn[c].cli = "closed" /\ conn' = conn
    BY <2>3 DEF Types
  <2> QED BY <2>1, <2>2, <2>3
<1>2. Types'
  BY <1>1 DEF Types
<1>3. Order(c)'
  <2>1. life'[c] # "off" /\ Printed(c)' = Printed(c)
    BY DEF Types, Printed
  <2> QED BY <1>1, <2>1 DEF Order, Follows
<1>4. Flow(c)'
  BY DEF Flow, Echoing
<1>5. \A d \in Clients : d # c => Order(d)' /\ Flow(d)'
  BY <1>1, OtherOrder DEF Types
<1> QED BY <1>2, <1>3, <1>4, <1>5

(* An end of a client or of its connection.                                *)
LEMMA ClientClosingKeeps ==
  ASSUME IInv, NEW c \in Clients, UNCHANGED serverVars,
         ClientClosed(c) \/ AskStale(c) \/ ClientDestroy(c)
  PROVE  IInv'
<1>1. CASE ClientClosed(c)
  <2>1. /\ life' = [life EXCEPT ![c] = life[c]]
        /\ life[c] \in {"run", "exit"}
        /\ conn' = [conn EXCEPT ![c].cli = "closed", ![c].down = << >>]
        /\ UNCHANGED <<asked, flowing, buf, msgCount, rx>>
    BY <1>1 DEF ClientClosed, InLoop, clientVars, serverVars, IInv, Types
  <2> QED BY <2>1, ClientEndClosed
<1>2. CASE AskStale(c)
  <2>1. /\ life' = [life EXCEPT ![c] = "crashed"]
        /\ conn[c].cli = "closed" /\ conn' = conn
        /\ UNCHANGED <<asked, flowing, buf, msgCount, rx>>
    BY <1>2 DEF AskStale, lwsVars, serverVars
  <2> QED BY <2>1, ClientEndClosed
<1>3. CASE ClientDestroy(c)
  <2>1. /\ life' = [life EXCEPT ![c] = "ended"]
        /\ conn' = [conn EXCEPT ![c].cli = "closed", ![c].down = << >>]
        /\ UNCHANGED <<asked, flowing, buf, msgCount, rx>>
    BY <1>3 DEF ClientDestroy, serverVars
  <2> QED BY <2>1, ClientEndClosed
<1> QED BY <1>1, <1>2, <1>3

(* Asking for a callback, or being told to stop, moves no message. *)
LEMMA AskKeeps ==
  ASSUME IInv, NEW c \in Clients, UNCHANGED serverVars, Ask(c) \/ ClientSighdl(c)
  PROVE  IInv'
<1> USE DEF IInv
<1>1. /\ UNCHANGED <<conn, flowing, buf, msgCount, rx>>
      /\ asked' \in [Clients -> SUBSET Ends]
      /\ life' \in [Clients -> {"off", "run", "exit", "ended", "crashed"}]
      /\ \A d \in Clients : /\ "srv" \in asked'[d] <=> "srv" \in asked[d]
                            /\ life'[d] = "off" <=> life[d] = "off"
  <2>1. CASE Ask(c)
    BY <2>1 DEF Ask, OnWritable, clientVars, serverVars, Types, Ends
  <2>2. CASE ClientSighdl(c)
    BY <2>2 DEF ClientSighdl, lwsVars, serverVars, Types
  <2> QED BY <2>1, <2>2
<1>2. Types'
  BY <1>1 DEF Types
<1>3. ASSUME NEW d \in Clients
      PROVE  Order(d)' /\ Flow(d)'
  <2>1. /\ Printed(d)' = Printed(d) /\ Returned(d)' = Returned(d)
        /\ Echoing(d)' <=> Echoing(d)
        /\ life'[d] = "off" <=> life[d] = "off"
        /\ UNCHANGED <<conn, flowing, buf, msgCount, rx>>
        /\ Order(d) /\ Flow(d)
    BY <1>1, Zenon DEF Printed, Returned, Echoing
  <2>2. Fresh(d)' <=> Fresh(d)
    BY <2>1, Zenon DEF Fresh
  <2>3. Order(d)'
    BY <2>1, <2>2, Zenon DEF Order, Follows
  <2>4. Flow(d)'
    BY <2>1, Zenon DEF Flow
  <2> QED BY <2>3, <2>4
<1> QED BY <1>2, <1>3

(* A client begins to connect.                                             *)
LEMMA ConnectViaInfoKeeps ==
  ASSUME IInv, NEW c \in Clients, ConnectViaInfo(c), UNCHANGED serverVars
  PROVE  IInv'
<1>1. /\ life[c] = "off" /\ life' = [life EXCEPT ![c] = "run"]
      /\ UNCHANGED <<asked, flowing, buf, msgCount, rx>>
      /\ \/ conn' = [conn EXCEPT ![c].cli = "connecting"]
         \/ conn' = [conn EXCEPT ![c].cli = "closed"]
  BY DEF ConnectViaInfo, serverVars
<1>2. CASE conn' = [conn EXCEPT ![c].cli = "closed"]
  BY <1>1, <1>2, ClientEndClosed
<1>3. CASE conn' = [conn EXCEPT ![c].cli = "connecting"]
  <2> USE DEF IInv
  <2>1. Types'
    <3>1. conn' \in [Clients -> Connections]
      BY <1>3, OnePart, EmptySeq
    <3> QED BY <1>1, <3>1 DEF Types
  <2>2. Order(c)'
    <3>1. Fresh(c)
      BY <1>1 DEF Order
    <3>2. /\ conn'[c].cli = "connecting"
          /\ conn'[c].up = conn[c].up /\ conn'[c].down = conn[c].down
          /\ life'[c] = "run"
      BY <1>1, <1>3, OneClient DEF Types
    <3>3. Fresh(c)' /\ Printed(c)' = Printed(c)
      BY <1>1, <3>1, <3>2, Zenon DEF Fresh, Echoing, Printed
    <3> QED BY <1>1, <3>2, <3>3 DEF Order, Follows
  <2>3. Flow(c)'
    BY <1>1 DEF Flow, Echoing
  <2>4. \A d \in Clients : d # c => Order(d)' /\ Flow(d)'
    BY <1>1, <1>3, OtherOrder DEF Types
  <2> QED BY <2>1, <2>2, <2>3, <2>4
<1> QED BY <1>1, <1>2, <1>3

(* A client receives an echo.                                              *)
LEMMA ClientReceiveKeeps ==
  ASSUME IInv, NEW c \in Clients, ClientReceive(c), UNCHANGED serverVars
  PROVE  IInv'
<1> USE DEF IInv
<1>1. /\ rx' = [rx EXCEPT ![c] = Append(@, Head(conn[c].down))]
      /\ conn' = [conn EXCEPT ![c].down = Tail(@)]
      /\ UNCHANGED <<asked, flowing, buf, life, msgCount>>
      /\ conn[c].cli = "open" /\ conn[c].down # << >>
  BY DEF ClientReceive, serverVars
<1>2. /\ Follows(rx[c], 0) /\ Follows(conn[c].down, Printed(c))
      /\ Returned(c) <= msgCount[c]
  BY <1>1, Zenon DEF Order
<1>3. /\ rx[c] \in Seq(Messages) /\ conn[c].down \in Seq(Messages)
      /\ Printed(c) \in Nat /\ msgCount[c] \in Nat /\ Len(conn[c].down) \in Nat
  BY OneClient, Zenon
<1>4. Printed(c) = Len(rx[c]) /\ Returned(c) = Len(rx[c]) + Len(conn[c].down)
  BY Zenon DEF Printed, Returned
<1>5. Follows(conn[c].down, Len(rx[c]))
  BY <1>2, <1>4, Zenon
<1>6. /\ Tail(conn[c].down) \in Seq(Messages)
      /\ Follows(Tail(conn[c].down), Len(rx[c]) + 1)
      /\ Append(rx[c], Head(conn[c].down)) \in Seq(Messages)
      /\ Len(Append(rx[c], Head(conn[c].down))) = Len(rx[c]) + 1
      /\ Follows(Append(rx[c], Head(conn[c].down)), 0)
      /\ Len(rx[c]) + 1 + Len(Tail(conn[c].down)) = Len(rx[c]) + Len(conn[c].down)
      /\ Len(rx[c]) + 1 <= Len(rx[c]) + Len(conn[c].down)
  BY <1>1, <1>2, <1>3, <1>5, PrintNext, Zenon
<1>7. Types'
  <2>1. conn' \in [Clients -> Connections]
    BY <1>1, <1>6, OnePart
  <2> QED BY <1>1, <1>6, <2>1 DEF Types
<1>8. /\ rx'[c] = Append(rx[c], Head(conn[c].down))
      /\ conn'[c].cli = "open" /\ conn'[c].srv = conn[c].srv
      /\ conn'[c].up = conn[c].up /\ conn'[c].down = Tail(conn[c].down)
  BY <1>1, OneClient DEF Types
<1>9. /\ Printed(c)' = Printed(c) + 1
      /\ Returned(c)' = Returned(c)
      /\ Printed(c) + 1 <= msgCount[c]
  <2>1. Printed(c)' = Printed(c) + 1
    BY <1>4, <1>6, <1>8, Zenon DEF Printed
  <2>2. Returned(c)' = Returned(c)
    BY <1>4, <1>6, <1>8, <2>1, Zenon DEF Returned
  <2>3. Printed(c) + 1 <= Returned(c)
    BY <1>4, <1>6, Zenon
  <2>4. \A i, j, k \in Nat : i + 1 <= j /\ j <= k => i + 1 <= k
    OBVIOUS
  <2>5. Returned(c) \in Nat
    BY OneClient, Zenon
  <2> QED BY <1>2, <1>3, <2>1, <2>2, <2>3, <2>4, <2>5, Zenon
<1>10. Order(c)'
  <2>1. (Echoing(c)' <=> Echoing(c)) /\ life[c] # "off"
    BY <1>1, Zenon DEF Echoing, Order
  <2>2. Follows(conn'[c].down, Printed(c)') /\ Follows(rx'[c], 0)
    BY <1>4, <1>6, <1>8, <1>9, Zenon
  <2>3. UNCHANGED <<buf, msgCount, life>> /\ conn[c].srv # "none"
    BY <1>1, Zenon DEF Order
  <2>4. conn'[c].srv = "open" =>
          IF Echoing(c)
          THEN /\ buf[c] = Returned(c) + 1
               /\ Follows(conn[c].up, Returned(c) + 1)
               /\ Returned(c) + 1 + Len(conn[c].up) = msgCount[c]
          ELSE /\ Follows(conn[c].up, Returned(c))
               /\ Returned(c) + Len(conn[c].up) = msgCount[c]
    BY <1>1, <1>8, Zenon DEF Order
  <2>5. conn'[c].srv = "open" =>
          IF Echoing(c)'
          THEN /\ buf'[c] = Returned(c)' + 1
               /\ Follows(conn'[c].up, Returned(c)' + 1)
               /\ Returned(c)' + 1 + Len(conn'[c].up) = msgCount'[c]
          ELSE /\ Follows(conn'[c].up, Returned(c)')
               /\ Returned(c)' + Len(conn'[c].up) = msgCount'[c]
    BY <1>8, <1>9, <2>1, <2>3, <2>4, Zenon
  <2>6. Printed(c)' <= msgCount'[c] /\ Returned(c)' <= msgCount'[c]
    BY <1>2, <1>9, <2>3, Zenon
  <2> QED BY <1>8, <2>1, <2>2, <2>3, <2>5, <2>6 DEF Order, Follows
<1>11. Flow(c)'
  BY <1>1, Zenon DEF Flow, Echoing
<1>12. \A d \in Clients : d # c => Order(d)' /\ Flow(d)'
  BY <1>1, OtherOrder DEF Types
<1> QED BY <1>7, <1>10, <1>11, <1>12

(* A client says its next message.                                         *)
LEMMA ClientWriteableKeeps ==
  ASSUME IInv, NEW c \in Clients, ClientWriteable(c), UNCHANGED serverVars
  PROVE  IInv'
<1> USE DEF IInv
<1>1. /\ conn[c].cli = "open"
      /\ asked' = [asked EXCEPT ![c] = @ \ {"cli"}]
      /\ UNCHANGED <<flowing, buf, life, rx>>
      /\ \/ UNCHANGED <<msgCount, conn>>
         \/ /\ msgCount[c] < 3
            /\ msgCount' = [msgCount EXCEPT ![c] = @ + 1]
            /\ conn' = [conn EXCEPT ![c].up = Append(@, msgCount[c] + 1)]
  BY DEF ClientWriteable, Writable, serverVars
<1>2. /\ asked' \in [Clients -> SUBSET Ends]
      /\ \A d \in Clients : "srv" \in asked'[d] <=> "srv" \in asked[d]
      /\ \A d \in Clients : d # c => asked'[d] = asked[d]
  BY <1>1 DEF Types, Ends
<1>3. CASE UNCHANGED <<msgCount, conn>>
  <2>1. /\ Printed(c)' = Printed(c) /\ Returned(c)' = Returned(c)
        /\ Echoing(c)' <=> Echoing(c)
    BY <1>1, <1>2, <1>3, Zenon DEF Printed, Returned, Echoing
  <2>2. Order(c)'
    BY <1>1, <1>3, <2>1, Zenon DEF Order, Follows, Fresh
  <2>3. flowing'[c] = flowing[c] /\ buf'[c] = buf[c]
    BY <1>1, Zenon
  <2>4. Flow(c)'
    BY <2>1, <2>3, Zenon DEF Flow
  <2>5. Types'
    BY <1>1, <1>2, <1>3 DEF Types
  <2>6. \A d \in Clients : d # c => Order(d)' /\ Flow(d)'
    BY <1>1, <1>2, <1>3, OtherOrder
  <2> QED BY <2>2, <2>4, <2>5, <2>6
<1>4. CASE /\ msgCount[c] < 3
           /\ msgCount' = [msgCount EXCEPT ![c] = @ + 1]
           /\ conn' = [conn EXCEPT ![c].up = Append(@, msgCount[c] + 1)]
  <2>1. /\ conn[c].up \in Seq(Messages) /\ Len(conn[c].up) \in Nat
        /\ msgCount[c] \in 0..3 /\ msgCount[c] \in Nat
        /\ Returned(c) \in Nat /\ Printed(c) \in Nat
    BY OneClient, Zenon
  <2>2. msgCount[c] + 1 \in Messages /\ msgCount[c] + 1 \in 0..3
    BY <1>4, <2>1 DEF Messages
  <2>3. /\ Append(conn[c].up, msgCount[c] + 1) \in Seq(Messages)
        /\ Len(Append(conn[c].up, msgCount[c] + 1)) = Len(conn[c].up) + 1
    BY <2>1, <2>2, AppendProperties
  <2>4. Types'
    <3>1. conn' \in [Clients -> Connections]
      BY <1>4, <2>3, OnePart
    <3> QED BY <1>1, <1>2, <1>4, <2>2, <3>1 DEF Types
  <2>5. /\ conn'[c].cli = "open" /\ conn'[c].srv = conn[c].srv
        /\ conn'[c].up = Append(conn[c].up, msgCount[c] + 1)
        /\ conn'[c].down = conn[c].down
        /\ msgCount'[c] = msgCount[c] + 1
    <3>1. /\ conn'[c] = [conn[c] EXCEPT !.up = Append(conn[c].up, msgCount[c] + 1)]
          /\ msgCount'[c] = msgCount[c] + 1
      BY <1>4 DEF Types
    <3>2. conn[c] = [cli |-> conn[c].cli, srv |-> conn[c].srv,
                     up |-> conn[c].up, down |-> conn[c].down]
      BY OneClient, Zenon
    <3> QED BY <1>1, <3>1, <3>2
  <2>6. /\ Printed(c)' = Printed(c) /\ Returned(c)' = Returned(c)
        /\ Echoing(c)' <=> Echoing(c)
    BY <1>1, <1>2, <2>5, Zenon DEF Printed, Returned, Echoing
  <2>7. /\ Follows(conn[c].down, Printed(c)) /\ Follows(rx[c], 0)
        /\ Printed(c) <= msgCount[c] + 1 /\ Returned(c) <= msgCount[c] + 1
        /\ life[c] # "off" /\ conn[c].srv # "none"
    <3>1. /\ Follows(conn[c].down, Printed(c)) /\ Follows(rx[c], 0)
          /\ Printed(c) <= msgCount[c] /\ Returned(c) <= msgCount[c]
          /\ life[c] # "off" /\ conn[c].srv # "none"
      BY <1>1, Zenon DEF Order
    <3> QED BY <2>1, <3>1
  <2>8. ASSUME conn[c].srv = "open" PROVE Order(c)'
    <3>1. ASSUME Echoing(c)
          PROVE  /\ buf[c] = Returned(c) + 1
                 /\ Follows(conn'[c].up, Returned(c) + 1)
                 /\ Returned(c) + 1 + Len(conn'[c].up) = msgCount[c] + 1
      <4>1. /\ buf[c] = Returned(c) + 1
            /\ Follows(conn[c].up, Returned(c) + 1)
            /\ Returned(c) + 1 + Len(conn[c].up) = msgCount[c]
        BY <1>1, <2>8, <3>1, Zenon DEF Order
      <4>2. /\ Returned(c) + 1 \in Nat
            /\ msgCount[c] + 1 = (Returned(c) + 1) + Len(conn[c].up) + 1
        BY <2>1, <4>1
      <4>3. Follows(Append(conn[c].up, msgCount[c] + 1), Returned(c) + 1)
        BY <2>1, <2>2, <4>1, <4>2, AddNext, Zenon
      <4>4. Returned(c) + 1 + (Len(conn[c].up) + 1) = msgCount[c] + 1
        BY <2>1, <4>1
      <4> QED BY <2>3, <2>5, <4>1, <4>3, <4>4, Zenon
    <3>2. ASSUME ~Echoing(c)
          PROVE  /\ Follows(conn'[c].up, Returned(c))
                 /\ Returned(c) + Len(conn'[c].up) = msgCount[c] + 1
      <4>1. /\ Follows(conn[c].up, Returned(c))
            /\ Returned(c) + Len(conn[c].up) = msgCount[c]
        BY <1>1, <2>8, <3>2, Zenon DEF Order
      <4>2. msgCount[c] + 1 = Returned(c) + Len(conn[c].up) + 1
        BY <2>1, <4>1
      <4>3. Follows(Append(conn[c].up, msgCount[c] + 1), Returned(c))
        BY <2>1, <2>2, <4>1, <4>2, AddNext, Zenon
      <4>4. Returned(c) + (Len(conn[c].up) + 1) = msgCount[c] + 1
        BY <2>1, <4>1
      <4> QED BY <2>3, <2>5, <4>3, <4>4, Zenon
    <3> QED BY <1>1, <2>5, <2>6, <2>7, <3>1, <3>2, Zenon DEF Order, Follows
  <2>9. ASSUME conn[c].srv # "open" PROVE Order(c)'
    BY <1>1, <2>5, <2>6, <2>7, <2>9, Zenon DEF Order, Follows
  <2>10. Flow(c)'
    BY <1>1, <2>6, Zenon DEF Flow
  <2>11. \A d \in Clients : d # c => Order(d)' /\ Flow(d)'
    BY <1>1, <1>2, <1>4, OtherOrder DEF Types
  <2> QED BY <2>4, <2>8, <2>9, <2>10, <2>11
<1> QED BY <1>1, <1>3, <1>4

-----------------------------------------------------------------------------

(* The invariant holds before anybody connected.                           *)
LEMMA InitFits == Init => IInv
<1> SUFFICES ASSUME Init PROVE IInv
  OBVIOUS
<1> USE DEF Init, LwsInit, ServerInit, ClientInit
<1>1. << >> \in Seq(Messages) /\ Len(<< >>) = 0 /\ Follows(<< >>, 0)
  BY EmptySeq DEF Follows
<1>2. Types
  BY <1>1 DEF Types, Connections, Ends
<1>3. ASSUME NEW c \in Clients PROVE Flow(c) /\ Order(c)
  <2>1. /\ conn[c] = [cli |-> "none", srv |-> "none", up |-> << >>, down |-> << >>]
        /\ asked[c] = {} /\ msgCount[c] = 0 /\ rx[c] = << >>
    OBVIOUS
  <2>2. Fresh(c) /\ ~Echoing(c)
    BY <2>1 DEF Fresh, Echoing
  <2>3. Printed(c) = 0
    BY <1>1, <2>1 DEF Printed
  <2> QED BY <1>1, <2>1, <2>2, <2>3 DEF Flow, Order
<1> QED BY <1>2, <1>3 DEF IInv

(* Every step keeps the invariant.                                         *)
LEMMA Inductive == IInv /\ [Next]_vars => IInv'
<1> SUFFICES ASSUME IInv, [Next]_vars PROVE IInv'
  OBVIOUS
<1>1. ASSUME NEW c \in Clients, Callback(c), UNCHANGED clientVars PROVE IInv'
  BY <1>1, OpeningKeeps, ReceiveKeeps, ServerWriteableKeeps, ServerClosingKeeps
     DEF Callback
<1>2. ASSUME Sighdl \/ Destroy, UNCHANGED clientVars PROVE IInv'
  BY <1>2, ServerClosingKeeps
<1>3. ASSUME NEW c \in Clients, ClientStep(c), UNCHANGED serverVars PROVE IInv'
  BY <1>3, ConnectViaInfoKeeps, OpeningKeeps, ClientReceiveKeeps,
     ClientWriteableKeeps, ClientClosingKeeps, AskKeeps DEF ClientStep
<1>4. ASSUME UNCHANGED vars PROVE IInv'
  <2>1. UNCHANGED <<conn, asked, flowing, buf, life, msgCount, rx>>
    BY <1>4 DEF vars, lwsVars, serverVars, clientVars
  <2>2. Types'
    BY <2>1 DEF IInv, Types
  <2>3. \A c \in Clients : Order(c)' /\ Flow(c)'
    BY <2>1, OtherOrder DEF IInv
  <2> QED BY <2>2, <2>3 DEF IInv
<1> QED BY <1>1, <1>2, <1>3, <1>4 DEF Next, ServerStep

(* The messages after k up to l. *)
Stretch(s, k, l) ==
  /\ k \in Nat /\ l \in Nat /\ s \in Seq(Messages)
  /\ Follows(s, k) /\ k + Len(s) = l

(* Two stretches of messages that meet make one.                           *)
LEMMA Joined ==
  ASSUME NEW k, NEW l, NEW m, NEW s, NEW t, Stretch(s, k, l), Stretch(t, l, m)
  PROVE  Stretch(s \o t, k, m)
<1> USE DEF Stretch
<1>1. Len(s) \in Nat /\ Len(t) \in Nat
  BY LenProperties
<1>2. /\ s \o t \in Seq(Messages) /\ Len(s \o t) = Len(s) + Len(t)
      /\ \A i \in 1..Len(s) + Len(t) :
            (s \o t)[i] = IF i <= Len(s) THEN s[i] ELSE t[i - Len(s)]
  BY ConcatProperties
<1>3. ASSUME NEW i \in 1..Len(s) + Len(t) PROVE (s \o t)[i] = k + i
  <2>1. CASE i <= Len(s)
    BY <1>1, <1>2, <2>1 DEF Follows
  <2>2. CASE ~(i <= Len(s))
    <3>1. i - Len(s) \in 1..Len(t) /\ l + (i - Len(s)) = k + i
      BY <1>1, <2>2
    <3> QED BY <1>2, <2>2, <3>1, Zenon DEF Follows
  <2> QED BY <2>1, <2>2
<1>4. k + (Len(s) + Len(t)) = m
  BY <1>1
<1> QED BY <1>2, <1>3, <1>4, Zenon DEF Follows

UpTo(n) == [i \in 1..n |-> i]

(* The first n messages are what was sent. *)
LEMMA FirstMessages ==
  ASSUME NEW n, NEW s, Stretch(s, 0, n) PROVE s = UpTo(n)
<1> USE DEF Stretch
<1>1. Len(s) = n
  BY LenProperties
<1>2. s = [i \in 1..n |-> s[i]]
  BY <1>1, LenProperties
<1>3. \A i \in 1..n : s[i] = i
  BY <1>1 DEF Follows
<1> QED BY <1>2, <1>3 DEF UpTo

(* Where the invariant holds, what is printed and what is under way make up *)
(* what was sent.                                                          *)
LEMMA Ordered == IInv => EchoInOrder
<1> SUFFICES ASSUME IInv, NEW c \in Clients
             PROVE  /\ conn[c].cli = "open" /\ conn[c].srv = "open" =>
                         rx[c] \o UnderWay(c) = Sent(c)
                    /\ \E n \in 0..msgCount[c] : rx[c] = SubSeq(Sent(c), 1, n)
  BY DEF EchoInOrder
<1>1. Types /\ Flow(c) /\ Order(c)
  BY DEF IInv
<1>2. /\ rx[c] \in Seq(Messages)
      /\ conn[c].up \in Seq(Messages) /\ conn[c].down \in Seq(Messages)
      /\ Len(conn[c].up) \in Nat /\ Len(conn[c].down) \in Nat
      /\ msgCount[c] \in Nat /\ Printed(c) \in Nat /\ Returned(c) \in Nat
      /\ Returned(c) = Printed(c) + Len(conn[c].down)
      /\ Printed(c) = Len(rx[c])
  BY <1>1, OneClient, Zenon DEF Printed
<1>3. ASSUME conn[c].cli = "open", conn[c].srv = "open"
      PROVE  rx[c] \o UnderWay(c) = Sent(c)
  <2>1. /\ Stretch(rx[c], 0, Printed(c))
        /\ Stretch(conn[c].down, Printed(c), Returned(c))
    <3>1. Follows(rx[c], 0) /\ Follows(conn[c].down, Printed(c))
      BY <1>1, <1>3, Zenon DEF Order
    <3>2. 0 \in Nat /\ \A k \in Nat : 0 + k = k
      OBVIOUS
    <3> QED BY <1>2, <3>1, <3>2, Zenon DEF Stretch
  <2>2. ASSUME Echoing(c) PROVE rx[c] \o UnderWay(c) = Sent(c)
    <3>1. /\ buf[c] = Returned(c) + 1 /\ buf[c] \in Messages
          /\ Follows(conn[c].up, Returned(c) + 1)
          /\ Returned(c) + 1 + Len(conn[c].up) = msgCount[c]
      BY <1>1, <1>3, <2>2, Zenon DEF Order, Flow
    <3> DEFINE b == <<buf[c]>>
    <3>2. b \in Seq(Messages) /\ Len(b) = 1 /\ b[1] = buf[c]
      BY <3>1
    <3> HIDE DEF b
    <3>3. Follows(b, Returned(c))
      <4>1. \A i \in 1..1 : i = 1
        OBVIOUS
      <4> QED BY <3>1, <3>2, <4>1, Zenon DEF Follows
    <3>4. Returned(c) + 1 \in Nat
      <4>1. \A k \in Nat : k + 1 \in Nat
        OBVIOUS
      <4> QED BY <1>2, <4>1, Zenon
    <3>5. /\ Stretch(b, Returned(c), Returned(c) + 1)
          /\ Stretch(conn[c].up, Returned(c) + 1, msgCount[c])
      BY <1>2, <3>1, <3>2, <3>3, <3>4, Zenon DEF Stretch
    <3>6. rx[c] \o (conn[c].down \o b \o conn[c].up) = UpTo(msgCount[c])
      <4>1. Stretch(conn[c].down \o b, Printed(c), Returned(c) + 1)
        BY <2>1, <3>5, Joined, Zenon
      <4>2. Stretch(conn[c].down \o b \o conn[c].up, Printed(c), msgCount[c])
        BY <3>5, <4>1, Joined, Zenon
      <4>3. Stretch(rx[c] \o (conn[c].down \o b \o conn[c].up), 0, msgCount[c])
        BY <2>1, <4>2, Joined, Zenon
      <4> QED BY <4>3, FirstMessages, Zenon
    <3> QED BY <2>2, <3>6, Zenon DEF UnderWay, Sent, Echoing, b, UpTo
  <2>3. ASSUME ~Echoing(c) PROVE rx[c] \o UnderWay(c) = Sent(c)
    <3>1. /\ Follows(conn[c].up, Returned(c))
          /\ Returned(c) + Len(conn[c].up) = msgCount[c]
      BY <1>1, <1>3, <2>3, Zenon DEF Order
    <3> DEFINE b == << >>
    <3>2. b \in Seq(Messages) /\ Len(b) = 0 /\ Follows(b, Returned(c))
      BY EmptySeq DEF Follows
    <3> HIDE DEF b
    <3>3. Returned(c) + Len(b) = Returned(c)
      <4>1. \A k \in Nat : k + 0 = k
        OBVIOUS
      <4> QED BY <1>2, <3>2, <4>1, Zenon
    <3>4. /\ Stretch(b, Returned(c), Returned(c))
          /\ Stretch(conn[c].up, Returned(c), msgCount[c])
      BY <1>2, <3>1, <3>2, <3>3, Zenon DEF Stretch
    <3>5. rx[c] \o (conn[c].down \o b \o conn[c].up) = UpTo(msgCount[c])
      <4>1. Stretch(conn[c].down \o b, Printed(c), Returned(c))
        BY <2>1, <3>4, Joined, Zenon
      <4>2. Stretch(conn[c].down \o b \o conn[c].up, Printed(c), msgCount[c])
        BY <3>4, <4>1, Joined, Zenon
      <4>3. Stretch(rx[c] \o (conn[c].down \o b \o conn[c].up), 0, msgCount[c])
        BY <2>1, <4>2, Joined, Zenon
      <4> QED BY <4>3, FirstMessages, Zenon
    <3> QED BY <2>3, <3>5, Zenon DEF UnderWay, Sent, Echoing, b, UpTo
  <2> QED BY <2>2, <2>3
<1>4. \E n \in 0..msgCount[c] : rx[c] = SubSeq(Sent(c), 1, n)
  <2>1. Follows(rx[c], 0) /\ Printed(c) \in 0..msgCount[c]
    <3>1. Follows(rx[c], 0) /\ Printed(c) <= msgCount[c]
      BY <1>1, Zenon DEF Order
    <3> QED BY <1>2, <3>1
  <2>2. Sent(c) \in Seq(Nat) /\ Len(Sent(c)) = msgCount[c]
    BY <1>2 DEF Sent
  <2>3. rx[c] = SubSeq(Sent(c), 1, Printed(c))
    <3>1. /\ rx[c] = [i \in 1..Printed(c) |-> rx[c][i]]
          /\ \A i \in 1..Printed(c) : rx[c][i] = i
      BY <1>2, <2>1, LenProperties DEF Follows
    <3>2. /\ SubSeq(Sent(c), 1, Printed(c)) \in Seq(Nat)
          /\ Len(SubSeq(Sent(c), 1, Printed(c))) = Printed(c)
          /\ \A i \in 1..Printed(c) : SubSeq(Sent(c), 1, Printed(c))[i] = Sent(c)[i]
      BY <1>2, <2>1, <2>2, SubSeqProperties
    <3>3. \A i \in 1..Printed(c) : Sent(c)[i] = i
      BY <1>2, <2>1 DEF Sent
    <3> QED BY <3>1, <3>2, <3>3, LenProperties
  <2> QED BY <2>1, <2>3
<1> QED BY <1>3, <1>4

(* Every variable keeps its type; no client says more than it has to say.  *)
THEOREM Typing == Spec => []TypeOK
<1> DEFINE Server == server \in {"run", "exit", "off"}
<1>1. Init => IInv /\ Server
  BY InitFits DEF Init, ServerInit
<1>2. Server /\ [Next]_vars => Server'
  BY DEF Next, ServerStep, Callback, Established, Receive, ServerWriteable, Closed,
         Sighdl, Destroy, serverVars, vars
<1>3. IInv /\ Server => TypeOK
  BY DEF IInv, Types, TypeOK
<1> QED BY <1>1, <1>2, <1>3, Inductive, PTL DEF Spec

(* Messages are neither lost, repeated nor overtaken: flow control holds   *)
(* the next frame back until the buffer is free (server.c:32, 56), for any *)
(* number of clients and whichever ends close when.                        *)
THEOREM InOrder == Spec => []EchoInOrder
<1>1. Init => IInv
  BY InitFits
<1>2. IInv /\ [Next]_vars => IInv'
  BY Inductive
<1>3. IInv => EchoInOrder
  BY Ordered
<1> QED BY <1>1, <1>2, <1>3, PTL DEF Spec

(* A session stops receiving only as long as it has a message to echo and  *)
(* a WRITEABLE callback to do it in: no frame is held back for ever.       *)
HeldForEcho ==
  \A c \in Clients : ~flowing[c] => "srv" \in asked[c] /\ buf[c] \in Messages

(* HeldForEcho: the server stops receiving only as long as a message is in *)
(* the buffer and a WRITEABLE callback asked for, which starts it again    *)
(* (server.c:39-56).                                                       *)
THEOREM HeldAWhile == Spec => []HeldForEcho
<1>1. Init => IInv
  BY InitFits
<1>2. IInv /\ [Next]_vars => IInv'
  BY Inductive
<1>3. IInv => HeldForEcho
  <2> SUFFICES ASSUME IInv, NEW c \in Clients, ~flowing[c]
               PROVE  "srv" \in asked[c] /\ buf[c] \in Messages
    BY DEF HeldForEcho
  <2> QED BY DEF IInv, Flow, Echoing
<1> QED BY <1>1, <1>2, <1>3, PTL DEF Spec

-----------------------------------------------------------------------------
(* The echo each client was promised *)

(* Connections break, one or all the server has, and nothing is said.      *)
LEMMA IsBreak ==
  ASSUME NEW broken \in SUBSET Clients, UNCHANGED <<msgCount, rx>>,
         \A c \in Clients : Link(c)' = IF c \in broken THEN "broken" ELSE Link(c)
  PROVE  Promise!Next
<1>1. Promise!Break(broken)
  BY DEF Promise!Break
<1> QED BY <1>1 DEF Promise!Next

(* A step that leaves every link as it is and says nothing shows nothing.  *)
LEMMA IsStutter ==
  ASSUME UNCHANGED <<msgCount, rx>>, \A c \in Clients : Link(c)' = Link(c)
  PROVE  UNCHANGED Promise!vars
BY DEF Promise!vars

(* Callbacks of the server show a client nothing: CLOSED is about a        *)
(* connection the client itself has left (server.c:25-64).                 *)
LEMMA CallbackSimulates ==
  ASSUME Types, NEW c \in Clients, Callback(c), UNCHANGED clientVars
  PROVE  UNCHANGED Promise!vars
<1>1. UNCHANGED <<msgCount, rx>>
  BY DEF clientVars
<1>2. \A d \in Clients : Link(d)' = Link(d)
  <2>1. CASE Established(c)
    BY <2>1 DEF Types, Connections, Established, Link
  <2>2. CASE Receive(c)
    BY <2>2 DEF Types, Connections, Receive, Link
  <2>3. CASE ServerWriteable(c)
    BY <2>3 DEF Types, Connections, ServerWriteable, Link
  <2>4. CASE Closed(c)
    BY <2>4 DEF Types, Connections, Closed, Link
  <2> QED BY <2>1, <2>2, <2>3, <2>4 DEF Callback
<1> QED BY <1>1, <1>2, IsStutter

(* The server ends: every connection it has breaks (server.c:99).          *)
LEMMA DestroySimulates ==
  ASSUME Types, Destroy, UNCHANGED clientVars PROVE Promise!Next
<1> DEFINE broken == {c \in Clients : conn[c].srv = "open"}
<1>1. UNCHANGED <<msgCount, rx>>
  BY DEF clientVars
<1>2. \A c \in Clients : Link(c)' = IF c \in broken THEN "broken" ELSE Link(c)
  BY DEF Types, Connections, Destroy, Link
<1> QED BY <1>1, <1>2, IsBreak

(* What a client hears is the message after those it heard, and it has     *)
(* said that one (client.c:39-41).                                         *)
LEMMA ClientReceiveIsHear ==
  ASSUME IInv, NEW c \in Clients, ClientReceive(c) PROVE Promise!Next
<1>1. /\ conn[c].cli = "open" /\ conn[c].down # << >>
      /\ rx' = [rx EXCEPT ![c] = Append(@, Head(conn[c].down))]
      /\ conn' = [conn EXCEPT ![c].down = Tail(@)]
      /\ UNCHANGED msgCount
  BY DEF ClientReceive
<1>2. Types /\ Order(c)
  BY DEF IInv
<1>3. /\ Follows(conn[c].down, Printed(c))
      /\ Returned(c) <= msgCount[c]
  BY <1>1, <1>2, Zenon DEF Order
<1>4. /\ conn[c].down \in Seq(Messages) /\ Len(conn[c].down) \in Nat
      /\ Printed(c) \in Nat /\ msgCount[c] \in Nat
      /\ Returned(c) = Printed(c) + Len(conn[c].down)
  BY <1>2, OneClient
<1>5. Head(conn[c].down) = Printed(c) + 1
  BY <1>1, <1>3, <1>4, TakeFirst
<1>6. Len(rx[c]) < msgCount[c]
  <2>1. Len(conn[c].down) > 0
    BY <1>1, <1>4
  <2>2. Printed(c) < msgCount[c]
    BY <1>3, <1>4, <2>1
  <2> QED BY <2>2 DEF Printed
<1>7. \A d \in Clients : Link(d)' = Link(d)
  BY <1>1, <1>2 DEF Types, Connections, Link
<1>8. Link(c) # "none"
  BY <1>1 DEF Link
<1>9. rx' = [rx EXCEPT ![c] = Append(@, Len(@) + 1)]
  BY <1>1, <1>5 DEF Printed
<1>10. Promise!Hear(c)
  BY <1>1, <1>6, <1>7, <1>8, <1>9 DEF Promise!Hear
<1> QED BY <1>10 DEF Promise!Next

(* A WRITEABLE callback says the next message, or nothing more             *)
(* (client.c:42-52).                                                       *)
LEMMA ClientWriteableIsSay ==
  ASSUME IInv, NEW c \in Clients, ClientWriteable(c)
  PROVE  Promise!Next \/ UNCHANGED Promise!vars
<1>1. conn[c].cli = "open" /\ UNCHANGED rx
  BY DEF ClientWriteable, Writable
<1>2. Types
  BY DEF IInv
<1>3. CASE msgCount[c] < 3
  <2>1. /\ msgCount' = [msgCount EXCEPT ![c] = @ + 1]
        /\ conn' = [conn EXCEPT ![c].up = Append(@, msgCount[c] + 1)]
    BY <1>3 DEF ClientWriteable
  <2>2. \A d \in Clients : Link(d)' = Link(d)
    BY <1>2, <2>1 DEF Types, Connections, Link
  <2>3. Link(c) # "none"
    BY <1>1 DEF Link
  <2>4. Promise!Say(c)
    BY <1>1, <1>3, <2>1, <2>2, <2>3 DEF Promise!Say
  <2> QED BY <2>4 DEF Promise!Next
<1>4. CASE ~(msgCount[c] < 3)
  <2>1. UNCHANGED <<msgCount, rx, conn>>
    BY <1>1, <1>4 DEF ClientWriteable
  <2>2. \A d \in Clients : Link(d)' = Link(d)
    BY <2>1 DEF Link
  <2> QED BY <2>1, <2>2, IsStutter
<1> QED BY <1>3, <1>4

(* A client that fails to connect, is told of the end or ends itself       *)
(* breaks its own link; one that starts to connect has none yet            *)
(* (client.c:104-115).                                                     *)
LEMMA ClientBreaks ==
  ASSUME IInv, NEW c \in Clients,
         ConnectViaInfo(c) \/ ClientClosed(c) \/ ClientDestroy(c)
  PROVE  Promise!Next \/ UNCHANGED Promise!vars
<1>1. Types /\ Order(c) /\ UNCHANGED <<msgCount, rx>>
  BY DEF IInv, ConnectViaInfo, ClientClosed, ClientDestroy, clientVars
<1>2. CASE conn'[c].cli = "closed"
  <2>1. \A d \in Clients : Link(d)' = IF d \in {c} THEN "broken" ELSE Link(d)
    <3>1. \A d \in Clients : d # c => conn'[d] = conn[d]
      BY <1>1 DEF Types, ConnectViaInfo, ClientClosed, ClientDestroy
    <3> QED BY <1>2, <3>1 DEF Link
  <2> QED BY <1>1, <2>1, IsBreak
<1>3. CASE conn'[c].cli # "closed"
  <2>1. ConnectViaInfo(c) /\ conn' = [conn EXCEPT ![c].cli = "connecting"]
    BY <1>1, <1>3 DEF Types, Connections, ConnectViaInfo, ClientClosed, ClientDestroy
  <2>2. conn[c].cli = "none"
    BY <1>1, <2>1, Zenon DEF ConnectViaInfo, Order
  <2>3. \A d \in Clients : Link(d)' = Link(d)
    BY <1>1, <2>1, <2>2 DEF Types, Connections, Link
  <2> QED BY <1>1, <2>3, IsStutter
<1> QED BY <1>2, <1>3

(* Every step of the two loops is one of the echo, or shows nothing.       *)
LEMMA NextSimulates ==
  ASSUME IInv, [Next]_vars PROVE Promise!Next \/ UNCHANGED Promise!vars
<1>0. Types
  BY DEF IInv
<1>1. ASSUME NEW c \in Clients, Callback(c), UNCHANGED clientVars
      PROVE  UNCHANGED Promise!vars
  BY <1>0, <1>1, CallbackSimulates
<1>2. ASSUME Destroy, UNCHANGED clientVars PROVE Promise!Next
  BY <1>0, <1>2, DestroySimulates
<1>3. ASSUME NEW c \in Clients, ClientEstablished(c) PROVE Promise!Next
  <2>1. /\ conn[c].cli = "connecting" /\ conn[c].srv = "open"
        /\ conn' = [conn EXCEPT ![c].cli = "open"]
        /\ UNCHANGED <<msgCount, rx>>
    BY <1>3 DEF ClientEstablished, clientVars
  <2>2. /\ Link(c) = "none"
        /\ \A d \in Clients : Link(d)' = IF d = c THEN "open" ELSE Link(d)
    BY <1>0, <2>1 DEF Types, Connections, Link
  <2>3. Promise!Open(c)
    BY <2>1, <2>2 DEF Promise!Open
  <2> QED BY <2>3 DEF Promise!Next
<1>4. ASSUME UNCHANGED <<conn, msgCount, rx>> PROVE UNCHANGED Promise!vars
  BY <1>4, IsStutter DEF Link
<1>5. ASSUME NEW c \in Clients, Ask(c) \/ AskStale(c) \/ ClientSighdl(c)
      PROVE  UNCHANGED <<conn, msgCount, rx>>
  BY <1>5 DEF Ask, AskStale, ClientSighdl, clientVars, lwsVars
<1>6. ASSUME Sighdl, UNCHANGED clientVars PROVE UNCHANGED <<conn, msgCount, rx>>
  BY <1>6 DEF Sighdl, clientVars, lwsVars
<1>7. ASSUME NEW c \in Clients, ClientStep(c)
      PROVE  Promise!Next \/ UNCHANGED Promise!vars
  BY <1>3, <1>4, <1>5, <1>7, ClientReceiveIsHear, ClientWriteableIsSay, ClientBreaks
     DEF ClientStep
<1>8. ASSUME UNCHANGED vars PROVE UNCHANGED <<conn, msgCount, rx>>
  BY <1>8 DEF vars, lwsVars, clientVars
<1> QED BY <1>1, <1>2, <1>4, <1>6, <1>7, <1>8 DEF Next, ServerStep

(* The safety part of ImplementsEchoes, for any number of clients: what a  *)
(* client hears is what it said, in order and each once, and nothing       *)
(* before its link is open (server.c:25-64, client.c:30-117).              *)
THEOREM Refinement == Spec => Promise!Init /\ [][Promise!Next]_Promise!vars
<1>1. Init => IInv
  BY InitFits
<1>2. Init => Promise!Init
  BY DEF Init, LwsInit, ClientInit, Link, Promise!Init
<1>3. IInv /\ [Next]_vars => IInv'
  BY Inductive
<1>4. IInv /\ [Next]_vars => [Promise!Next]_Promise!vars
  BY NextSimulates
<1> QED BY <1>1, <1>2, <1>3, <1>4, PTL DEF Spec
=============================================================================
