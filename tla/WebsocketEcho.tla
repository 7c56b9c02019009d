--------------------------- MODULE WebsocketEcho ---------------------------
(***************************************************************************)
(* server.c and several runs of client.c (discovery/ws_test.md).           *)
(***************************************************************************)
EXTENDS EchoServer, EchoClient

vars == <<lwsVars, serverVars, clientVars>>

TypeOK ==
  /\ conn \in [Clients -> Connections]
  /\ asked \in [Clients -> SUBSET Ends]
  /\ flowing \in [Clients -> BOOLEAN]
  /\ server \in {"run", "exit", "off"}
  /\ buf \in [Clients -> Messages \cup {NULL}]
  /\ life \in [Clients -> {"off", "run", "exit", "ended", "crashed"}]
  /\ msgCount \in [Clients -> 0..3]
  /\ rx \in [Clients -> Seq(Messages)]

Init == LwsInit /\ ServerInit /\ ClientInit

ServerStep == (\E c \in Clients : Callback(c)) \/ Sighdl \/ Destroy

Next ==
  \/ ServerStep /\ UNCHANGED clientVars
  \/ \E c \in Clients : ClientStep(c) /\ UNCHANGED serverVars

(* Both loops serve every connection that is ready.  Nobody must connect,  *)
(* and a connection need not fail.                                         *)
Fairness ==
  \A c \in Clients :
    /\ WF_vars((Receive(c) \/ ServerWriteable(c)) /\ UNCHANGED clientVars)
    /\ WF_vars(ClientReceive(c) /\ UNCHANGED serverVars)
    /\ WF_vars(ClientWriteable(c) /\ UNCHANGED serverVars)
    /\ WF_vars(Ask(c) /\ UNCHANGED serverVars)

Spec == Init /\ [][Next]_vars /\ Fairness

-----------------------------------------------------------------------------

Sent(c) == [i \in 1..msgCount[c] |-> i]

(* What a client sent and has not seen again, oldest first. *)
UnderWay(c) ==
  conn[c].down \o (IF "srv" \in asked[c] THEN <<buf[c]>> ELSE << >>) \o conn[c].up

(* No message is lost, repeated, or overtaken while the connection lasts,  *)
(* although a session's buffer holds one message and the client does not   *)
(* wait for an echo before it sends again: flow control does it.  What was *)
(* printed is what was sent first, also when the connection broke.         *)
EchoInOrder ==
  \A c \in Clients :
    /\ conn[c].cli = "open" /\ conn[c].srv = "open" =>
         rx[c] \o UnderWay(c) = Sent(c)
    /\ \E n \in 0..msgCount[c] : rx[c] = SubSeq(Sent(c), 1, n)

(* To each client the pair is an echo: it hears what it said, in order,    *)
(* and while both ends are open it says all it has and hears all of it --  *)
(* the frame held back is let in when the buffer is free again.            *)
Link(c) ==
  IF conn[c].cli = "closed" \/ conn[c].srv = "closed" THEN "broken"
  ELSE IF conn[c].cli = "open" THEN "open" ELSE "none"

Promise ==
  INSTANCE Echoes WITH
    Count <- 3,
    link  <- [c \in Clients |-> Link(c)],
    said  <- msgCount,
    heard <- rx

ImplementsEchoes == Promise!Spec
=============================================================================
