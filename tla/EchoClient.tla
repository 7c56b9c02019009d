----------------------------- MODULE EchoClient -----------------------------
(***************************************************************************)
(* client.c: three messages, each in a WRITEABLE callback the loop asks    *)
(* for again and again, also when the connection is gone and wsi dangles.  *)
(***************************************************************************)
EXTENDS Lws

VARIABLES
  life,      \* "off", "run", "exit" (SIGTERM has come), "ended" or "crashed"
  msgCount,  \* data->msg_count
  rx         \* the echoes printed

clientVars == <<life, msgCount, rx>>

ClientInit ==
  /\ life = [c \in Clients |-> "off"]
  /\ msgCount = [c \in Clients |-> 0]
  /\ rx = [c \in Clients |-> << >>]

InLoop(c) == life[c] \in {"run", "exit"}

(* lws_client_connect_via_info(), which may fail at once. *)
ConnectViaInfo(c) ==
  /\ life[c] = "off"
  /\ life' = [life EXCEPT ![c] = "run"]
  /\ \E st \in {"connecting", "closed"} : conn' = [conn EXCEPT ![c].cli = st]
  /\ UNCHANGED <<asked, flowing, msgCount, rx>>

ClientEstablished(c) ==
  /\ InLoop(c)
  /\ conn[c].cli = "connecting"
  /\ conn[c].srv = "open"
  /\ conn' = [conn EXCEPT ![c].cli = "open"]
  /\ UNCHANGED <<asked, flowing, clientVars>>

ClientReceive(c) ==
  /\ InLoop(c)
  /\ conn[c].cli = "open"
  /\ conn[c].down # << >>
  /\ rx' = [rx EXCEPT ![c] = Append(@, Head(conn[c].down))]
  /\ conn' = [conn EXCEPT ![c].down = Tail(@)]
  /\ UNCHANGED <<asked, flowing, life, msgCount>>

ClientWriteable(c) ==
  /\ InLoop(c)
  /\ Writable(c, "cli")
  /\ IF msgCount[c] < 3
     THEN /\ msgCount' = [msgCount EXCEPT ![c] = @ + 1]
          /\ conn' = [conn EXCEPT ![c].up = Append(@, msgCount[c] + 1)]
     ELSE UNCHANGED <<msgCount, conn>>
  /\ UNCHANGED <<flowing, life, rx>>

(* The connection fails, or the server has closed it: wsi is freed, and    *)
(* the callback does not tell the loop.                                    *)
ClientClosed(c) ==
  /\ InLoop(c)
  /\ conn[c].cli = "connecting" \/ (conn[c].cli = "open" /\ conn[c].srv = "closed")
  /\ conn' = [conn EXCEPT ![c].cli = "closed", ![c].down = << >>]
  /\ UNCHANGED <<asked, flowing, clientVars>>

(* The call at the end of the loop. *)
Ask(c) ==
  /\ InLoop(c)
  /\ conn[c].cli # "closed"
  /\ OnWritable(c, "cli")
  /\ UNCHANGED <<conn, flowing, clientVars>>

(* The same call with a wsi that is NULL or freed: the memory may look     *)
(* like a connection, and nothing happens, or the client crashes.          *)
AskStale(c) ==
  /\ InLoop(c)
  /\ conn[c].cli = "closed"
  /\ life' = [life EXCEPT ![c] = "crashed"]
  /\ UNCHANGED <<lwsVars, msgCount, rx>>

ClientSighdl(c) ==
  /\ life[c] = "run"
  /\ life' = [life EXCEPT ![c] = "exit"]
  /\ UNCHANGED <<lwsVars, msgCount, rx>>

ClientDestroy(c) ==
  /\ life[c] = "exit"
  /\ life' = [life EXCEPT ![c] = "ended"]
  /\ conn' = [conn EXCEPT ![c].cli = "closed", ![c].down = << >>]
  /\ UNCHANGED <<asked, flowing, msgCount, rx>>

ClientStep(c) ==
  \/ ConnectViaInfo(c)
  \/ ClientEstablished(c)
  \/ ClientReceive(c)
  \/ ClientWriteable(c)
  \/ ClientClosed(c)
  \/ Ask(c)
  \/ AskStale(c)
  \/ ClientSighdl(c)
  \/ ClientDestroy(c)
=============================================================================
