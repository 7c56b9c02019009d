----------------------------- MODULE EchoServer -----------------------------
(***************************************************************************)
(* server.c: one session per connection with a buffer for one message.     *)
(* The callbacks of the sessions come in any order, from one loop.         *)
(***************************************************************************)
EXTENDS Lws

VARIABLES
  server,  \* "run", "exit" (SIGTERM has come) or "off"
  buf      \* data->buf of each session

serverVars == <<server, buf>>

ServerInit ==
  /\ server = "run"
  /\ buf = [c \in Clients |-> NULL]

Established(c) ==
  /\ server # "off"
  /\ conn[c].cli = "connecting"
  /\ conn[c].srv = "none"
  /\ conn' = [conn EXCEPT ![c].srv = "open"]
  /\ UNCHANGED <<asked, flowing, serverVars>>

(* Mutant: nothing holds the next frame back. *)
ReceiveUnlimited(c) ==
  /\ conn[c].srv = "open"
  /\ flowing[c]
  /\ conn[c].up # << >>
  /\ buf' = [buf EXCEPT ![c] = Head(conn[c].up)]
  /\ conn' = [conn EXCEPT ![c].up = Tail(@)]
  /\ OnWritable(c, "srv")
  /\ UNCHANGED <<flowing, server>>

(* The message is kept, and the next one held back, until it is echoed. *)
Receive(c) ==
  /\ conn[c].srv = "open"
  /\ flowing[c]
  /\ conn[c].up # << >>
  /\ RxFlowControl(c, FALSE)
  /\ buf' = [buf EXCEPT ![c] = Head(conn[c].up)]
  /\ conn' = [conn EXCEPT ![c].up = Tail(@)]
  /\ OnWritable(c, "srv")
  /\ UNCHANGED server

(* Mutant: the client is not listened to again. *)
ServerWriteableOnce(c) ==
  /\ Writable(c, "srv")
  /\ conn' = [conn EXCEPT ![c].down = Append(@, buf[c])]
  /\ UNCHANGED <<flowing, serverVars>>

ServerWriteable(c) ==
  /\ Writable(c, "srv")
  /\ conn' = [conn EXCEPT ![c].down = Append(@, buf[c])]
  /\ RxFlowControl(c, TRUE)
  /\ UNCHANGED serverVars

(* The client is gone. *)
Closed(c) ==
  /\ conn[c].srv = "open"
  /\ conn[c].cli = "closed"
  /\ conn' = [conn EXCEPT ![c].srv = "closed", ![c].up = << >>]
  /\ UNCHANGED <<asked, flowing, serverVars>>

Sighdl ==
  /\ server = "run"
  /\ server' = "exit"
  /\ UNCHANGED <<lwsVars, buf>>

(* The loop ends after the service it is in: lws_context_destroy(). *)
Destroy ==
  /\ server = "exit"
  /\ server' = "off"
  /\ conn' = [c \in Clients |->
                IF conn[c].srv = "open"
                THEN [conn[c] EXCEPT !.srv = "closed", !.up = << >>] ELSE conn[c]]
  /\ UNCHANGED <<asked, flowing, buf>>

Callback(c) ==
  Established(c) \/ Receive(c) \/ ServerWriteable(c) \/ Closed(c)
=============================================================================
