-------------------------------- MODULE Lws --------------------------------
(***************************************************************************)
(* What src/Websocket/discovery/simple uses of libwebsockets: a connection *)
(* between each client and the server, frames in both directions, requests *)
(* for a WRITEABLE callback, and the flow control of what the server       *)
(* receives.  A closed end stays closed; what was on its way may be lost.  *)
(***************************************************************************)
EXTENDS Naturals, Sequences

CONSTANTS
  Clients,  \* the runs of client.c
  NULL

VARIABLES
  conn,    \* the connection of each client
  asked,   \* the ends of it that are to get a WRITEABLE callback
  flowing  \* whether the server receives from it

lwsVars == <<conn, asked, flowing>>

Ends == {"cli", "srv"}

Messages == {1, 2, 3}  \* "danielzpp1" to "danielzpp3"

Connections ==
  [cli  : {"none", "connecting", "open", "closed"},
   srv  : {"none", "open", "closed"},
   up   : Seq(Messages),
   down : Seq(Messages)]

LwsInit ==
  /\ conn = [c \in Clients |-> [cli |-> "none", srv |-> "none",
                                up |-> << >>, down |-> << >>]]
  /\ asked = [c \in Clients |-> {}]
  /\ flowing = [c \in Clients |-> TRUE]

(* lws_callback_on_writable() *)
OnWritable(c, end) == asked' = [asked EXCEPT ![c] = @ \cup {end}]

(* A WRITEABLE callback answers one request or several. *)
Writable(c, end) ==
  /\ conn[c][end] = "open"
  /\ end \in asked[c]
  /\ asked' = [asked EXCEPT ![c] = @ \ {end}]

(* lws_rx_flow_control() *)
RxFlowControl(c, on) == flowing' = [flowing EXCEPT ![c] = on]
=============================================================================
