--------------------------- MODULE ClientProcess ---------------------------
(***************************************************************************)
(* What the clients of src/IO_Multiplexing have in common: they connect,   *)
(* say hello, and can be interrupted at any moment (README.md:24).         *)
(*                                                                         *)
(* pc[c] is where client c stands:                                         *)
(*   "off"     no process                                                  *)
(*   "hello"   connected, about to send its first message                  *)
(*   "first"   waits for the first answer                                  *)
(*   "wait"    waits for a later answer                                    *)
(*   "reply"   got an answer, about to send its next message               *)
(*   "asleep"  waits for an event that will not come                       *)
(* An interrupted client may be run again once its connection is gone.     *)
(***************************************************************************)
EXTENDS Tcp

VARIABLES
  pc,
  sent   \* the last message each client sent

clientVars == <<pc, sent>>

PCs == {"off", "hello", "first", "wait", "reply", "asleep"}

(* A message: its sender, its text, and the number an epoll client sends.  *)
Hello(c) == <<c, "hello", 0>>

ClientInit ==
  /\ pc = [c \in Clients |-> "off"]
  /\ sent = [c \in Clients |-> Hello(c)]

Open(c) ==
  /\ pc[c] = "off"
  /\ Connect(c)
  /\ pc' = [pc EXCEPT ![c] = "hello"]
  /\ sent' = [sent EXCEPT ![c] = Hello(c)]

Send(c, msg, next) ==
  /\ conn' = [conn EXCEPT ![c] = AfterSend(@, "cli", <<msg>>)]
  /\ sent' = [sent EXCEPT ![c] = msg]
  /\ pc' = [pc EXCEPT ![c] = next]
  /\ UNCHANGED backlog

SayHello(c) == pc[c] = "hello" /\ Send(c, Hello(c), "first")

Waiting(c) == pc[c] \in {"first", "wait"}

GetsData(c) == Waiting(c) /\ conn[c].rx["cli"] # << >>

GetsEnd(c) ==
  Waiting(c) /\ conn[c].rx["cli"] = << >> /\ Readable(conn[c], "cli")

(* An answer is printed. *)
Receive(c) ==
  /\ GetsData(c)
  /\ conn' = [conn EXCEPT ![c] = AfterRecv(@, "cli")]
  /\ pc' = [pc EXCEPT ![c] = "reply"]
  /\ UNCHANGED <<backlog, sent>>

Exit(c) ==
  /\ conn' = [conn EXCEPT ![c] = AfterClose(@, "cli")]
  /\ pc' = [pc EXCEPT ![c] = "off"]
  /\ UNCHANGED <<backlog, sent>>

(* Ctrl+C: the kernel closes the descriptor. *)
Interrupt(c) == pc[c] # "off" /\ Exit(c)
=============================================================================
