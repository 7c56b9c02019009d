--------------------------- MODULE Conversations ---------------------------
(***************************************************************************)
(* What the servers of src/IO_Multiplexing promise each client, whatever   *)
(* the others do: the two talk in turns, and the answer is the reply to    *)
(* what this client said last.  Either of them may leave at any moment.    *)
(* How descriptors, buffers and events are shared is invisible here.       *)
(***************************************************************************)
EXTENDS Sequences

CONSTANTS
  Clients,
  Reply(_), \* what the server answers to what was said
  Words     \* what a client may say: a text and a number

VARIABLES
  turn,  \* whose turn it is: "client", "server", or "answer" on its way
  word   \* what is on its way between the two, << >> when nothing is

vars == <<turn, word>>

Init ==
  /\ turn = [c \in Clients |-> "client"]
  /\ word = [c \in Clients |-> << >>]

Say(c) ==
  /\ turn[c] = "client"
  /\ turn' = [turn EXCEPT ![c] = "server"]
  /\ \E w \in Words : word' = [word EXCEPT ![c] = << <<c>> \o w >>]

Answer(c) ==
  /\ turn[c] = "server"
  /\ turn' = [turn EXCEPT ![c] = "answer"]
  /\ word' = [word EXCEPT ![c] = Reply(@)]

Hear(c) ==
  /\ turn[c] = "answer"
  /\ turn' = [turn EXCEPT ![c] = "client"]
  /\ word' = [word EXCEPT ![c] = << >>]

(* A client leaves, ... *)
Leave(c) ==
  /\ turn' = [turn EXCEPT ![c] = "client"]
  /\ word' = [word EXCEPT ![c] = << >>]

(* ... or the server: answers already sent still arrive. *)
ServerLeaves ==
  /\ turn' = [c \in Clients |-> IF turn[c] = "server" THEN "client" ELSE turn[c]]
  /\ word' = [c \in Clients |-> IF turn[c] = "server" THEN << >> ELSE word[c]]

Next ==
  \/ \E c \in Clients : Say(c) \/ Answer(c) \/ Hear(c) \/ Leave(c)
  \/ ServerLeaves

Spec == Init /\ [][Next]_vars
=============================================================================
