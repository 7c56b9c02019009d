------------------------------- MODULE Echoes -------------------------------
(***************************************************************************)
(* What the pair of src/Websocket/discovery/simple promises each client,   *)
(* whatever the buffers, callbacks and other clients do: it hears what it  *)
(* said, in order and each once, and while the connection lasts it says    *)
(* all it has to say and hears all of it.                                  *)
(***************************************************************************)
EXTENDS Naturals, Sequences

CONSTANTS
  Clients,
  Count     \* the number of messages a client has

VARIABLES
  link,   \* "none", "open" or "broken"
  said,   \* the number of messages said
  heard   \* the messages heard

vars == <<link, said, heard>>

Init ==
  /\ link = [c \in Clients |-> "none"]
  /\ said = [c \in Clients |-> 0]
  /\ heard = [c \in Clients |-> << >>]

Open(c) ==
  /\ link[c] = "none"
  /\ link' = [link EXCEPT ![c] = "open"]
  /\ UNCHANGED <<said, heard>>

(* A broken link may still let through what is on its way. *)
Say(c) ==
  /\ link[c] # "none"
  /\ said[c] < Count
  /\ said' = [said EXCEPT ![c] = @ + 1]
  /\ UNCHANGED <<link, heard>>

Hear(c) ==
  /\ link[c] # "none"
  /\ Len(heard[c]) < said[c]
  /\ heard' = [heard EXCEPT ![c] = Append(@, Len(@) + 1)]
  /\ UNCHANGED <<link, said>>

(* Any set of connections breaks at once, for instance all the server has. *)
Break(broken) ==
  /\ link' = [c \in Clients |-> IF c \in broken THEN "broken" ELSE link[c]]
  /\ UNCHANGED <<said, heard>>

Next ==
  \/ \E c \in Clients : Open(c) \/ Say(c) \/ Hear(c)
  \/ \E broken \in SUBSET Clients : Break(broken)

Fairness ==
  \A c \in Clients :
    /\ WF_vars(link[c] = "open" /\ Say(c))
    /\ WF_vars(link[c] = "open" /\ Hear(c))

Spec == Init /\ [][Next]_vars /\ Fairness
=============================================================================
