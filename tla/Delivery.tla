------------------------------ MODULE Delivery ------------------------------
(***************************************************************************)
(* What src/Kafka/code promises its user, whatever the queue, the retries, *)
(* the reports and the offsets do in between: what is printed about a line *)
(* is printed once, a delivered line is in the topic and a refused one is  *)
(* not, a failed one may be, only lines that were typed reach the topic,   *)
(* and a reader that goes on prints every line that is in the topic.       *)
(***************************************************************************)
CONSTANT Lines

VARIABLES
  typed,    \* the lines typed
  stored,   \* the lines in the topic, once or several times
  told,     \* what the user was told about each line
  reading,  \* the reader runs
  printed   \* the lines it has printed

vars == <<typed, stored, told, reading, printed>>

Init ==
  /\ typed = {}
  /\ stored = {}
  /\ told = [l \in Lines |-> "nothing"]
  /\ reading = FALSE
  /\ printed = {}

Type(l) ==
  /\ l \notin typed
  /\ typed' = typed \cup {l}
  /\ UNCHANGED <<stored, told, reading, printed>>

(* A line may reach the topic while its fate is not known yet, and also    *)
(* after its sender has given it up.                                       *)
Store(l) ==
  /\ l \in typed
  /\ told[l] \in {"nothing", "failed"}
  /\ stored' = stored \cup {l}
  /\ UNCHANGED <<typed, told, reading, printed>>

Refuse(l) ==
  /\ l \in typed \ stored
  /\ told[l] = "nothing"
  /\ told' = [told EXCEPT ![l] = "refused"]
  /\ UNCHANGED <<typed, stored, reading, printed>>

(* Some lines of unknown fate were delivered, of others it is not known. *)
Tell(delivered, failed) ==
  /\ \A l \in delivered \cup failed : told[l] = "nothing"
  /\ delivered \subseteq stored
  /\ failed \subseteq typed
  /\ told' = [l \in Lines |-> IF l \in delivered THEN "delivered"
                              ELSE IF l \in failed THEN "failed" ELSE told[l]]
  /\ UNCHANGED <<typed, stored, reading, printed>>

Begin ==
  /\ ~reading
  /\ reading' = TRUE
  /\ printed' = {}
  /\ UNCHANGED <<typed, stored, told>>

Read(l) ==
  /\ reading
  /\ l \in stored
  /\ printed' = printed \cup {l}
  /\ UNCHANGED <<typed, stored, told, reading>>

Leave ==
  /\ reading
  /\ reading' = FALSE
  /\ UNCHANGED <<typed, stored, told, printed>>

Next ==
  \/ \E l \in Lines : Type(l) \/ Store(l) \/ Refuse(l) \/ Read(l)
  \/ \E delivered, failed \in SUBSET Lines : Tell(delivered, failed)
  \/ Begin
  \/ Leave

Fairness == \A l \in Lines : WF_vars(Read(l))

Spec == Init /\ [][Next]_vars /\ Fairness
=============================================================================
