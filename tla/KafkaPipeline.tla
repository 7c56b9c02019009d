--------------------------- MODULE KafkaPipeline ---------------------------
(***************************************************************************)
(* producer.cpp, the broker, and consumer.cpp.  The consumer begins at the *)
(* first offset and stores none: when it is stopped and started it reads   *)
(* everything again.  Neither program ends the other.                      *)
(***************************************************************************)
EXTENDS KafkaProducer

VARIABLES
  consuming,  \* consumer.cpp runs
  offset,     \* of the next message
  printed     \* the lines this run of the consumer printed

consumerVars == <<consuming, offset, printed>>

vars == <<kafkaVars, producerVars, consumerVars>>

TypeOK ==
  /\ queue \subseteq Lines
  /\ reports \in Seq([line : Lines, ok : BOOLEAN])
  /\ Outstanding <= QueueMax
  /\ repeats \in 0..MaxRepeats
  /\ late \subseteq Lines
  /\ log \in Seq(Lines)
  /\ pc \in ProducerPCs
  /\ typed \in {0} \cup Lines
  /\ told \in [Lines -> Fates]
  /\ notDelivered \in 0..QueueMax
  /\ consuming \in BOOLEAN
  /\ offset \in 0..Len(log)
  /\ printed \subseteq Lines

Init ==
  /\ KafkaInit
  /\ ProducerInit
  /\ consuming = FALSE
  /\ offset = 0
  /\ printed = {}

(* Mutant: OFFSET_END. *)
StartAtEnd ==
  /\ ~consuming
  /\ consuming' = TRUE
  /\ offset' = Len(log)
  /\ printed' = {}
  /\ UNCHANGED <<kafkaVars, producerVars>>

Start ==
  /\ ~consuming
  /\ consuming' = TRUE
  /\ offset' = 0
  /\ printed' = {}
  /\ UNCHANGED <<kafkaVars, producerVars>>

(* Mutant: the offset moves on when consume() timed out as well. *)
ConsumeCountsTimeouts ==
  /\ consuming
  /\ offset' = offset + 1
  /\ printed' = IF offset < Len(log) THEN printed \cup {log[offset + 1]} ELSE printed
  /\ UNCHANGED <<kafkaVars, producerVars, consuming>>

(* A timeout of consume() prints a line and changes nothing. *)
Consume ==
  /\ consuming
  /\ offset < Len(log)
  /\ offset' = offset + 1
  /\ printed' = printed \cup {log[offset + 1]}
  /\ UNCHANGED <<kafkaVars, producerVars, consuming>>

Stop ==
  /\ consuming
  /\ consuming' = FALSE
  /\ UNCHANGED <<kafkaVars, producerVars, offset, printed>>

Producer == ProducerStep /\ UNCHANGED consumerVars

Library ==
  /\ \E l \in Lines : Deliver(l) \/ AnswerLost(l) \/ GiveUp(l) \/ StoreLate(l)
  /\ UNCHANGED <<producerVars, consumerVars>>

Next == Producer \/ Library \/ Start \/ Consume \/ Stop

Settle(l) ==
  (Deliver(l) \/ GiveUp(l)) /\ UNCHANGED <<producerVars, consumerVars>>

(* The programs run on; the user's input ends; the library delivers each   *)
(* message or gives it up.                                                 *)
Fairness ==
  /\ WF_vars(Producer)
  /\ \A l \in Lines : WF_vars(Settle(l))
  /\ WF_vars(Consume)

Spec == Init /\ [][Next]_vars /\ Fairness

-----------------------------------------------------------------------------

InHand == IF pc \in {"produce", "full"} THEN {typed} ELSE {}

Reported == {reports[i].line : i \in 1..Len(reports)}

(* The places where line l is. *)
Places(l) ==
  (IF l \in InHand THEN {"hand"} ELSE {})
    \cup (IF l \in queue THEN {"queue"} ELSE {})
    \cup (IF l \in Reported THEN {"reports"} ELSE {})
    \cup (IF told[l] # "nothing" THEN {"told"} ELSE {})

(* A line read is in exactly one place until its fate is printed: in hand, *)
(* in the queue or in a report.  The retry at a full queue neither repeats *)
(* a line nor forgets it.                                                  *)
OnePlace ==
  pc # "done" =>
    \A l \in Lines : Cardinality(Places(l)) = IF l <= typed THEN 1 ELSE 0

(* At the end the user can account for every line: the ones nothing was    *)
(* printed about are as many as the number printed.                        *)
Accounted ==
  pc = "done" =>
    notDelivered = Cardinality({l \in Lines : l <= typed /\ told[l] = "nothing"})

(* A full queue holds a line up for a while only.                          *)
Accepted == pc = "produce" ~> pc = "poll"

(* To its user the pipeline is the delivery of lines: a line said to be    *)
(* delivered is in the log, what is said of a line is never taken back, a  *)
(* refused line stays out of the log, a failed one may still get there,    *)
(* and a run of the consumer that goes on prints whatever is in the log,   *)
(* whether it was delivered before the run began or later.                 *)
User ==
  INSTANCE Delivery WITH
    typed   <- {l \in Lines : l <= typed},
    stored  <- Logged,
    reading <- consuming

ImplementsDelivery == User!Spec
=============================================================================
