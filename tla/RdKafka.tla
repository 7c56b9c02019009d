------------------------------ MODULE RdKafka ------------------------------
(***************************************************************************)
(* What src/Kafka/code/source uses of librdkafka and of the broker: the    *)
(* producer's local queue with its limit, the delivery reports that wait   *)
(* for poll(), and the log of the topic's only partition (Kafka.md:49).    *)
(* A message counts as queued until its report has been served.  Requests  *)
(* are pipelined, so messages may overtake one another; a lost answer      *)
(* makes the library send a message again; after a while it gives up, and  *)
(* a request that was under way may still reach the broker after that.     *)
(***************************************************************************)
EXTENDS Integers, Sequences, FiniteSets

CONSTANTS
  Lines,      \* the lines that may be typed, numbered in order
  QueueMax,   \* queue.buffering.max.messages
  MaxRepeats  \* bound: answers of the broker that are lost

ASSUME RdKafkaAssumption ==
  /\ Lines \subseteq Nat \ {0}
  /\ QueueMax \in Nat \ {0}
  /\ MaxRepeats \in Nat

VARIABLES
  queue,     \* the messages not yet acknowledged
  reports,   \* the delivery reports not yet served
  repeats,   \* the answers lost so far
  late,      \* the messages given up whose request is still under way
  log        \* the log of the partition

kafkaVars == <<queue, reports, repeats, late, log>>

Report(l, ok) == [line |-> l, ok |-> ok]

KafkaInit ==
  /\ queue = {}
  /\ reports = << >>
  /\ repeats = 0
  /\ late = {}
  /\ log = << >>

(* outq_len() *)
Outstanding == Cardinality(queue) + Len(reports)

Logged == {log[i] : i \in 1..Len(log)}

Deliver(l) ==
  /\ l \in queue
  /\ log' = Append(log, l)
  /\ queue' = queue \ {l}
  /\ reports' = Append(reports, Report(l, TRUE))
  /\ UNCHANGED <<repeats, late>>

AnswerLost(l) ==
  /\ l \in queue
  /\ repeats < MaxRepeats
  /\ repeats' = repeats + 1
  /\ log' = Append(log, l)
  /\ UNCHANGED <<queue, reports, late>>

GiveUp(l) ==
  /\ l \in queue
  /\ queue' = queue \ {l}
  /\ reports' = Append(reports, Report(l, FALSE))
  /\ late' \in {late, late \cup {l}}
  /\ UNCHANGED <<repeats, log>>

(* The broker stores a message the producer knows nothing of any more.     *)
StoreLate(l) ==
  /\ l \in late
  /\ log' = Append(log, l)
  /\ late' = late \ {l}
  /\ UNCHANGED <<queue, reports, repeats>>
=============================================================================
