--------------------------- MODULE KafkaProducer ---------------------------
(***************************************************************************)
(* producer.cpp: lines from stdin to the topic.  Delivery reports come     *)
(* only while the program is in poll() or flush().                         *)
(***************************************************************************)
EXTENDS RdKafka

VARIABLES
  pc,        \* "read", "produce", "full", "poll", "flush", "count" or "done"
  typed,     \* the number of lines read
  told,      \* what was printed about each line
  notDelivered  \* the number printed at the end

producerVars == <<pc, typed, told, notDelivered>>

ProducerPCs == {"read", "produce", "full", "poll", "flush", "count", "done"}
Fates       == {"nothing", "refused", "delivered", "failed"}

ProducerInit ==
  /\ pc = "read"
  /\ typed = 0
  /\ told = [l \in Lines |-> "nothing"]
  /\ notDelivered = 0

Goes(from, to) == pc = from /\ pc' = to

ReadLine ==
  /\ Goes("read", "produce")
  /\ typed + 1 \in Lines
  /\ typed' = typed + 1
  /\ UNCHANGED <<kafkaVars, told, notDelivered>>

EndOfInput ==
  /\ Goes("read", "flush")
  /\ UNCHANGED <<kafkaVars, typed, told, notDelivered>>

(* Mutant: dr_cb does not look at err(). *)
ServeIgnoresErr ==
  /\ reports' = << >>
  /\ told' = [l \in Lines |->
                IF \E i \in 1..Len(reports) : reports[i].line = l
                THEN "delivered" ELSE told[l]]
  /\ UNCHANGED <<queue, repeats, late, log, typed, notDelivered>>

(* poll() calls dr_cb for every report there is. *)
Serve ==
  /\ reports' = << >>
  /\ told' = [l \in Lines |->
                IF Report(l, TRUE) \in {reports[i] : i \in 1..Len(reports)}
                THEN "delivered"
                ELSE IF Report(l, FALSE) \in {reports[i] : i \in 1..Len(reports)}
                THEN "failed" ELSE told[l]]
  /\ UNCHANGED <<queue, repeats, late, log, typed, notDelivered>>

(* An empty line is for serving reports only. *)
ReadEmptyLine == Goes("read", "read") /\ reports # << >> /\ Serve

(* Mutant: the line is produced again although it was enqueued. *)
EnqueueTwice ==
  /\ Goes("produce", "produce")
  /\ Outstanding < QueueMax
  /\ typed \notin queue
  /\ queue' = queue \cup {typed}
  /\ UNCHANGED <<reports, repeats, late, log, typed, told, notDelivered>>

Enqueue ==
  /\ Goes("produce", "poll")
  /\ Outstanding < QueueMax
  /\ queue' = queue \cup {typed}
  /\ UNCHANGED <<reports, repeats, late, log, typed, told, notDelivered>>

(* Mutant: a line that finds the queue full is dropped. *)
QueueFullDrops ==
  /\ Goes("produce", "poll")
  /\ Outstanding >= QueueMax
  /\ UNCHANGED <<kafkaVars, typed, told, notDelivered>>

QueueFull ==
  /\ Goes("produce", "full")
  /\ Outstanding >= QueueMax
  /\ UNCHANGED <<kafkaVars, typed, told, notDelivered>>

(* Any other error: the line is given up. *)
Refused ==
  /\ Goes("produce", "poll")
  /\ told' = [told EXCEPT ![typed] = "refused"]
  /\ UNCHANGED <<kafkaVars, typed, notDelivered>>

(* Mutant: retry at once. *)
RetryAtOnce ==
  Goes("full", "produce") /\ UNCHANGED <<kafkaVars, typed, told, notDelivered>>

(* poll(1000) and "goto retry"; the wait may end with nothing served. *)
Retry == Goes("full", "produce") /\ Serve

Poll == Goes("poll", "read") /\ Serve

(* flush() serves reports until nothing is outstanding ... *)
FlushServes == Goes("flush", "flush") /\ reports # << >> /\ Serve

(* ... or ten seconds are over. *)
FlushEnds ==
  /\ Goes("flush", "count")
  /\ UNCHANGED <<kafkaVars, typed, told, notDelivered>>

(* What is left is counted and, with the producer, deleted; some of it may *)
(* be under way to the broker.                                             *)
CountAndDelete ==
  /\ Goes("count", "done")
  /\ notDelivered' = Outstanding
  /\ \E sent \in SUBSET queue : late' = late \cup sent
  /\ queue' = {}
  /\ reports' = << >>
  /\ UNCHANGED <<repeats, log, typed, told>>

ProducerStep ==
  \/ ReadLine \/ EndOfInput \/ ReadEmptyLine
  \/ Enqueue \/ QueueFull \/ Refused \/ Retry \/ Poll
  \/ FlushServes \/ FlushEnds \/ CountAndDelete
=============================================================================
