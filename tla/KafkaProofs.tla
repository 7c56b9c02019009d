----------------------------- MODULE KafkaProofs -----------------------------
(***************************************************************************)
(* No line typed into producer.cpp is lost track of, and what the user is  *)
(* told is true: for any number of lines, any size of the queue and any    *)
(* number of lost answers.                                                 *)
(***************************************************************************)
EXTENDS KafkaPipeline, FiniteSetTheorems, SequenceTheorems, TLAPS

Reports == [line : Lines, ok : BOOLEAN]

ReportSet == {reports[i] : i \in 1..Len(reports)}

Types ==
  /\ queue \subseteq Lines
  /\ reports \in Seq(Reports)
  /\ late \subseteq Lines
  /\ log \in Seq(Lines)
  /\ pc \in ProducerPCs
  /\ typed \in {0} \cup Lines
  /\ told \in [Lines -> Fates]
  /\ pc \in {"produce", "full"} => typed \in Lines

(* A line that is in hand, in the queue or in a report is nowhere else,    *)
(* and nothing was printed about it.                                       *)
Apart ==
  /\ \A l \in InHand : l \notin queue /\ l \notin Reported /\ told[l] = "nothing"
  /\ \A l \in queue : l \notin Reported /\ told[l] = "nothing" /\ l <= typed
  /\ \A l \in Reported : told[l] = "nothing" /\ l <= typed
  /\ \A l \in Lines : l > typed => told[l] = "nothing"

(* No line that was read is nowhere. *)
NoneLost ==
  pc # "done" =>
    \A l \in Lines : l <= typed =>
      l \in InHand \/ l \in queue \/ l \in Reported \/ told[l] # "nothing"

(* The log has what is reported, and nothing that was not yet produced. *)
Truth ==
  /\ \A l \in InHand : l \notin Logged
  /\ \A l \in Lines : l > typed => l \notin Logged
  /\ \A l \in Lines : Report(l, TRUE) \in ReportSet => l \in Logged
  /\ \A l \in Lines : told[l] = "delivered" => l \in Logged
  /\ \A l \in Lines : told[l] = "refused" => l \notin Logged

(* A message under way after it was given up is neither to be sent again   *)
(* nor said to be delivered or refused.                                    *)
GivenUp ==
  \A l \in late :
    /\ l \notin InHand /\ l \notin queue /\ l <= typed
    /\ Report(l, TRUE) \notin ReportSet
    /\ told[l] \in {"nothing", "failed"}

IInv == Types /\ Apart /\ NoneLost /\ Truth /\ GivenUp

-----------------------------------------------------------------------------
(* Sequences of reports and of lines *)

(* Appending to a sequence adds to its elements.                           *)
LEMMA AppendElements ==
  ASSUME NEW S, NEW s \in Seq(S), NEW e \in S
  PROVE  {Append(s, e)[i] : i \in 1..Len(Append(s, e))}
           = {s[i] : i \in 1..Len(s)} \cup {e}
BY AppendProperties

(* A line is reported when one of the two reports about it waits. *)
LEMMA ReportedIff ==
  ASSUME Types
  PROVE  \A l \in Lines :
           l \in Reported <=> Report(l, TRUE) \in ReportSet
                              \/ Report(l, FALSE) \in ReportSet
<1> SUFFICES ASSUME NEW l \in Lines
             PROVE  l \in Reported <=> Report(l, TRUE) \in ReportSet
                                       \/ Report(l, FALSE) \in ReportSet
  OBVIOUS
<1>1. \A i \in 1..Len(reports) :
        /\ reports[i] = Report(reports[i].line, reports[i].ok)
        /\ reports[i].ok \in BOOLEAN
  <2>1. \A i \in 1..Len(reports) : reports[i] \in Reports
    BY ElementOfSeq DEF Types
  <2> QED BY <2>1 DEF Reports, Report
<1>2. \A i \in 1..Len(reports) : reports[i].ok = TRUE \/ reports[i].ok = FALSE
  BY <1>1, Zenon
<1>3. ASSUME l \in Reported
      PROVE  Report(l, TRUE) \in ReportSet \/ Report(l, FALSE) \in ReportSet
  <2>1. PICK i \in 1..Len(reports) : reports[i].line = l
    BY <1>3 DEF Reported
  <2> QED BY <1>1, <1>2, <2>1, Zenon DEF ReportSet
<1>4. ASSUME NEW ok \in BOOLEAN, Report(l, ok) \in ReportSet
      PROVE  l \in Reported
  <2>1. PICK i \in 1..Len(reports) : reports[i] = Report(l, ok)
    BY <1>4 DEF ReportSet
  <2> QED BY <2>1 DEF Reported, Report
<1> QED BY <1>3, <1>4

(* Reports are about lines.                                                *)
LEMMA ReportedLines == Types => Reported \subseteq Lines
<1> SUFFICES ASSUME Types, NEW i \in 1..Len(reports) PROVE reports[i].line \in Lines
  BY DEF Reported
<1>1. reports[i] \in Reports
  BY ElementOfSeq DEF Types
<1> QED BY <1>1 DEF Reports

(* A new report, and an empty list of them. *)
LEMMA NewReport ==
  ASSUME Types, NEW l \in Lines, NEW ok \in BOOLEAN,
         reports' = Append(reports, Report(l, ok))
  PROVE  /\ reports' \in Seq(Reports)
         /\ ReportSet' = ReportSet \cup {Report(l, ok)}
         /\ Reported' = Reported \cup {l}
<1>1. Report(l, ok) \in Reports /\ Report(l, ok).line = l
  BY DEF Report, Reports
<1>2. ReportSet' = ReportSet \cup {Report(l, ok)}
  BY <1>1, AppendElements DEF ReportSet, Types
<1>3. reports' \in Seq(Reports)
  BY <1>1, AppendProperties DEF Types
<1>4. Reported = {r.line : r \in ReportSet} /\ Reported' = {r.line : r \in ReportSet'}
  BY DEF Reported, ReportSet
<1> QED BY <1>1, <1>2, <1>3, <1>4

(* Reports served are gone.                                                *)
LEMMA NoReports ==
  ASSUME reports' = << >>
  PROVE  reports' \in Seq(Reports) /\ ReportSet' = {} /\ Reported' = {}
BY DEF ReportSet, Reported

(* A line stored is in the log.                                            *)
LEMMA NewInLog ==
  ASSUME Types, NEW l \in Lines, log' = Append(log, l)
  PROVE  log' \in Seq(Lines) /\ Logged' = Logged \cup {l}
BY AppendElements, AppendProperties DEF Logged, Types

(* What is reported and logged changes with the reports and the log only.  *)
LEMMA Same ==
  /\ UNCHANGED reports => UNCHANGED <<Reported, ReportSet>>
  /\ UNCHANGED log => UNCHANGED Logged
BY DEF Reported, ReportSet, Logged

-----------------------------------------------------------------------------
(* Every step keeps the invariant: the steps of the producer, ...          *)

(* Lines are counted from one.                                             *)
LEMMA LinesAreNumbers ==
  Lines \subseteq Nat /\ 0 \notin Lines
BY RdKafkaAssumption

(* A line is read.                                                         *)
LEMMA ReadLineKeeps == ASSUME IInv, ReadLine PROVE IInv'
<1> USE DEF IInv
<1>1. UNCHANGED <<queue, reports, late, log, told, Reported, ReportSet, Logged>>
  BY Same DEF ReadLine, kafkaVars
<1>2. /\ pc = "read" /\ pc' = "produce" /\ typed' = typed + 1 /\ typed' \in Lines
      /\ InHand = {} /\ InHand' = {typed'}
      /\ typed \in Nat
  BY LinesAreNumbers DEF ReadLine, Goes, InHand, Types
<1>3. Types'
  BY <1>1, <1>2 DEF Types, ProducerPCs
<1>4. typed' \notin queue /\ typed' \notin Reported /\ told[typed'] = "nothing"
      /\ typed' \notin Logged
  BY <1>2, ReportedLines, LinesAreNumbers DEF Apart, Truth, Types
<1>5. Apart'
  <2>1. \A l \in Lines : (l > typed' => l > typed) /\ (l <= typed => l <= typed')
    BY <1>2, LinesAreNumbers
  <2>2. queue \subseteq Lines /\ Reported \subseteq Lines
    BY ReportedLines DEF Types
  <2> QED BY <1>1, <1>2, <1>4, <2>1, <2>2 DEF Apart
<1>6. NoneLost'
  BY <1>1, <1>2, LinesAreNumbers DEF NoneLost, Types
<1>7. Truth'
  <2>1. \A l \in Lines : l > typed' => l > typed
    BY <1>2, LinesAreNumbers
  <2> QED BY <1>1, <1>2, <1>4, <2>1 DEF Truth
<1>8. GivenUp'
  <2>1. \A l \in late : l <= typed' /\ l # typed'
    <3>1. \A l \in late : l \in Nat /\ l <= typed
      BY LinesAreNumbers DEF GivenUp, Types
    <3> QED BY <1>2, <3>1
  <2> QED BY <1>1, <1>2, <2>1 DEF GivenUp
<1> QED BY <1>3, <1>5, <1>6, <1>7, <1>8

(* no line changes its place,                                              *)
LEMMA StaysKeeps ==
  ASSUME IInv, EndOfInput \/ QueueFull \/ FlushEnds PROVE IInv'
<1> USE DEF IInv
<1>1. /\ UNCHANGED <<queue, reports, late, log, typed, told, Reported, ReportSet, Logged>>
      /\ pc \notin {"done"} /\ InHand' = InHand
      /\ pc' \in ProducerPCs /\ (pc' \in {"produce", "full"} => pc = "produce")
  BY Same DEF EndOfInput, QueueFull, FlushEnds, kafkaVars, Goes, InHand, ProducerPCs
<1>2. Types'
  BY <1>1 DEF Types
<1>3. Apart' /\ NoneLost' /\ Truth' /\ GivenUp'
  BY <1>1 DEF Apart, NoneLost, Truth, GivenUp
<1> QED BY <1>2, <1>3

(* the line in hand goes to the queue,                                     *)
LEMMA EnqueueKeeps == ASSUME IInv, Enqueue PROVE IInv'
<1> USE DEF IInv
<1>1. /\ UNCHANGED <<reports, late, log, typed, told, Reported, ReportSet, Logged>>
      /\ queue' = queue \cup {typed}
      /\ pc = "produce" /\ pc' = "poll" /\ InHand = {typed} /\ InHand' = {}
      /\ typed \in Lines
  BY Same DEF Enqueue, Goes, InHand, Types
<1>2. Types'
  BY <1>1 DEF Types, ProducerPCs
<1>3. Apart'
  BY <1>1, LinesAreNumbers DEF Apart
<1>4. NoneLost'
  BY <1>1 DEF NoneLost
<1>5. Truth'
  BY <1>1 DEF Truth
<1>6. GivenUp'
  BY <1>1 DEF GivenUp
<1> QED BY <1>2, <1>3, <1>4, <1>5, <1>6

(* or is given up.                                                         *)
LEMMA RefusedKeeps == ASSUME IInv, Refused PROVE IInv'
<1> USE DEF IInv
<1>1. /\ UNCHANGED <<queue, reports, late, log, typed, Reported, ReportSet, Logged>>
      /\ told' = [told EXCEPT ![typed] = "refused"]
      /\ pc = "produce" /\ pc' = "poll" /\ InHand = {typed} /\ InHand' = {}
      /\ typed \in Lines
  BY Same DEF Refused, kafkaVars, Goes, InHand, Types
<1>2. Types'
  BY <1>1 DEF Types, ProducerPCs, Fates
<1>3. told'[typed] = "refused" /\ \A l \in Lines : l # typed => told'[l] = told[l]
  BY <1>1 DEF Types
<1>4. Apart'
  <2>1. typed \notin queue /\ typed \notin Reported
    BY <1>1 DEF Apart
  <2>2. \A l \in Reported : l \in Lines /\ l # typed
    BY <2>1, ReportedLines
  <2>3. \A l \in queue : l \in Lines /\ l # typed
    BY <2>1 DEF Types
  <2> QED BY <1>1, <1>3, <2>2, <2>3, LinesAreNumbers DEF Apart
<1>5. NoneLost'
  BY <1>1, <1>3 DEF NoneLost
<1>6. Truth'
  <2>1. typed \notin Logged
    BY <1>1 DEF Truth
  <2> QED BY <1>1, <1>3, <2>1 DEF Truth
<1>7. GivenUp'
  BY <1>1, <1>3 DEF GivenUp, Types
<1> QED BY <1>2, <1>4, <1>5, <1>6, <1>7

(* Reports are told to the user, whatever else the step is about: the line *)
(* in hand stays in hand.                                                  *)
LEMMA ServeKeeps ==
  ASSUME IInv, Serve, pc # "done", pc' # "done", pc' \in ProducerPCs,
         UNCHANGED InHand, pc' \in {"produce", "full"} => pc = "full"
  PROVE  IInv'
<1> USE DEF IInv
<1>1. /\ UNCHANGED <<queue, late, log, typed, Logged>>
      /\ reports' \in Seq(Reports) /\ ReportSet' = {} /\ Reported' = {}
  BY Same, NoReports DEF Serve
<1>2. \A l \in Lines :
        told'[l] = IF Report(l, TRUE) \in ReportSet THEN "delivered"
                   ELSE IF Report(l, FALSE) \in ReportSet THEN "failed"
                   ELSE told[l]
  BY DEF Serve, ReportSet
<1>3. \A l \in Lines : l \notin Reported => told'[l] = told[l]
  BY <1>2, ReportedIff
<1>4. \A l \in Lines : l \in Reported => told'[l] \in {"delivered", "failed"}
  BY <1>2, ReportedIff
<1>5. Types'
  <2>1. told' \in [Lines -> Fates]
    BY DEF Serve, Types, Fates
  <2> QED BY <1>1, <2>1 DEF Types
<1>6. InHand \subseteq Lines
  BY DEF InHand, Types
<1>7. Apart'
  BY <1>1, <1>3, <1>6, LinesAreNumbers DEF Apart, Types
<1>8. NoneLost'
  BY <1>1, <1>3, <1>4 DEF NoneLost
<1>9. Truth'
  <2>1. \A l \in Lines : told'[l] = "delivered" => l \in Logged
    BY <1>2 DEF Truth
  <2>2. \A l \in Lines : told'[l] = "refused" => l \notin Logged
    BY <1>2 DEF Truth
  <2> QED BY <1>1, <2>1, <2>2 DEF Truth
<1>10. GivenUp'
  BY <1>1, <1>2 DEF GivenUp, Types
<1> QED BY <1>5, <1>7, <1>8, <1>9, <1>10

(* The lines left are counted and the producer is deleted.                 *)
LEMMA CountAndDeleteKeeps == ASSUME IInv, CountAndDelete PROVE IInv'
<1> USE DEF IInv
<1>1. /\ UNCHANGED <<log, typed, told, Logged>>
      /\ queue' = {} /\ pc' = "done" /\ InHand' = {}
      /\ reports' \in Seq(Reports) /\ ReportSet' = {} /\ Reported' = {}
  BY Same, NoReports DEF CountAndDelete, Goes, InHand
<1>2. late' \subseteq late \cup queue
  BY DEF CountAndDelete
<1>3. Types'
  BY <1>1, <1>2 DEF Types, ProducerPCs
<1>4. Apart' /\ NoneLost' /\ Truth'
  BY <1>1 DEF Apart, NoneLost, Truth
<1>5. GivenUp'
  BY <1>1, <1>2 DEF GivenUp, Apart
<1> QED BY <1>3, <1>4, <1>5

(* Each step of the producer.                                              *)
LEMMA ProducerKeeps == ASSUME IInv, ProducerStep PROVE IInv'
<1>1. CASE ReadEmptyLine \/ Retry \/ Poll \/ FlushServes
  BY <1>1, ServeKeeps
     DEF ReadEmptyLine, Retry, Poll, FlushServes, Goes, InHand, ProducerPCs, Serve
<1> QED
  BY <1>1, ReadLineKeeps, StaysKeeps, EnqueueKeeps, RefusedKeeps, CountAndDeleteKeeps
     DEF ProducerStep

(* ... those of the library, ...                                           *)
LEMMA LibraryKeeps ==
  ASSUME IInv, UNCHANGED producerVars, NEW l \in Lines,
         Deliver(l) \/ AnswerLost(l) \/ GiveUp(l) \/ StoreLate(l)
  PROVE  IInv'
<1> USE DEF IInv
<1>0. UNCHANGED <<pc, typed, told, InHand>>
  BY DEF producerVars, InHand
<1>1. ASSUME l \in queue
      PROVE  /\ l \notin InHand /\ l \notin Reported
             /\ told[l] = "nothing" /\ l <= typed /\ ~(l > typed)
  <2>1. l <= typed /\ ~(l > typed)
    BY <1>1, LinesAreNumbers DEF Apart, Types
  <2> QED BY <1>1, <2>1 DEF Apart
<1>2. CASE Deliver(l)
  <2>1. /\ l \in queue /\ queue' = queue \ {l}
        /\ reports' \in Seq(Reports) /\ Reported' = Reported \cup {l}
        /\ ReportSet' = ReportSet \cup {Report(l, TRUE)}
        /\ log' \in Seq(Lines) /\ Logged' = Logged \cup {l} /\ late' = late
    BY <1>2, NewReport, NewInLog DEF Deliver
  <2>2. Types'
    BY <1>0, <1>1, <2>1 DEF Types
  <2>3. Apart' /\ NoneLost'
    BY <1>0, <1>1, <2>1 DEF Apart, NoneLost
  <2>4. \A k \in Lines : Report(k, TRUE) \in ReportSet' => k \in Logged'
    BY <2>1 DEF Truth, Report
  <2>5. Truth'
    BY <1>0, <1>1, <2>1, <2>4 DEF Truth
  <2>6. GivenUp'
    <3>1. l \notin late
      BY <2>1 DEF GivenUp
    <3>2. \A k \in late : Report(k, TRUE) # Report(l, TRUE)
      BY <3>1 DEF Report
    <3> QED BY <1>0, <2>1, <3>2 DEF GivenUp
  <2> QED BY <2>2, <2>3, <2>5, <2>6
<1>3. CASE AnswerLost(l)
  <2>1. /\ UNCHANGED <<queue, reports, late, Reported, ReportSet>> /\ l \in queue
        /\ log' \in Seq(Lines) /\ Logged' = Logged \cup {l}
    BY <1>3, NewInLog, Same DEF AnswerLost
  <2>2. Types'
    BY <1>0, <1>1, <2>1 DEF Types
  <2>3. Apart' /\ NoneLost' /\ GivenUp'
    BY <1>0, <2>1 DEF Apart, NoneLost, GivenUp
  <2>4. Truth'
    BY <1>0, <1>1, <2>1 DEF Truth
  <2> QED BY <2>2, <2>3, <2>4
<1>4. CASE GiveUp(l)
  <2>1. /\ l \in queue /\ queue' = queue \ {l}
        /\ reports' \in Seq(Reports) /\ Reported' = Reported \cup {l}
        /\ ReportSet' = ReportSet \cup {Report(l, FALSE)}
        /\ UNCHANGED <<log, Logged>> /\ late' \subseteq late \cup {l}
    BY <1>4, NewReport, Same DEF GiveUp
  <2>2. Types'
    BY <1>0, <1>1, <2>1 DEF Types
  <2>3. Apart' /\ NoneLost'
    BY <1>0, <1>1, <2>1 DEF Apart, NoneLost
  <2>4. \A k \in Lines : Report(k, TRUE) \in ReportSet' => Report(k, TRUE) \in ReportSet
    BY <2>1 DEF Report
  <2>5. Truth'
    BY <1>0, <1>1, <2>1, <2>4 DEF Truth
  <2>6. GivenUp'
    <3>1. Report(l, TRUE) \notin ReportSet
      BY <1>1, <2>1, ReportedIff
    <3> QED BY <1>0, <1>1, <2>1, <2>4, <3>1 DEF GivenUp, Types
  <2> QED BY <2>2, <2>3, <2>5, <2>6
<1>5. CASE StoreLate(l)
  <2>1. /\ UNCHANGED <<queue, reports, Reported, ReportSet>> /\ l \in late
        /\ log' \in Seq(Lines) /\ Logged' = Logged \cup {l} /\ late' = late \ {l}
    BY <1>5, NewInLog, Same DEF StoreLate
  <2>2. l \notin InHand /\ ~(l > typed) /\ told[l] # "refused"
    <3>1. l \notin InHand /\ l <= typed /\ told[l] \in {"nothing", "failed"}
      BY <2>1 DEF GivenUp
    <3>2. ~(l > typed)
      BY <3>1, LinesAreNumbers DEF Types
    <3> QED BY <3>1, <3>2
  <2>3. Types'
    BY <1>0, <2>1 DEF Types
  <2>4. Apart' /\ NoneLost' /\ GivenUp'
    BY <1>0, <2>1 DEF Apart, NoneLost, GivenUp
  <2>5. Truth'
    BY <1>0, <2>1, <2>2 DEF Truth
  <2> QED BY <2>3, <2>4, <2>5
<1> QED BY <1>2, <1>3, <1>4, <1>5

(* ... and those of the consumer.                                          *)
LEMMA Unchanged ==
  ASSUME IInv, UNCHANGED <<kafkaVars, producerVars>> PROVE IInv'
<1>1. UNCHANGED <<queue, reports, late, log, pc, typed, told, InHand, Reported,
                  ReportSet, Logged>>
  BY Same DEF kafkaVars, producerVars, InHand
<1> QED BY <1>1 DEF IInv, Types, Apart, NoneLost, Truth, GivenUp

(* Every step keeps the invariant.                                         *)
LEMMA Inductive == IInv /\ [Next]_vars => IInv'
<1> SUFFICES ASSUME IInv, [Next]_vars PROVE IInv'
  OBVIOUS
<1>1. CASE Producer
  BY <1>1, ProducerKeeps DEF Producer
<1>2. CASE Library
  BY <1>2, LibraryKeeps DEF Library
<1>3. CASE Start \/ Consume \/ Stop \/ UNCHANGED vars
  BY <1>3, Unchanged DEF Start, Consume, Stop, vars
<1> QED BY <1>1, <1>2, <1>3 DEF Next

(* The invariant holds before anything was started.                        *)
LEMMA InitHolds == Init => IInv
<1> SUFFICES ASSUME Init PROVE IInv
  OBVIOUS
<1>1. /\ queue = {} /\ reports = << >> /\ late = {} /\ log = << >> /\ pc = "read" /\ typed = 0
      /\ told = [l \in Lines |-> "nothing"]
  BY DEF Init, KafkaInit, ProducerInit
<1>2. Reported = {} /\ ReportSet = {} /\ Logged = {} /\ InHand = {}
  BY <1>1 DEF Reported, ReportSet, Logged, InHand
<1>3. Types
  BY <1>1 DEF Types, ProducerPCs, Fates
<1>4. Apart /\ NoneLost /\ Truth /\ GivenUp
  BY <1>1, <1>2, LinesAreNumbers DEF Apart, NoneLost, Truth, GivenUp
<1> QED BY <1>3, <1>4 DEF IInv

(* The invariant holds always.                                             *)
LEMMA Invariance == Spec => []IInv
BY InitHolds, Inductive, PTL DEF Spec

(* A line read is in exactly one place until its fate is printed, for any  *)
(* number of lines and any size of the queue (producer.cpp:64-102).        *)
THEOREM LinesInOnePlace == Spec => []OnePlace
<1>1. ASSUME IInv, pc # "done", NEW l \in Lines
      PROVE  Cardinality(Places(l)) = IF l <= typed THEN 1 ELSE 0
  <2>1. InHand \subseteq {typed} /\ typed \in Nat
    BY <1>1, LinesAreNumbers DEF IInv, Types, InHand
  <2>2. CASE l <= typed
    <3>1. PICK p \in {"hand", "queue", "reports", "told"} : Places(l) = {p}
      BY <1>1, <2>2 DEF IInv, Apart, NoneLost, Places
    <3> QED BY <2>2, <3>1, FS_Singleton
  <2>3. CASE ~(l <= typed)
    <3>1. Places(l) = {}
      BY <1>1, <2>1, <2>3, LinesAreNumbers DEF IInv, Apart, Places
    <3> QED BY <2>3, <3>1, FS_EmptySet
  <2> QED BY <2>2, <2>3
<1>2. IInv => OnePlace
  BY <1>1 DEF OnePlace
<1> QED BY <1>2, Invariance, PTL

-----------------------------------------------------------------------------
(* The number printed at the end *)

(* No two reports are about the same line, so that counting reports counts *)
(* lines.                                                                  *)
Counting == IsFiniteSet(Reported) /\ Cardinality(Reported) = Len(reports)

(* Every step keeps the counters equal to the numbers of lines.            *)
LEMMA CountingKept == IInv /\ Counting /\ [Next]_vars => Counting'
<1> SUFFICES ASSUME IInv, Counting, [Next]_vars PROVE Counting'
  OBVIOUS
<1>1. CASE UNCHANGED reports
  BY <1>1, Same DEF Counting
<1>2. CASE reports' = << >>
  BY <1>2, NoReports, FS_EmptySet DEF Counting
<1>3. ASSUME NEW l \in Lines, NEW ok \in BOOLEAN, l \in queue,
             reports' = Append(reports, Report(l, ok))
      PROVE  Counting'
  <2>1. Types /\ l \notin Reported
    BY <1>3 DEF IInv, Apart
  <2>2. Reported' = Reported \cup {l}
    BY <1>3, <2>1, NewReport
  <2>3. Len(reports') = Len(reports) + 1
    <3>1. Report(l, ok) \in Reports
      BY DEF Report, Reports
    <3> QED BY <1>3, <2>1, <3>1, AppendProperties DEF Types
  <2>4. IsFiniteSet(Reported') /\ Cardinality(Reported') = Cardinality(Reported) + 1
    BY <2>1, <2>2, FS_AddElement DEF Counting
  <2> QED BY <2>3, <2>4 DEF Counting
<1>4. CASE Producer
  BY <1>1, <1>2, <1>4
     DEF Producer, ProducerStep, ReadLine, EndOfInput, ReadEmptyLine, Enqueue,
         QueueFull, Refused, Retry, Poll, FlushServes, FlushEnds, CountAndDelete,
         Serve, kafkaVars
<1>5. CASE Library
  <2>1. PICK l \in Lines : Deliver(l) \/ AnswerLost(l) \/ GiveUp(l) \/ StoreLate(l)
    BY <1>5 DEF Library
  <2>2. CASE Deliver(l)
    BY <1>3, <2>2 DEF Deliver
  <2>3. CASE AnswerLost(l) \/ StoreLate(l)
    BY <1>1, <2>3 DEF AnswerLost, StoreLate
  <2>4. CASE GiveUp(l)
    BY <1>3, <2>4 DEF GiveUp
  <2> QED BY <2>1, <2>2, <2>3, <2>4
<1>6. CASE Start \/ Consume \/ Stop \/ UNCHANGED vars
  BY <1>1, <1>6 DEF Start, Consume, Stop, kafkaVars, vars
<1> QED BY <1>4, <1>5, <1>6 DEF Next

(* What is still queued or not yet reported when flush() gives up is what  *)
(* nothing was printed about.                                              *)
LEMMA CountsUntold ==
  ASSUME IInv, Counting, pc = "count"
  PROVE  Outstanding = Cardinality({l \in Lines : l <= typed /\ told[l] = "nothing"})
<1> DEFINE untold == {l \in Lines : l <= typed /\ told[l] = "nothing"}
<1>1. Types /\ InHand = {} /\ typed \in Nat
  BY LinesAreNumbers DEF IInv, Types, InHand
<1>2. untold = queue \cup Reported
  BY <1>1, ReportedLines DEF IInv, Types, Apart, NoneLost
<1>3. queue \cap Reported = {}
  BY DEF IInv, Apart
<1>4. IsFiniteSet(queue)
  <2>1. queue \in SUBSET (0..typed)
    BY <1>1, LinesAreNumbers DEF IInv, Types, Apart
  <2>2. IsFiniteSet(0..typed)
    BY <1>1, FS_Interval
  <2> QED BY <2>1, <2>2, FS_Subset
<1>5. Cardinality(queue \cup Reported) = Cardinality(queue) + Cardinality(Reported)
  <2>1. Cardinality(queue) \in Nat /\ Cardinality(Reported) \in Nat
    BY <1>4, FS_CardinalityType DEF Counting
  <2>2. Cardinality(queue \cap Reported) = 0
    BY <1>3, FS_EmptySet
  <2>3. Cardinality(queue \cup Reported)
          = Cardinality(queue) + Cardinality(Reported) - Cardinality(queue \cap Reported)
    BY <1>4, FS_Union DEF Counting
  <2> HIDE DEF untold
  <2> QED BY <2>1, <2>2, <2>3
<1> QED BY <1>2, <1>5 DEF Counting, Outstanding

(* Every step keeps the account right.                                     *)
LEMMA AccountedKept == IInv /\ Counting /\ Accounted /\ [Next]_vars => Accounted'
<1> SUFFICES ASSUME IInv, Counting, Accounted, [Next]_vars PROVE Accounted'
  OBVIOUS
<1>1. CASE UNCHANGED <<pc, typed, told, notDelivered>>
  BY <1>1 DEF Accounted
<1>2. CASE CountAndDelete
  <2>1. pc = "count" /\ notDelivered' = Outstanding /\ UNCHANGED <<typed, told>>
    BY <1>2 DEF CountAndDelete, Goes
  <2> QED BY <2>1, CountsUntold DEF Accounted
<1>3. CASE Producer /\ ~CountAndDelete
  <2>1. pc' # "done"
    BY <1>3
    DEF Producer, ProducerStep, ReadLine, EndOfInput, ReadEmptyLine, Enqueue,
        QueueFull, Refused, Retry, Poll, FlushServes, FlushEnds, Goes
  <2> QED BY <2>1 DEF Accounted
<1>4. CASE Library \/ Start \/ Consume \/ Stop \/ UNCHANGED vars
  BY <1>1, <1>4 DEF Library, Start, Consume, Stop, producerVars, vars
<1> QED BY <1>2, <1>3, <1>4 DEF Next

(* "n message(s) were not delivered" (producer.cpp:107): the user can tell *)
(* which ones, as nothing was printed about just so many.                  *)
THEOREM NumberIsRight == Spec => []Accounted
<1>1. Init => IInv /\ Counting /\ Accounted
  <2>1. Init => Counting /\ Accounted
    BY FS_EmptySet DEF Init, KafkaInit, ProducerInit, Counting, Reported, Accounted
  <2> QED BY <2>1, InitHolds
<1>2. IInv /\ Counting /\ Accounted /\ [Next]_vars => (IInv /\ Counting /\ Accounted)'
  BY Inductive, CountingKept, AccountedKept
<1> QED BY <1>1, <1>2, PTL DEF Spec

-----------------------------------------------------------------------------
(* Numbers and bounds *)

(* What of TypeOK is not in Types.                                         *)
InBounds ==
  /\ IsFiniteSet(queue)
  /\ Outstanding <= QueueMax
  /\ repeats \in 0..MaxRepeats
  /\ notDelivered \in 0..QueueMax
  /\ consuming \in BOOLEAN
  /\ offset \in 0..Len(log)
  /\ printed \subseteq Lines

(* What may happen to the queue and the reports never makes them more than *)
(* the limit: a message moves from the queue to a report, ...              *)
LEMMA MovesStayWithin ==
  ASSUME Types, InBounds, NEW l \in queue, NEW ok \in BOOLEAN,
         queue' = queue \ {l}, reports' = Append(reports, Report(l, ok))
  PROVE  IsFiniteSet(queue') /\ Outstanding' <= QueueMax
<1>1. IsFiniteSet(queue') /\ Cardinality(queue') = Cardinality(queue) - 1
  BY FS_RemoveElement DEF InBounds
<1>2. Len(reports') = Len(reports) + 1 /\ Len(reports) \in Nat
  <2>1. Report(l, ok) \in Reports
    BY DEF Report, Reports, Types
  <2> QED BY <2>1, AppendProperties, LenProperties DEF Types
<1>3. Cardinality(queue) \in Nat
  BY FS_CardinalityType DEF InBounds
<1>4. Outstanding <= QueueMax /\ QueueMax \in Nat
  BY RdKafkaAssumption DEF InBounds
<1> QED BY <1>1, <1>2, <1>3, <1>4 DEF Outstanding

(* ... reports are served, the queue is deleted, ...                       *)
LEMMA ServingStaysWithin ==
  ASSUME Types, InBounds, queue' \in {queue, {}}, reports' = << >>
  PROVE  IsFiniteSet(queue') /\ Outstanding' <= QueueMax
<1>1. Len(reports) \in Nat /\ Len(reports') = 0
  BY LenProperties DEF Types
<1>2. Cardinality(queue) \in Nat /\ IsFiniteSet(queue)
  BY FS_CardinalityType DEF InBounds
<1>3. Cardinality(queue) + Len(reports) <= QueueMax /\ QueueMax \in Nat
  BY RdKafkaAssumption DEF InBounds, Outstanding
<1>4. CASE queue' = queue
  BY <1>1, <1>2, <1>3, <1>4 DEF Outstanding
<1>5. CASE queue' = {}
  BY <1>1, <1>3, <1>5, FS_EmptySet DEF Outstanding
<1> QED BY <1>4, <1>5

(* ... and a line is enqueued only below it.                               *)
LEMMA EnqueueStaysWithin ==
  ASSUME Types, InBounds, Enqueue
  PROVE  IsFiniteSet(queue') /\ Outstanding' <= QueueMax
<1>1. /\ queue' = queue \cup {typed} /\ reports' = reports
      /\ Cardinality(queue) + Len(reports) < QueueMax
  BY DEF Enqueue, Outstanding
<1>2. IsFiniteSet(queue') /\ Cardinality(queue') <= Cardinality(queue) + 1
  <2>1. Cardinality(queue) \in Nat
    BY FS_CardinalityType DEF InBounds
  <2>2. PICK q, l : q = queue /\ l = typed /\ IsFiniteSet(q) /\ queue' = q \cup {l}
    BY <1>1 DEF InBounds
  <2>3. /\ IsFiniteSet(q \cup {l})
        /\ Cardinality(q \cup {l}) = IF l \in q THEN Cardinality(q) ELSE Cardinality(q) + 1
    BY <2>2, FS_AddElement, Zenon
  <2> QED BY <2>1, <2>2, <2>3
<1>3. /\ Cardinality(queue) \in Nat /\ Cardinality(queue') \in Nat
      /\ Len(reports) \in Nat /\ QueueMax \in Nat
  BY <1>2, FS_CardinalityType, LenProperties, RdKafkaAssumption DEF InBounds, Types
<1> QED BY <1>1, <1>2, <1>3 DEF Outstanding

(* Every step keeps the bounds.                                            *)
LEMMA BoundsKept == IInv /\ InBounds /\ [Next]_vars => InBounds'
<1> SUFFICES ASSUME IInv, InBounds, [Next]_vars PROVE InBounds'
  OBVIOUS
<1>0. Types /\ Len(log) \in Nat /\ MaxRepeats \in Nat /\ QueueMax \in Nat
  BY LenProperties, RdKafkaAssumption DEF IInv, Types
<1>1. consuming' \in BOOLEAN
  BY Zenon DEF InBounds, Next, Producer, Library, Start, Consume, Stop, consumerVars, vars
<1>2. IsFiniteSet(queue') /\ Outstanding' <= QueueMax
  <2>1. CASE Producer
    <3>1. CASE Enqueue
      BY <1>0, <3>1, EnqueueStaysWithin
    <3>2. CASE queue' \in {queue, {}} /\ reports' = << >>
      BY <1>0, <3>2, ServingStaysWithin
    <3>3. CASE UNCHANGED <<queue, reports>>
      BY <3>3 DEF InBounds, Outstanding
    <3>4. CASE Serve
      BY <3>2, <3>4 DEF Serve
    <3>5. CASE CountAndDelete
      BY <3>2, <3>5 DEF CountAndDelete
    <3>6. CASE UNCHANGED kafkaVars
      BY <3>3, <3>6 DEF kafkaVars
    <3>7. Enqueue \/ Serve \/ CountAndDelete \/ UNCHANGED kafkaVars
      BY <2>1, Zenon
         DEF Producer, ProducerStep, ReadLine, EndOfInput, ReadEmptyLine, QueueFull,
             Refused, Retry, Poll, FlushServes, FlushEnds
    <3> QED BY <3>1, <3>4, <3>5, <3>6, <3>7
  <2>2. CASE Library
    <3>1. PICK l \in Lines : Deliver(l) \/ AnswerLost(l) \/ GiveUp(l) \/ StoreLate(l)
      BY <2>2 DEF Library
    <3>2. CASE Deliver(l)
      BY <1>0, <3>2, MovesStayWithin DEF Deliver
    <3>3. CASE GiveUp(l)
      BY <1>0, <3>3, MovesStayWithin DEF GiveUp
    <3>4. CASE AnswerLost(l) \/ StoreLate(l)
      BY <3>4 DEF AnswerLost, StoreLate, InBounds, Outstanding
    <3> QED BY <3>1, <3>2, <3>3, <3>4
  <2>3. CASE Start \/ Consume \/ Stop \/ UNCHANGED vars
    BY <2>3 DEF Start, Consume, Stop, kafkaVars, vars, InBounds, Outstanding
  <2> QED BY <2>1, <2>2, <2>3 DEF Next
<1>3. repeats' \in 0..MaxRepeats
  <2>1. CASE \E l \in Lines : AnswerLost(l)
    BY <1>0, <2>1 DEF AnswerLost, InBounds
  <2>2. CASE UNCHANGED repeats
    BY <2>2 DEF InBounds
  <2> QED BY <2>1, <2>2 DEF Next, Producer, ProducerStep, ReadLine, EndOfInput, ReadEmptyLine,
      Enqueue, QueueFull, Refused, Retry, Poll, FlushServes, FlushEnds, CountAndDelete,
      Serve, kafkaVars, Library, Deliver, GiveUp, StoreLate, Start, Consume, Stop, vars
<1>4. notDelivered' \in 0..QueueMax
  <2>1. CASE CountAndDelete
    <3>1. Cardinality(queue) \in Nat /\ Len(reports) \in Nat
      BY <1>0, FS_CardinalityType, LenProperties DEF InBounds, Types
    <3> QED BY <1>0, <2>1, <3>1 DEF CountAndDelete, InBounds, Outstanding
  <2>2. CASE UNCHANGED notDelivered
    BY <2>2 DEF InBounds
  <2> QED BY <2>1, <2>2
      DEF Next, Producer, ProducerStep, ReadLine, EndOfInput, ReadEmptyLine,
          Enqueue, QueueFull, Refused, Retry, Poll, FlushServes, FlushEnds,
          Serve, producerVars, Library, Start, Consume, Stop, vars
<1>5. printed' \subseteq Lines /\ offset' \in 0..Len(log)
  <2>1. CASE Start \/ Stop
    BY <1>0, <2>1 DEF Start, Stop, InBounds
  <2>2. CASE Consume
    <3>1. offset + 1 \in 1..Len(log)
      BY <1>0, <2>2 DEF Consume, InBounds
    <3>2. log[offset + 1] \in Lines
      BY <1>0, <3>1, ElementOfSeq DEF Types
    <3> QED BY <1>0, <2>2, <3>1, <3>2 DEF Consume, InBounds, kafkaVars
  <2>3. CASE UNCHANGED <<consuming, offset, printed>>
    BY <1>0, <2>3 DEF InBounds
  <2> QED BY <2>1, <2>2, <2>3 DEF Next, Producer, Library, consumerVars, vars
<1>6. Len(log') \in Nat /\ Len(log') >= Len(log)
  <2>1. CASE log' = log
    BY <1>0, <2>1
  <2>2. ASSUME NEW l \in Lines, log' = Append(log, l)
        PROVE  Len(log') \in Nat /\ Len(log') >= Len(log)
    <3>1. Len(log') = Len(log) + 1
      BY <1>0, <2>2, AppendProperties DEF Types
    <3> QED BY <1>0, <3>1
  <2> QED BY <2>1, <2>2
      DEF Next, Producer, ProducerStep, ReadLine, EndOfInput, ReadEmptyLine, Enqueue,
          QueueFull, Refused, Retry, Poll, FlushServes, FlushEnds, CountAndDelete,
          Serve, kafkaVars, Library, Deliver, AnswerLost, GiveUp, StoreLate, Start,
          Consume, Stop, vars
<1>7. offset' \in 0..Len(log')
  BY <1>0, <1>5, <1>6
<1> QED BY <1>1, <1>2, <1>3, <1>4, <1>5, <1>7, Zenon DEF InBounds

(* TypeOK: every variable keeps its type, never more than QueueMax messages *)
(* are outstanding, although each waits there until its report was served,  *)
(* and the consumer never asks for an offset beyond the end of the log      *)
(* (producer.cpp:66-109, consumer.cpp:85-90).                               *)
THEOREM Typing == Spec => []TypeOK
<1>1. Init => IInv /\ InBounds
  <2>1. Init => InBounds
    <3> SUFFICES ASSUME Init PROVE InBounds
      OBVIOUS
    <3>1. Len(reports) = 0 /\ Len(log) = 0 /\ Cardinality(queue) = 0 /\ IsFiniteSet(queue)
      BY FS_EmptySet DEF Init, KafkaInit
    <3>2. /\ Outstanding <= QueueMax /\ repeats \in 0..MaxRepeats
          /\ notDelivered \in 0..QueueMax /\ offset \in 0..Len(log)
      BY <3>1, RdKafkaAssumption DEF Init, KafkaInit, ProducerInit, Outstanding
    <3>3. consuming \in BOOLEAN /\ printed \subseteq Lines
      BY Zenon DEF Init
    <3> QED BY <3>1, <3>2, <3>3 DEF InBounds
  <2> QED BY <2>1, InitHolds
<1>2. IInv /\ InBounds /\ [Next]_vars => (IInv /\ InBounds)'
  BY Inductive, BoundsKept
<1>3. IInv /\ InBounds => TypeOK
  <2> SUFFICES ASSUME IInv, InBounds PROVE TypeOK
    OBVIOUS
  <2>1. reports \in Seq([line : Lines, ok : BOOLEAN])
    BY DEF IInv, Types, Reports
  <2> QED BY <2>1, Zenon DEF IInv, Types, InBounds, TypeOK
<1> QED BY <1>1, <1>2, <1>3, PTL DEF Spec

-----------------------------------------------------------------------------
(* The pipeline delivers lines *)

(* Serving the reports tells the user the fate of their lines.             *)
LEMMA ServeIsTell ==
  ASSUME IInv, Serve, UNCHANGED consumerVars
  PROVE  User!Next
<1> DEFINE delivered == {l \in Lines : Report(l, TRUE) \in ReportSet}
           failed    == {l \in Lines : Report(l, FALSE) \in ReportSet}
<1>1. \A l \in delivered \cup failed : l \in Reported /\ l \in Lines
  BY ReportedIff DEF IInv
<1>2. \A l \in delivered \cup failed : told[l] = "nothing" /\ l <= typed
  BY <1>1 DEF IInv, Apart
<1>3. delivered \subseteq Logged
  BY DEF IInv, Truth
<1>4. told' = [l \in Lines |-> IF l \in delivered THEN "delivered"
                               ELSE IF l \in failed THEN "failed" ELSE told[l]]
  BY DEF Serve, ReportSet
<1>5. UNCHANGED <<typed, Logged, consuming, printed>>
  BY Same DEF Serve, consumerVars
<1>6. User!Tell(delivered, failed)
  BY <1>1, <1>2, <1>3, <1>4, <1>5 DEF User!Tell
<1>7. delivered \in SUBSET Lines /\ failed \in SUBSET Lines
  OBVIOUS
<1> HIDE DEF delivered, failed
<1> QED BY <1>6, <1>7 DEF User!Next

(* Every step of the pipeline is one of the delivery, or a stutter.        *)
LEMMA NextSimulates ==
  ASSUME IInv, offset \in Nat, [Next]_vars PROVE [User!Next]_User!vars
<1> USE DEF IInv
<1>1. CASE UNCHANGED <<typed, Logged, told, consuming, printed>>
  BY <1>1 DEF User!vars
<1>2. CASE ReadLine /\ UNCHANGED consumerVars
  <2>1. /\ typed' = typed + 1 /\ typed' \in Lines /\ typed \in Nat
        /\ UNCHANGED <<Logged, told, consuming, printed>>
    BY <1>2, Same, LinesAreNumbers DEF ReadLine, kafkaVars, consumerVars, Types
  <2>2. PICK n \in Lines : n = typed'
    BY <2>1
  <2>3. \A l \in Lines : l <= n <=> l <= typed \/ l = n
    BY <2>1, <2>2, LinesAreNumbers
  <2>4. {l \in Lines : l <= n} = {l \in Lines : l <= typed} \cup {n}
    BY <2>2, <2>3, Zenon
  <2>5. n \notin {l \in Lines : l <= typed}
    BY <2>1, <2>2
  <2>6. User!Type(n)
    BY <2>1, <2>2, <2>4, <2>5 DEF User!Type
  <2> QED BY <2>6 DEF User!Next
<1>3. CASE Refused /\ UNCHANGED consumerVars
  <2>1. /\ typed \in Lines /\ typed \in InHand /\ typed <= typed
        /\ told' = [told EXCEPT ![typed] = "refused"]
        /\ UNCHANGED <<typed, Logged, consuming, printed>>
    BY <1>3, Same, LinesAreNumbers
       DEF Refused, kafkaVars, consumerVars, Types, InHand, Goes
  <2>2. User!Refuse(typed)
    BY <2>1 DEF User!Refuse, Apart, Truth
  <2> QED BY <2>1, <2>2 DEF User!Next
<1>4. CASE Serve /\ UNCHANGED consumerVars
  BY <1>4, ServeIsTell
<1>5. CASE Library
  <2>1. PICK l \in Lines : Deliver(l) \/ AnswerLost(l) \/ GiveUp(l) \/ StoreLate(l)
    BY <1>5 DEF Library
  <2>2. UNCHANGED <<typed, told, consuming, printed>>
    BY <1>5 DEF Library, producerVars, consumerVars
  <2>3. CASE GiveUp(l)
    BY <1>1, <2>2, <2>3, Same DEF GiveUp
  <2>4. CASE Deliver(l) \/ AnswerLost(l) \/ StoreLate(l)
    <3>1. Logged' = Logged \cup {l}
      BY <2>4, NewInLog DEF Deliver, AnswerLost, StoreLate
    <3>2. l <= typed /\ told[l] \in {"nothing", "failed"}
      BY <2>4 DEF Deliver, AnswerLost, StoreLate, Apart, GivenUp
    <3>3. User!Store(l)
      BY <2>2, <3>1, <3>2 DEF User!Store
    <3> QED BY <3>3 DEF User!Next
  <2> QED BY <2>1, <2>3, <2>4
<1>6. CASE Start
  BY <1>6, Same DEF Start, kafkaVars, producerVars, User!Begin, User!Next
<1>7. CASE Consume
  <2>1. UNCHANGED <<typed, told, consuming, Logged>> /\ consuming
    BY <1>7, Same DEF Consume, kafkaVars, producerVars
  <2>2. log[offset + 1] \in Logged /\ log[offset + 1] \in Lines
    BY <1>7 DEF Consume, Logged, Types
  <2>3. User!Read(log[offset + 1])
    BY <1>7, <2>1, <2>2 DEF Consume, User!Read
  <2> QED BY <2>2, <2>3 DEF User!Next
<1>8. CASE Stop
  BY <1>8, Same DEF Stop, kafkaVars, producerVars, User!Leave, User!Next
<1>9. CASE Producer
  <2>1. CASE EndOfInput \/ QueueFull \/ FlushEnds \/ Enqueue \/ CountAndDelete
    BY <1>1, <1>9, <2>1, Same
       DEF Producer, consumerVars, EndOfInput, QueueFull, FlushEnds, Enqueue,
           CountAndDelete, kafkaVars
  <2>2. CASE ReadEmptyLine \/ Retry \/ Poll \/ FlushServes
    BY <1>4, <1>9, <2>2 DEF Producer, ReadEmptyLine, Retry, Poll, FlushServes
  <2> QED BY <1>2, <1>3, <1>9, <2>1, <2>2 DEF Producer, ProducerStep
<1>10. CASE UNCHANGED vars
  BY <1>1, <1>10, Same DEF vars, kafkaVars, producerVars, consumerVars
<1> QED BY <1>5, <1>6, <1>7, <1>8, <1>9, <1>10 DEF Next

(* The safety part of ImplementsDelivery, for any number of lines.         *)
THEOREM Refinement == Spec => User!Init /\ [][User!Next]_User!vars
<1>1. Init => User!Init
  <2> SUFFICES ASSUME Init PROVE User!Init
    OBVIOUS
  <2>1. {l \in Lines : l <= typed} = {}
    <3>1. \A l \in Lines : ~(l <= typed)
      BY LinesAreNumbers DEF Init, ProducerInit
    <3> QED BY <3>1, Zenon
  <2>2. Logged = {}
    BY DEF Init, KafkaInit, Logged
  <2> QED BY <2>1, <2>2 DEF Init, ProducerInit, User!Init
<1>2. Init => IInv /\ offset \in Nat
  BY InitHolds DEF Init
<1>3. IInv /\ offset \in Nat /\ [Next]_vars => (IInv /\ offset \in Nat)'
  <2>1. offset \in Nat /\ [Next]_vars => offset' \in Nat
    BY DEF Next, Producer, Library, Start, Consume, Stop, consumerVars, vars
  <2> QED BY <2>1, Inductive
<1>4. IInv /\ offset \in Nat /\ [Next]_vars => [User!Next]_User!vars
  BY NextSimulates
<1> QED BY <1>1, <1>2, <1>3, <1>4, PTL DEF Spec
=============================================================================
