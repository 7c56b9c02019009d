---------------------------- MODULE StudentsDemo ----------------------------
(***************************************************************************)
(* Runs of the demo that overlap, are interrupted and follow one another   *)
(* on one server, which may stop and start.                                *)
(***************************************************************************)
EXTENDS StudentsTable

VARIABLES
  cut,     \* history: a run that had the table was cut off since the last DROP
  shared   \* history: the runs that had the table together with another one

vars == <<mySqlVars, demoVars, cut, shared>>

TypeOK ==
  /\ up \in BOOLEAN
  /\ table \in {NULL, {}, {90}, {95}}
  /\ session \in [Runs -> {"none", "open", "using", "lost"}]
  /\ pc \in [Runs -> Calls \cup {"off"}]
  /\ shown \in [Runs -> {{}, {90}, {95}}]
  /\ cut \in BOOLEAN
  /\ shared \subseteq Runs

Init ==
  /\ MySqlInit
  /\ DemoInit
  /\ cut = FALSE
  /\ shared = {}

(* Run r has been through createTable and not yet through destoryTable,    *)
(* on a connection that holds.                                             *)
Has(r) ==
  /\ session[r] = "using"
  /\ pc[r] \in {"isTableExist", "add", "modify", "getAll", "dump", "remove",
                "destoryTable"}

Others(r) == {q \in Runs \ {r} : Has(q)}

Demo(r) ==
  /\ Start(r) \/ Call(r)
  /\ cut' = (cut /\ ~(table # NULL /\ table' = NULL))
  /\ shared' = IF pc[r] # "createTable" THEN shared
               ELSE IF Others(r) = {} THEN shared \ {r}
               ELSE shared \cup {r} \cup Others(r)

Interrupt(r) ==
  /\ End(r)
  /\ cut' = (cut \/ Has(r))
  /\ UNCHANGED shared

Mysqld ==
  /\ ServerStops \/ ServerStarts
  /\ cut' = (cut \/ \E r \in Runs : Has(r))
  /\ UNCHANGED <<demoVars, shared>>

Next == Mysqld \/ \E r \in Runs : Demo(r) \/ Interrupt(r)

Spec == Init /\ [][Next]_vars

-----------------------------------------------------------------------------

(* The demo cleans up: when no run is between its createTable and its      *)
(* destoryTable there is no table left, unless a run was cut off since a   *)
(* run last came to its DROP.  Runs that overlap, whose statements fail on *)
(* each other's tables and rows, leave nothing either.                     *)
NothingLeft == table # NULL => cut \/ \E r \in Runs : Has(r)

(* A run that has the table for itself shows the student with the score of *)
(* modify, whatever rows earlier runs left: its INSERT fails on the key of *)
(* an old row, and the failure is ignored, but the UPDATE mends the row.   *)
ShowsItsScore ==
  \A r \in Runs :
    pc[r] = "dump" /\ session[r] = "using" /\ r \notin shared => shown[r] = {95}
=============================================================================
