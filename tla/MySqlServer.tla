---------------------------- MODULE MySqlServer ----------------------------
(***************************************************************************)
(* What src/MySQL/demo uses of a MySQL server: connections, and the table  *)
(* students of the database test.  Each statement is atomic and lasting.   *)
(* The server may stop and start again: the data stays, and a connection   *)
(* is lost for good, as the client library does not connect again.         *)
(*                                                                         *)
(* The demo has one student, so a row is its score and the table is the    *)
(* set of rows; the primary key lets it have one at most.                  *)
(***************************************************************************)
CONSTANTS
  Runs,  \* the runs of the demo that may be under way at once
  NULL

ASSUME NullAssumption == NULL \notin {{}, {90}, {95}}

VARIABLES
  up,       \* the server runs
  table,    \* its rows, NULL if there is no table
  session   \* the connection of each run: "none", "open", "using" (after
            \* USE test) or "lost"

mySqlVars == <<up, table, session>>

MySqlInit ==
  /\ up = TRUE
  /\ table = NULL
  /\ session = [r \in Runs |-> "none"]

Connected(r) == session[r] \in {"open", "using"}

(* A statement that names students without its database needs a USE.       *)
FindsTable(r) == session[r] = "using" /\ table # NULL

Becomes(r, s) == session' = [session EXCEPT ![r] = s]

ServerStops ==
  /\ up
  /\ up' = FALSE
  /\ session' = [r \in Runs |-> IF Connected(r) THEN "lost" ELSE session[r]]
  /\ UNCHANGED table

ServerStarts ==
  /\ ~up
  /\ up' = TRUE
  /\ UNCHANGED <<table, session>>
=============================================================================
