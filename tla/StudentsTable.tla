--------------------------- MODULE StudentsTable ---------------------------
(***************************************************************************)
(* src/MySQL/demo/source: main.cpp with the calls it makes to MySQLDB and  *)
(* StudentsTable.  main looks at no result: a call that fails prints an    *)
(* error at most, and the next one follows.  The handle is never NULL once *)
(* connect was called, also when connecting failed.                        *)
(***************************************************************************)
EXTENDS MySqlServer

VARIABLES
  pc,      \* the next call of each run, "off" if there is no process
  shown    \* what getAll gave each run

demoVars == <<pc, shown>>

Calls == {"connect", "createDataBase", "createTable", "isTableExist", "add",
          "modify", "getAll", "dump", "remove", "destoryTable", "disconnect",
          "pause"}

DemoInit ==
  /\ pc = [r \in Runs |-> "off"]
  /\ shown = [r \in Runs |-> {}]

Goes(r, from, to) == pc[r] = from /\ pc' = [pc EXCEPT ![r] = to]

Start(r) ==
  /\ Goes(r, "off", "connect")
  /\ shown' = [shown EXCEPT ![r] = {}]
  /\ UNCHANGED mySqlVars

connect(r) ==
  /\ Goes(r, "connect", "createDataBase")
  /\ \/ up /\ Becomes(r, "open")
     \/ UNCHANGED session
  /\ UNCHANGED <<up, table, shown>>

(* CREATE DATABASE IF NOT EXISTS, then USE; nobody drops the database.     *)
createDataBase(r) ==
  /\ Goes(r, "createDataBase", "createTable")
  /\ Becomes(r, IF Connected(r) THEN "using" ELSE session[r])
  /\ UNCHANGED <<up, table, shown>>

(* query(): the statement changes the table, or fails and changes nothing. *)
query(r, from, to, works, rows) ==
  /\ Goes(r, from, to)
  /\ table' = IF works THEN rows ELSE table
  /\ UNCHANGED <<up, session, shown>>

createTable(r) ==
  query(r, "createTable", "isTableExist", session[r] = "using" /\ table = NULL, {})

isTableExist(r) ==
  Goes(r, "isTableExist", "add") /\ UNCHANGED <<mySqlVars, shown>>

add(r) == query(r, "add", "modify", FindsTable(r) /\ table = {}, {90})

(* Mutant: an INSERT in place of the UPDATE. *)
modifyInserts(r) ==
  query(r, "modify", "getAll", FindsTable(r) /\ table = {}, {95})

modify(r) == query(r, "modify", "getAll", FindsTable(r), {95 : row \in table})

getAll(r) ==
  /\ Goes(r, "getAll", "dump")
  /\ shown' = [shown EXCEPT ![r] = IF FindsTable(r) THEN table ELSE {}]
  /\ UNCHANGED mySqlVars

dump(r) == Goes(r, "dump", "remove") /\ UNCHANGED <<mySqlVars, shown>>

remove(r) == query(r, "remove", "destoryTable", FindsTable(r), {})

(* Mutant: a DELETE in place of the DROP. *)
destoryTableClears(r) ==
  query(r, "destoryTable", "disconnect", FindsTable(r), {})

destoryTable(r) ==
  query(r, "destoryTable", "disconnect", FindsTable(r), NULL)

disconnect(r) ==
  /\ Goes(r, "disconnect", "pause")
  /\ Becomes(r, "none")
  /\ UNCHANGED <<up, table, shown>>

(* The key the user presses in the end, or an interrupt anywhere. *)
End(r) ==
  /\ pc[r] # "off"
  /\ pc' = [pc EXCEPT ![r] = "off"]
  /\ Becomes(r, "none")
  /\ UNCHANGED <<up, table, shown>>

Call(r) ==
  \/ connect(r) \/ createDataBase(r) \/ createTable(r) \/ isTableExist(r)
  \/ add(r) \/ modify(r) \/ getAll(r) \/ dump(r) \/ remove(r)
  \/ destoryTable(r) \/ disconnect(r)
=============================================================================
