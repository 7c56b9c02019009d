----------------------------- MODULE DemoProofs -----------------------------
(***************************************************************************)
(* Proofs about the small programs of the repository: the MySQL demo, the  *)
(* watchdog script and the lengths of the CMake demo.                      *)
(***************************************************************************)
EXTENDS StudentsDemo, Watchdog, Quantity, TLAPS

-----------------------------------------------------------------------------
(* The MySQL demo cleans up and shows the right score, for any number of   *)
(* runs that overlap, are cut off and follow one another.                  *)

(* A run that has the table for itself is the only one whose statements    *)
(* find it; the table holds what its calls so far put there.               *)
Alone(r) == Has(r) /\ r \notin shared

OnlyOne == \A r, q \in Runs : Alone(r) /\ Has(q) => q = r

KnowsTable ==
  \A r \in Runs :
    Alone(r) =>
      /\ table # NULL
      /\ pc[r] = "modify" => table # {}
      /\ pc[r] = "getAll" => table = {95}
      /\ pc[r] = "dump" => shown[r] = {95}

IInv == TypeOK /\ NothingLeft /\ OnlyOne /\ KnowsTable

-----------------------------------------------------------------------------
(* The calls of one run *)

(* Every call of a run keeps the types.                                    *)
LEMMA DemoTypes ==
  ASSUME TypeOK, NEW r \in Runs, Demo(r) PROVE TypeOK'
<1> USE DEF TypeOK, Demo, mySqlVars, Goes, Becomes, Calls
<1>1. shared' \subseteq Runs /\ cut' \in BOOLEAN /\ up' \in BOOLEAN
  <2>1. shared' \subseteq Runs
    BY DEF Others
  <2>2. up' = up
    BY DEF Start, Call, connect, createDataBase, createTable, isTableExist, add,
           modify, getAll, dump, remove, destoryTable, disconnect, query
  <2> QED BY <2>1, <2>2
<1>2. /\ table' \in {NULL, {}, {90}, {95}}
      /\ session' \in [Runs -> {"none", "open", "using", "lost"}]
      /\ pc' \in [Runs -> Calls \cup {"off"}]
      /\ shown' \in [Runs -> {{}, {90}, {95}}]
  BY NullAssumption
  DEF Start, Call, connect, createDataBase, createTable, isTableExist, add,
      modify, getAll, dump, remove, destoryTable, disconnect, query, FindsTable
<1> QED BY <1>1, <1>2

(* What a call of one run does not touch: the other runs.                  *)
LEMMA OthersUntouched ==
  ASSUME TypeOK, NEW r \in Runs, Start(r) \/ Call(r), NEW q \in Runs, q # r
  PROVE  pc'[q] = pc[q] /\ session'[q] = session[q] /\ shown'[q] = shown[q]
BY DEF TypeOK, Start, Call, connect, createDataBase, createTable, isTableExist,
       add, modify, getAll, dump, remove, destoryTable, disconnect, query,
       Goes, Becomes, mySqlVars

(* Which calls change the table: each of them but createTable needs to     *)
(* find it, as a run that has it does.                                     *)
LEMMA TableChanges ==
  ASSUME TypeOK, NEW r \in Runs, Start(r) \/ Call(r), table' # table
  PROVE  \/ createTable(r) /\ session[r] = "using" /\ table = NULL /\ table' = {}
         \/ Has(r)
BY DEF TypeOK, Start, Call, connect, createDataBase, createTable, isTableExist,
       add, modify, getAll, dump, remove, destoryTable, disconnect, query,
       Goes, Becomes, mySqlVars, Has, FindsTable

(* A run comes to have the table by createTable only, and then there is    *)
(* one.                                                                    *)
LEMMA ComesToHave ==
  ASSUME TypeOK, NEW r \in Runs, Start(r) \/ Call(r), Has(r)'
  PROVE  \/ createTable(r) /\ session[r] = "using" /\ table' # NULL
         \/ Has(r) /\ pc[r] # "destoryTable"
BY NullAssumption
   DEF TypeOK, Start, Call, connect, createDataBase, createTable, isTableExist,
       add, modify, getAll, dump, remove, destoryTable, disconnect, query,
       Goes, Becomes, mySqlVars, Has

(* It ceases to have it by dropping it.                                    *)
LEMMA CeasesToHave ==
  ASSUME TypeOK, NEW r \in Runs, Start(r) \/ Call(r), Has(r), ~Has(r)'
  PROVE  table' = NULL
BY DEF TypeOK, Start, Call, connect, createDataBase, createTable, isTableExist,
       add, modify, getAll, dump, remove, destoryTable, disconnect, query,
       Goes, Becomes, mySqlVars, Has, FindsTable

-----------------------------------------------------------------------------
(* The invariant *)

(* A run that has the table is past its createTable, so shared changes     *)
(* only when a run comes to createTable, and then has all who have it.     *)
LEMMA SharedChanges ==
  ASSUME NEW r \in Runs, Demo(r)
  PROVE  /\ pc[r] # "createTable" => shared' = shared
         /\ pc[r] = "createTable" =>
              \A q \in Runs : Has(q) /\ q # r => q \in shared' /\ r \in shared'
BY DEF Demo, Others

(* A call of a run leaves no table behind but that of a run that has one,  *)
(* or was cut off.                                                         *)
LEMMA DemoCleansUp ==
  ASSUME IInv, NEW r \in Runs, Demo(r) PROVE NothingLeft'
<1> SUFFICES ASSUME table' # NULL PROVE cut' \/ \E q \in Runs : Has(q)'
  BY DEF NothingLeft
<1>0. TypeOK /\ (Start(r) \/ Call(r)) /\ cut' = cut
  BY DEF IInv, Demo, TypeOK
<1>1. Has(r) => Has(r)'
  BY <1>0, CeasesToHave
<1>2. \A q \in Runs : Has(q) => Has(q)'
  BY <1>0, <1>1, OthersUntouched DEF Has
<1>3. CASE table # NULL
  BY <1>0, <1>2, <1>3 DEF IInv, NothingLeft
<1>4. CASE table = NULL
  <2>1. CASE createTable(r) /\ session[r] = "using"
    BY <1>0, <2>1 DEF createTable, query, Goes, Has, TypeOK
  <2>2. CASE Has(r)
    BY <1>1, <2>2
  <2> QED BY <1>0, <1>4, <2>1, <2>2, TableChanges
<1> QED BY <1>3, <1>4

(* A call of a run leaves those that share the table marked.               *)
LEMMA DemoKeepsOnlyOne ==
  ASSUME IInv, NEW r \in Runs, Demo(r) PROVE OnlyOne'
<1> SUFFICES ASSUME NEW a \in Runs, NEW b \in Runs, Alone(a)', Has(b)', a # b
             PROVE  FALSE
  BY DEF OnlyOne
<1>0. TypeOK /\ (Start(r) \/ Call(r)) /\ Has(a)' /\ a \notin shared'
  BY DEF IInv, Demo, Alone
<1>1. \A q \in {a, b} : q # r => Has(q)
  BY <1>0, OthersUntouched DEF Has
<1>2. CASE pc[r] = "createTable"
  BY <1>0, <1>1, <1>2, SharedChanges
<1>3. CASE pc[r] # "createTable"
  <2>1. r \in {a, b} => Has(r)
    BY <1>0, <1>3, ComesToHave DEF createTable, query, Goes
  <2>2. Has(a) /\ Has(b) /\ a \notin shared
    BY <1>0, <1>1, <1>3, <2>1, SharedChanges
  <2> QED BY <2>2 DEF IInv, OnlyOne, Alone
<1> QED BY <1>2, <1>3

(* A call of a run leaves in the table what the next one expects, and      *)
(* spares the tables of others.                                            *)
LEMMA DemoKnowsTable ==
  ASSUME IInv, NEW r \in Runs, Demo(r) PROVE KnowsTable'
<1> SUFFICES ASSUME NEW a \in Runs, Alone(a)'
             PROVE  /\ table' # NULL
                    /\ pc'[a] = "modify" => table' # {}
                    /\ pc'[a] = "getAll" => table' = {95}
                    /\ pc'[a] = "dump" => shown'[a] = {95}
  BY DEF KnowsTable
<1>0. TypeOK /\ (Start(r) \/ Call(r)) /\ Has(a)' /\ a \notin shared'
  BY DEF IInv, Demo, Alone
<1>1. CASE a = r /\ createTable(r)
  <2>1. table' # NULL
    BY <1>0, <1>1, ComesToHave DEF createTable, query, Goes, Has
  <2>2. pc'[r] = "isTableExist"
    BY <1>0, <1>1 DEF createTable, query, Goes, TypeOK
  <2> QED BY <1>1, <2>1, <2>2
<1>2. CASE a = r /\ ~createTable(r)
  <2>1. Has(r) /\ pc[r] # "destoryTable" /\ r \notin shared
    BY <1>0, <1>2, ComesToHave, SharedChanges DEF Has
  <2>2. /\ table # NULL
        /\ pc[r] = "modify" => table # {}
        /\ pc[r] = "getAll" => table = {95}
    BY <2>1 DEF IInv, KnowsTable, Alone
  <2>3. CASE isTableExist(r)
    BY <1>0, <1>2, <2>2, <2>3 DEF isTableExist, Goes, mySqlVars, TypeOK
  <2>4. CASE add(r)
    BY <1>0, <1>2, <2>1, <2>2, <2>4, NullAssumption
       DEF add, query, Goes, FindsTable, Has, TypeOK
  <2>5. CASE modify(r)
    <3>1. table' = {95 : row \in table} /\ pc'[r] = "getAll"
      BY <1>0, <2>1, <2>2, <2>5 DEF modify, query, Goes, FindsTable, Has, TypeOK
    <3>2. table \in {{90}, {95}}
      BY <1>0, <2>2, <2>5 DEF modify, query, Goes, TypeOK
    <3>3. table' = {95}
      BY <3>1, <3>2
    <3> QED BY <1>2, <3>1, <3>3, NullAssumption
  <2>6. CASE getAll(r)
    BY <1>0, <1>2, <2>1, <2>2, <2>6
       DEF getAll, Goes, FindsTable, Has, TypeOK, mySqlVars
  <2>7. CASE dump(r)
    BY <1>0, <1>2, <2>2, <2>7 DEF dump, Goes, mySqlVars, TypeOK
  <2>8. CASE remove(r)
    BY <1>0, <1>2, <2>2, <2>8, NullAssumption
       DEF remove, query, Goes, TypeOK
  <2> QED
    BY <1>0, <1>2, <2>1, <2>3, <2>4, <2>5, <2>6, <2>7, <2>8
       DEF Start, Call, connect, createDataBase, destoryTable, disconnect, query,
           Goes, Has
<1>3. CASE a # r
  <2>1. Has(a) /\ pc'[a] = pc[a] /\ shown'[a] = shown[a]
    BY <1>0, <1>3, OthersUntouched DEF Has
  <2>2. pc[r] # "createTable" /\ shared' = shared
    BY <1>0, <1>3, <2>1, SharedChanges
  <2>3. ~Has(r)
    BY <1>0, <1>3, <2>1, <2>2 DEF IInv, OnlyOne, Alone
  <2>4. table' = table
    BY <1>0, <2>2, <2>3, TableChanges DEF createTable, query, Goes
  <2> QED BY <1>0, <2>1, <2>2, <2>4 DEF IInv, KnowsTable, Alone
<1> QED BY <1>1, <1>2, <1>3

(* An interrupted run has nothing any more; the others keep what they have. *)
LEMMA InterruptCuts ==
  ASSUME TypeOK, NEW r \in Runs, Interrupt(r)
  PROVE  /\ TypeOK'
         /\ UNCHANGED <<table, shown, shared>>
         /\ \A q \in Runs : Has(q)' => Has(q) /\ pc'[q] = pc[q]
         /\ cut => cut'
         /\ \A q \in Runs : Has(q) => Has(q)' \/ cut'
<1>1. /\ pc' = [pc EXCEPT ![r] = "off"]
      /\ session' = [session EXCEPT ![r] = "none"]
      /\ UNCHANGED <<up, table, shown, shared>>
  BY DEF Interrupt, End, Becomes
<1>2. cut' \in BOOLEAN /\ (cut => cut') /\ (Has(r) => cut')
  BY Zenon DEF Interrupt
<1>3. /\ pc' \in [Runs -> Calls \cup {"off"}]
      /\ session' \in [Runs -> {"none", "open", "using", "lost"}]
  BY <1>1 DEF TypeOK
<1>4. ~Has(r)'
  BY <1>1, "none" # "using" DEF TypeOK, Has
<1>5. ASSUME NEW q \in Runs, q # r
      PROVE  pc'[q] = pc[q] /\ session'[q] = session[q]
  BY <1>1, <1>5 DEF TypeOK
<1>6. \A q \in Runs : q # r => (Has(q)' <=> Has(q)) /\ pc'[q] = pc[q]
  BY <1>5 DEF Has
<1>7. TypeOK'
  BY <1>1, <1>2, <1>3, Zenon DEF TypeOK
<1> QED BY <1>1, <1>2, <1>4, <1>6, <1>7

(* Nor have the connections of a server that stops; one that starts finds  *)
(* what there was.                                                         *)
LEMMA MysqldCuts ==
  ASSUME TypeOK, Mysqld
  PROVE  /\ TypeOK'
         /\ UNCHANGED <<table, shown, shared>>
         /\ \A q \in Runs : Has(q)' => Has(q) /\ pc'[q] = pc[q]
         /\ cut => cut'
         /\ \A q \in Runs : Has(q) => Has(q)' \/ cut'
<1>1. UNCHANGED <<table, pc, shown, shared>> /\ up' \in BOOLEAN
  <2>1. UNCHANGED <<table, pc, shown, shared>>
    BY DEF Mysqld, ServerStops, ServerStarts, demoVars
  <2>2. up' \in BOOLEAN
    BY Zenon DEF Mysqld, ServerStops, ServerStarts
  <2> QED BY <2>1, <2>2
<1>2. cut' \in BOOLEAN /\ (cut => cut') /\ \A q \in Runs : Has(q) => cut'
  BY Zenon DEF Mysqld
<1>3. /\ session' \in [Runs -> {"none", "open", "using", "lost"}]
      /\ \A q \in Runs : session'[q] = "using" => session[q] = "using"
  <2>1. CASE ServerStops
    BY <2>1 DEF ServerStops, TypeOK
  <2>2. CASE ServerStarts
    BY <2>2 DEF ServerStarts, TypeOK
  <2> QED BY <2>1, <2>2 DEF Mysqld
<1>4. \A q \in Runs : Has(q)' => Has(q) /\ pc'[q] = pc[q]
  BY <1>1, <1>3 DEF Has
<1>5. TypeOK'
  BY <1>1, <1>2, <1>3, Zenon DEF TypeOK
<1> QED BY <1>1, <1>2, <1>4, <1>5

(* Neither takes the table from a run that goes on, nor leaves one behind  *)
(* that is not known to be cut off.                                        *)
LEMMA CutsKeep ==
  ASSUME IInv, Mysqld \/ \E r \in Runs : Interrupt(r) PROVE IInv'
<1>1. TypeOK
  BY DEF IInv
<1>2. /\ TypeOK'
      /\ UNCHANGED <<table, shown, shared>>
      /\ \A q \in Runs : Has(q)' => Has(q) /\ pc'[q] = pc[q]
      /\ cut => cut'
      /\ \A q \in Runs : Has(q) => Has(q)' \/ cut'
  <2>1. CASE Mysqld
    BY <1>1, <2>1, MysqldCuts
  <2>2. ASSUME NEW r \in Runs, Interrupt(r)
        PROVE  /\ TypeOK'
               /\ UNCHANGED <<table, shown, shared>>
               /\ \A q \in Runs : Has(q)' => Has(q) /\ pc'[q] = pc[q]
               /\ cut => cut'
               /\ \A q \in Runs : Has(q) => Has(q)' \/ cut'
    BY <1>1, <2>2, InterruptCuts
  <2> QED BY <2>1, <2>2
<1>3. NothingLeft'
  BY <1>2 DEF IInv, NothingLeft
<1>4. OnlyOne'
  BY <1>2 DEF IInv, OnlyOne, Alone
<1>5. KnowsTable'
  BY <1>2 DEF IInv, KnowsTable, Alone
<1> QED BY <1>2, <1>3, <1>4, <1>5 DEF IInv

(* Every step keeps the invariant.                                         *)
LEMMA Inductive == IInv /\ [Next]_vars => IInv'
<1> SUFFICES ASSUME IInv, [Next]_vars PROVE IInv'
  OBVIOUS
<1>1. ASSUME NEW r \in Runs, Demo(r) PROVE IInv'
  BY <1>1, DemoTypes, DemoCleansUp, DemoKeepsOnlyOne, DemoKnowsTable DEF IInv
<1>2. CASE Mysqld \/ \E r \in Runs : Interrupt(r)
  BY <1>2, CutsKeep
<1>3. CASE UNCHANGED vars
  BY <1>3 DEF vars, mySqlVars, demoVars, IInv, TypeOK, NothingLeft, OnlyOne,
              KnowsTable, Alone, Has, Calls
<1> QED BY <1>1, <1>2, <1>3 DEF Next

(* The invariant holds before anything was started.                        *)
LEMMA InitHolds == Init => IInv
BY DEF Init, MySqlInit, DemoInit, IInv, TypeOK, NothingLeft, OnlyOne, KnowsTable,
       Alone, Has, Calls

(* TypeOK: types only, among them the few contents the table may have.     *)
THEOREM Typing == Spec => []TypeOK
<1>1. IInv => TypeOK
  BY DEF IInv
<1> QED BY <1>1, InitHolds, Inductive, PTL DEF Spec

(* No table stays behind but that of a run that was cut off (main.cpp:42), *)
(* for any number of runs.                                                 *)
THEOREM CleansUp == Spec => []NothingLeft
<1>1. IInv => NothingLeft
  BY DEF IInv
<1> QED BY <1>1, InitHolds, Inductive, PTL DEF Spec

(* A run that has the table for itself shows the score of its modify       *)
(* (main.cpp:30), for any number of runs.                                  *)
THEOREM ShowsScore == Spec => []ShowsItsScore
<1>1. IInv => ShowsItsScore
  BY DEF IInv, KnowsTable, Alone, Has, ShowsItsScore
<1> QED BY <1>1, InitHolds, Inductive, PTL DEF Spec

-----------------------------------------------------------------------------
(* However often run.sh is run by hand, and at whatever points of the loop *)
(* of wd.sh, the processes ping.sh do not pile up.                         *)

(* Once wd.sh has seen no server, those there are were started by hand.    *)
FewServers ==
  servers <= IF wd \in {"psPing", "killall", "run"} THEN byHand ELSE byHand + 1

(* OnePinger is not inductive: run.sh adds one.  When wd.sh comes to run   *)
(* it, it has ended the old ping.sh or seen none, and all there are were   *)
(* started by hand since.                                                  *)
WatchdogInv ==
  /\ WdTypeOK
  /\ FewServers
  /\ OnePinger
  /\ wd = "run" => pingers <= unseen

(* Every command of wd.sh and all around it keep the invariant.            *)
LEMMA WatchdogInductive == WatchdogInv /\ [WdNext]_wdVars => WatchdogInv'
<1> SUFFICES ASSUME WatchdogInv, [WdNext]_wdVars PROVE WatchdogInv'
  OBVIOUS
<1> USE ByHandAssumption DEF WatchdogInv, WdTypeOK, FewServers, OnePinger
<1>1. CASE Ps
  BY <1>1 DEF Ps, Passes, systemVars
<1>2. CASE PsPing
  BY <1>2 DEF PsPing, Passes, systemVars
<1>3. CASE Killall
  BY <1>3 DEF Killall, Passes
<1>4. CASE Restart
  BY <1>4 DEF Restart, RunSh, Passes
<1>5. CASE Record
  BY <1>5 DEF Record, Passes, systemVars
<1>6. CASE Wake
  BY <1>6 DEF Wake, Passes, systemVars
<1>7. CASE (Dies \/ Other) /\ UNCHANGED <<wd, byHand, unseen>>
  <2>1. other' \in BOOLEAN
    BY <1>7, Zenon DEF Dies, Other
  <2> QED BY <1>7, <2>1 DEF Dies, Other
<1>8. CASE ByHand
  BY <1>8 DEF ByHand, RunSh
<1>9. CASE UNCHANGED wdVars
  BY <1>9 DEF wdVars, systemVars
<1> QED BY <1>1, <1>2, <1>3, <1>4, <1>5, <1>6, <1>7, <1>8, <1>9 DEF WdNext, Wd

(* The invariant holds before wd.sh is started.                            *)
LEMMA WatchdogInitHolds == WdInit => WatchdogInv
<1>1. WdInit => other \in BOOLEAN
  BY Zenon DEF WdInit
<1> QED BY <1>1, ByHandAssumption
    DEF WdInit, WatchdogInv, WdTypeOK, FewServers, OnePinger

(* Neither servers nor pings pile up beyond those run by hand.             *)
THEOREM WatchdogTyping == WdSpec => []WdTypeOK
<1>1. WatchdogInv => WdTypeOK
  BY DEF WatchdogInv
<1> QED BY <1>1, WatchdogInitHolds, WatchdogInductive, PTL DEF WdSpec

(* There is one ping.sh at most, and one more for each run.sh by hand that *)
(* wd.sh could not know of (wd.sh:8-13) -- for any number of them.         *)
THEOREM OnePingerAlways == WdSpec => []OnePinger
<1>1. WatchdogInv => OnePinger
  BY DEF WatchdogInv
<1> QED BY <1>1, WatchdogInitHolds, WatchdogInductive, PTL DEF WdSpec

-----------------------------------------------------------------------------
(* Lengths *)

(* What is used of the width of an unsigned int (Amount.h:4).              *)
LEMMA Width == \E n \in Nat : n > 11 /\ Modulus = 4 * n
<1>1. 2^32 = 4 * 1073741824
  BY SMT
<1> QED BY <1>1, SMT DEF Modulus

(* LengthTest.cpp:8: one foot equals twelve inches.                        *)
THEOREM OneFoot == SameLength(1, FEET, 12, INCH)
BY DEF SameLength, Length, FEET, INCH

(* As long as no product wraps, two lengths compare equal exactly when     *)
(* they are equally long, whatever their units.                            *)
THEOREM EqualWhenEquallyLong ==
  ASSUME NEW u \in LengthUnit, NEW a \in Amount, u * a < Modulus,
         NEW v \in LengthUnit, NEW b \in Amount, v * b < Modulus
  PROVE  SameLength(a, u, b, v) <=> u * a = v * b
<1>1. PICK n \in Nat : n > 11 /\ Modulus = 4 * n
  BY Width
<1>2. u * a \in 0..Modulus - 1 /\ v * b \in 0..Modulus - 1
  BY <1>1 DEF LengthUnit, INCH, FEET, Amount
<1>3. \A p \in 0..Modulus - 1 : p % Modulus = p
  BY <1>1
<1> QED BY <1>2, <1>3 DEF SameLength, Length

(* Beyond that equality is wrong: feet that are not equally many compare   *)
(* equal, so an equal length does not tell an equal amount (Length.cpp:4). *)
THEOREM EqualityWraps ==
  \E a, b \in Amount : a # b /\ SameLength(a, FEET, b, FEET)
<1>1. PICK n \in Nat : n > 11 /\ Modulus = 4 * n
  BY Width
<1>2. 0 \in Amount /\ n \in Amount /\ n # 0
  BY <1>1 DEF Amount
<1>3. 12 * n = 3 * Modulus
  BY <1>1
<1>4. (12 * n) % Modulus = 0
  <2>1. (3 * Modulus) % Modulus = 0
    BY <1>1
  <2> QED BY <1>3, <2>1, Zenon
<1>5. Length(n, FEET) = 0 /\ Length(0, FEET) = 0
  BY <1>1, <1>4 DEF Length, FEET, INCH
<1> QED BY <1>2, <1>5 DEF SameLength
=============================================================================
