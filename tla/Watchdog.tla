------------------------------ MODULE Watchdog ------------------------------
(***************************************************************************)
(* src/Shell/wd.sh: every ten seconds it looks for server_mini in the list *)
(* of processes, and when it is not there ends ping.sh and runs run.sh.    *)
(*                                                                         *)
(* run.sh and server_mini are not in the repository.  run.sh starts        *)
(* server_mini and ping.sh, which has to be why the old ping.sh is ended   *)
(* before; ping.sh never ends of itself.  The server may die at any moment,*)
(* somebody else may run run.sh, and a command that merely has the name    *)
(* server_mini in its line looks like the server.                          *)
(***************************************************************************)
EXTENDS Naturals

CONSTANT MaxByHand  \* bound: times somebody else runs run.sh

ASSUME ByHandAssumption == MaxByHand \in Nat

VARIABLES
  servers,  \* the processes server_mini
  pingers,  \* the processes ping.sh
  other,    \* a command with the server's name in its line runs
  wd,       \* where wd.sh stands
  byHand,   \* times somebody else ran run.sh
  unseen    \* history: those since wd.sh last knew that no ping.sh ran

systemVars == <<servers, pingers, other>>
wdVars == <<systemVars, wd, byHand, unseen>>

WdTypeOK ==
  /\ servers \in 0..MaxByHand + 1
  /\ pingers \in 0..MaxByHand + 1
  /\ other \in BOOLEAN
  /\ wd \in {"ps", "psPing", "killall", "run", "record", "sleep"}
  /\ byHand \in 0..MaxByHand
  /\ unseen \in 0..byHand

WdInit ==
  /\ servers = 0
  /\ pingers = 0
  /\ other = FALSE
  /\ wd = "ps"
  /\ byHand = 0
  /\ unseen = 0

(* A server beside another may start or give up. *)
RunSh ==
  /\ pingers' = pingers + 1
  /\ \/ servers' = servers + 1
     \/ servers > 0 /\ UNCHANGED servers
  /\ UNCHANGED other

Dies == servers > 0 /\ servers' = servers - 1 /\ UNCHANGED <<pingers, other>>

Other == other' = ~other /\ UNCHANGED <<servers, pingers>>

ByHand ==
  /\ byHand < MaxByHand
  /\ byHand' = byHand + 1
  /\ unseen' = unseen + 1
  /\ RunSh
  /\ UNCHANGED wd

Passes(from, to) == wd = from /\ wd' = to

(* Mutant: the sense of the test is reversed. *)
PsReversed ==
  /\ Passes("ps", IF servers > 0 \/ other THEN "psPing" ELSE "sleep")
  /\ UNCHANGED <<systemVars, byHand, unseen>>

Ps ==
  /\ Passes("ps", IF servers > 0 \/ other THEN "sleep" ELSE "psPing")
  /\ UNCHANGED <<systemVars, byHand, unseen>>

PsPing ==
  /\ Passes("psPing", IF pingers > 0 THEN "killall" ELSE "run")
  /\ unseen' = IF pingers > 0 THEN unseen ELSE 0
  /\ UNCHANGED <<systemVars, byHand>>

(* Mutant: one process is ended, not all. *)
KillOne ==
  /\ Passes("killall", "run")
  /\ pingers' = pingers - 1
  /\ unseen' = 0
  /\ UNCHANGED <<servers, other, byHand>>

Killall ==
  /\ Passes("killall", "run")
  /\ pingers' = 0
  /\ unseen' = 0
  /\ UNCHANGED <<servers, other, byHand>>

Restart == Passes("run", "record") /\ RunSh /\ UNCHANGED <<byHand, unseen>>

(* "restarted!" is written, and then wd.sh sleeps. *)
Record == Passes("record", "sleep") /\ UNCHANGED <<systemVars, byHand, unseen>>

Wake == Passes("sleep", "ps") /\ UNCHANGED <<systemVars, byHand, unseen>>

Wd == Ps \/ PsPing \/ Killall \/ Restart \/ Record \/ Wake

WdNext ==
  \/ Wd
  \/ (Dies \/ Other) /\ UNCHANGED <<wd, byHand, unseen>>
  \/ ByHand

(* wd.sh goes on; nothing else has to happen.                              *)
WdSpec == WdInit /\ [][WdNext]_wdVars /\ WF_wdVars(Wd)

-----------------------------------------------------------------------------

(* Restarts do not pile up processes: there is one ping.sh at most, and    *)
(* one more for each time somebody else ran run.sh since wd.sh knew there  *)
(* was none.  Ending the old ones and starting a new one is not atomic.    *)
OnePinger == pingers <= 1 + unseen

(* A server that is gone is started again, by wd.sh or by somebody else,   *)
(* unless another command looks like it when wd.sh looks.                  *)
Restarted == servers = 0 ~> servers > 0 \/ other
=============================================================================
