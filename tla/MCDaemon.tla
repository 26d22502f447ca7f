------------------------------ MODULE MCDaemon ------------------------------
(***************************************************************************)
(* The parts of the daemon beside its scheduler: the alert engine, the     *)
(* history writer and the plugin host.  Their models share no state, so a  *)
(* behaviour moves one of them, which `part` names, and keeps the others   *)
(* where they begin.                                                       *)
(***************************************************************************)
EXTENDS Alerts, History, MCPluginHost

CONSTANTS s1, s2, r1, r2
VARIABLE part

\* Alerts: one rule in the file; clients replace it, or add another.
RuleA == [name |-> r1, expr |-> {s1, s2}, for |-> 1, cooldown |-> 3, enabled |-> TRUE]
RuleB == [name |-> r1, expr |-> {s1}, for |-> 0, cooldown |-> 0, enabled |-> FALSE]
RuleC == [name |-> r2, expr |-> {s1}, for |-> 0, cooldown |-> 2, enabled |-> TRUE]
MCRequests == {RuleA, RuleB, RuleC}
MCFiles == {<<RuleA>>}

Init ==
    /\ part \in {"alerts", "history", "host"}
    /\ AlertsInit /\ HistoryInit /\ HostInit
    /\ part # "history" => history = 0 /\ ~engine
    /\ part # "host" => conf = << >>

Next ==
    /\ UNCHANGED part
    /\ \/ /\ part = "alerts" /\ AlertsNext
          /\ UNCHANGED <<historyVars, hostVars>>
       \/ /\ part = "history" /\ HistoryNext
          /\ UNCHANGED <<alertVars, hostVars>>
       \/ /\ part = "host" /\ HostNext
          /\ UNCHANGED <<alertVars, historyVars>>

Spec == Init /\ [][Next]_<<part, alertVars, historyVars, hostVars>>
=============================================================================
